-------------------------- MODULE MigrationPackage --------------------------
(***************************************************************************)
(* scripts/migration/build_package.py over a state root that processes it  *)
(* has not seen still use, and restore_state.py over what it publishes.    *)
(* The state root is the context queue (ContextJobs) and the database's    *)
(* other rows, of which only counts whether one is not terminal.           *)
(*                                                                         *)
(* The builder reads the root file by file, twice, and copies it between;  *)
(* a file that is replaced has another mtime.  What is done on private     *)
(* copies (archives, encryption, the Git checks, the reports) is one step  *)
(* that may refuse.  Each builder has an output of its own; they share the *)
(* key file.                                                               *)
(***************************************************************************)
EXTENDS ContextJobs, Sequences, SequencesExt

CONSTANTS
    Builders,   \* runs of build_package.py
    Restorers   \* runs of restore_state.py with one --target

ASSUME MigrationConstantsOK == {None, "empty"} \cap Builders = {}

VARIABLES
    busy,       \* a job or a task in the database is not terminal
    lock,       \* the builder that holds BEGIN IMMEDIATE
    keyfile,    \* the migration key: none, empty, or who made it
    builder,    \* what each builder is doing
    output,     \* the artifacts in each builder's output directory
    restorer,   \* what each restorer is doing
    target,     \* the restored state root
    robbed      \* builders whose key another build has removed since

migration == <<busy, lock, keyfile, builder, output, restorer, target, robbed>>
vars == <<contextVars, migration>>

-----------------------------------------------------------------------------
(***************************************************************************)
(* The files of a state root, in the order in which both the fingerprint   *)
(* and the copy visit them.                                                *)
(***************************************************************************)
Each(kind, S) == LET seq == SetToSeq(S) IN [i \in 1..Len(seq) |-> <<kind, seq[i]>>]

BeforeDatabase == Each("job", Jobs) \o Each("ir", Contexts) \o Each("manifest", Contexts)

\* PERSISTENT without harness.db, which the lock protects.
Fingerprinted == BeforeDatabase \o Each("object", Jobs)

Copied == BeforeDatabase \o <<<<"database">>>> \o Each("object", Jobs)

Content(i) ==
    CASE i[1] = "job"      -> file[i[2]]
      [] i[1] = "ir"       -> package[i[2]].ir
      [] i[1] = "manifest" -> package[i[2]].manifest
      [] i[1] = "object"   -> i[2] \in objects
      [] i[1] = "database" -> [rows |-> snapshots, busy |-> busy]

Root == [i \in Range(Copied) |-> Content(i)]

\* validate_quiescent_records(): no work is left to do.
Quiescent(tree) ==
    /\ ~tree[<<"database">>].busy
    /\ \A j \in Jobs : tree[<<"job", j>>].status \in Settled \cup {None}

\* What a successful or failed context job refers to is there.
Referred(tree, j) ==
    LET job == tree[<<"job", j>>]
        c == Context[j]
    IN /\ j \in tree[<<"database">>].rows
       /\ tree[<<"object", j>>]
       /\ job.status = "succeeded" =>
             tree[<<"manifest", c>>] = job.result /\ tree[<<"ir", c>>] = job.result

\* Every package is read, referred to or not.
PackagesLoad(tree) ==
    \A c \in Contexts :
        tree[<<"ir", c>>] # None \/ tree[<<"manifest", c>>] # None
        => tree[<<"ir", c>>] = tree[<<"manifest", c>>]

Closed(tree) ==
    /\ PackagesLoad(tree)
    /\ \A j \in Jobs : tree[<<"job", j>>].status # None => Referred(tree, j)

\* validate_staged_state(), and the same again in restore().
ValidStage(tree) == Quiescent(tree) /\ Closed(tree)

-----------------------------------------------------------------------------
NoTree == <<>>

Builder(at) ==
    [at |-> at, existed |-> FALSE, key |-> None, read |-> 0, touched |-> {},
     moment |-> NoTree, staged |-> NoTree, created |-> {}]

\* What build() leaves behind: directories and files that are moved there in one
\* step, and others that are written there.
Moved == {"package", "secret transfer", "emergency"}

Artifacts == <<"package", "secret transfer", "emergency", "tar", "sidecars", "attestation">>

Init ==
    /\ ContextInit
    /\ busy \in BOOLEAN
    /\ lock = None
    /\ keyfile = None
    /\ builder = [b \in Builders |-> Builder("idle")]
    /\ output = [b \in Builders |-> {}]
    /\ restorer = [r \in Restorers |-> [at |-> "idle"]]
    /\ target = NoTree
    /\ robbed = {}

Is(b, place) == builder[b].at = place

Becomes(b, state) == builder' = [builder EXCEPT ![b] = state]

Goes(b, place) == Becomes(b, [builder[b] EXCEPT !.at = place])

\* validate_inputs(), and key_existed.
Validate(b) ==
    /\ Is(b, "idle")
    /\ output[b] = {}
    /\ Quiescent(Root)
    /\ Becomes(b, [Builder("key") EXCEPT !.existed = keyfile # None])
    /\ UNCHANGED <<contextVars, busy, lock, keyfile, output, restorer, target, robbed>>

-----------------------------------------------------------------------------
(***************************************************************************)
(* ensure_key() and read_key(), which nothing cleans up after.             *)
(***************************************************************************)
EnsureKey(b) ==
    /\ Is(b, "key")
    /\ CASE keyfile = None    -> keyfile' = "empty" /\ Goes(b, "write key")
         [] keyfile = "empty" -> UNCHANGED keyfile /\ Becomes(b, Builder("idle"))
         [] OTHER             -> UNCHANGED keyfile /\ Goes(b, "read key")
    /\ UNCHANGED <<contextVars, busy, lock, output, restorer, target, robbed>>

WriteKey(b) ==
    /\ Is(b, "write key")
    /\ keyfile' = (IF keyfile = "empty" THEN b ELSE keyfile)
    /\ Goes(b, "read key")
    /\ UNCHANGED <<contextVars, busy, lock, output, restorer, target, robbed>>

ReadKey(b) ==
    /\ Is(b, "read key")
    /\ IF keyfile \in {None, "empty"} THEN Becomes(b, Builder("idle"))
       ELSE Becomes(b, [builder[b] EXCEPT !.at = "guard", !.key = keyfile])
    /\ UNCHANGED <<contextVars, busy, lock, keyfile, output, restorer, target, robbed>>

\* The key file has the key that the build has read.
HasKey(b) == keyfile = builder[b].key /\ b \notin robbed

-----------------------------------------------------------------------------
(***************************************************************************)
(* The except clause of build(): what was created is removed, and the key  *)
(* if there was none before.                                               *)
(***************************************************************************)
\* Mutant: the key goes whoever made it.
KeyAfterAlways(b) == None

KeyAfter(b) == IF builder[b].existed THEN keyfile ELSE None

\* Mutant: what is there is left there.
LeftoverAll(b) == output[b]

Leftover(b) == output[b] \ builder[b].created

\* The builds whose key that takes away; one that is made later is another key,
\* whoever makes it.
Robbed(b) ==
    {c \in Builders : /\ ~builder[b].existed
                      /\ builder[c].key # None /\ builder[c].key = keyfile}

InTry == {"guard", "first", "copy", "check", "second", "pack", "publish", "write"}

Fail(b) ==
    /\ builder[b].at \in InTry
    /\ output' = [output EXCEPT ![b] = Leftover(b)]
    /\ keyfile' = KeyAfter(b)
    /\ lock' = (IF lock = b THEN None ELSE lock)
    /\ robbed' = (robbed \cup Robbed(b)) \ {b}
    /\ Becomes(b, [Builder("failed") EXCEPT !.existed = builder[b].existed])
    /\ UNCHANGED <<contextVars, busy, restorer, target>>

Dies(b) ==
    /\ builder[b].at \notin {"idle", "failed", "done", "dead"}
    /\ Becomes(b, IF output[b] = {} THEN Builder("dead") ELSE [builder[b] EXCEPT !.at = "dead"])
    /\ lock' = (IF lock = b THEN None ELSE lock)
    /\ UNCHANGED <<contextVars, busy, keyfile, output, restorer, target, robbed>>

-----------------------------------------------------------------------------
(***************************************************************************)
(* The snapshot, under state_snapshot_guard().                             *)
(***************************************************************************)
Guard(b) ==
    /\ Is(b, "guard")
    /\ lock = None
    /\ Quiescent(Root)
    /\ lock' = b
    /\ Goes(b, "first")
    /\ UNCHANGED <<contextVars, busy, keyfile, output, restorer, target, robbed>>

\* One file of the first state_fingerprint().
FirstPass(b) ==
    /\ Is(b, "first")
    /\ LET n == builder[b].read + 1
       IN Becomes(b, IF n < Len(Fingerprinted)
                     THEN [builder[b] EXCEPT !.read = n]
                     ELSE [builder[b] EXCEPT !.at = "copy", !.read = 0, !.moment = Root])
    /\ UNCHANGED <<contextVars, busy, lock, keyfile, output, restorer, target, robbed>>

\* One file of stage_persistent().
Copy(b) ==
    /\ Is(b, "copy")
    /\ LET n == builder[b].read + 1
           i == Copied[n]
           staged == [k \in DOMAIN builder[b].staged \cup {i} |->
                         IF k = i THEN Content(i) ELSE builder[b].staged[k]]
       IN Becomes(b, [builder[b] EXCEPT
                        !.at = IF n = Len(Copied) THEN "check" ELSE "copy",
                        !.read = IF n = Len(Copied) THEN 0 ELSE n,
                        !.staged = staged])
    /\ UNCHANGED <<contextVars, busy, lock, keyfile, output, restorer, target, robbed>>

\* validate_staged_state(), and the database once more; what is refused fails.
Check(b) ==
    /\ Is(b, "check")
    /\ ValidStage(builder[b].staged)
    /\ builder[b].staged[<<"database">>] = Content(<<"database">>)
    /\ Goes(b, "second")
    /\ UNCHANGED <<contextVars, busy, lock, keyfile, output, restorer, target, robbed>>

\* Mutant: the files are counted, not compared.
UntouchedAlways(b, i) == i \in Range(Fingerprinted)

Untouched(b, i) == i \notin builder[b].touched

\* One file of the second state_fingerprint(); a difference fails.
SecondPass(b) ==
    /\ Is(b, "second")
    /\ LET n == builder[b].read + 1
       IN /\ Untouched(b, Fingerprinted[n])
          /\ IF n < Len(Fingerprinted)
             THEN Becomes(b, [builder[b] EXCEPT !.read = n]) /\ UNCHANGED lock
             ELSE /\ Becomes(b, [builder[b] EXCEPT !.at = "pack", !.read = 0, !.touched = {}])
                  /\ lock' = None
    /\ UNCHANGED <<contextVars, busy, keyfile, output, restorer, target, robbed>>

-----------------------------------------------------------------------------
(***************************************************************************)
(* Publication.                                                            *)
(***************************************************************************)
\* Everything up to verify-package.sh, which is given the key file.
Pack(b) ==
    /\ Is(b, "pack")
    /\ HasKey(b)
    /\ Goes(b, "publish")
    /\ UNCHANGED <<contextVars, busy, lock, keyfile, output, restorer, target, robbed>>

NextArtifact(b) == Artifacts[Cardinality(builder[b].created) + 1]

Created(b, a) ==
    LET created == builder[b].created \cup {a}
        done == Cardinality(created) = Len(Artifacts)
    IN Becomes(b, [builder[b] EXCEPT !.at = IF done THEN "done" ELSE "publish",
                                     !.created = created])

\* The output appears: a move is all, a file has yet to be written.
Publish(b) ==
    /\ Is(b, "publish")
    /\ LET a == NextArtifact(b)
       IN /\ output' = [output EXCEPT ![b] = @ \cup {a}]
          /\ IF a \in Moved THEN Created(b, a) ELSE Goes(b, "write")
    /\ UNCHANGED <<contextVars, busy, lock, keyfile, restorer, target, robbed>>

Written(b) ==
    /\ Is(b, "write")
    /\ Created(b, NextArtifact(b))
    /\ UNCHANGED <<contextVars, busy, lock, keyfile, output, restorer, target, robbed>>

\* The operator runs it again.
Again(b) ==
    /\ Is(b, "failed")
    /\ Goes(b, "idle")
    /\ UNCHANGED <<contextVars, busy, lock, keyfile, output, restorer, target, robbed>>

Build(b) ==
    \/ Validate(b) \/ EnsureKey(b) \/ WriteKey(b) \/ ReadKey(b) \/ Guard(b)
    \/ FirstPass(b) \/ Copy(b) \/ Check(b) \/ SecondPass(b) \/ Pack(b)
    \/ Publish(b) \/ Written(b) \/ Fail(b) \/ Dies(b) \/ Again(b)

-----------------------------------------------------------------------------
(***************************************************************************)
(* restore(): everything is made ready in a private directory beside the   *)
(* target, which a failure removes, and moved there in one step.           *)
(***************************************************************************)
\* decrypt() authenticates the envelope of a package with the key at hand.
Unpack(r) ==
    /\ restorer[r].at = "idle"
    /\ target = NoTree
    /\ \E b \in Builders :
          /\ "package" \in output[b]
          /\ HasKey(b)
          /\ restorer' = [restorer EXCEPT ![r] =
                            [at |-> "database", tree |-> builder[b].staged, relocated |-> {}]]
    /\ UNCHANGED <<contextVars, busy, lock, keyfile, builder, output, target, robbed>>

Relocated(r, part, next) ==
    restorer' = [restorer EXCEPT ![r].at = next, ![r].relocated = @ \cup {part}]

\* validate_and_relocate_database()
RelocateDatabase(r) ==
    /\ restorer[r].at = "database"
    /\ ~restorer[r].tree[<<"database">>].busy
    /\ Relocated(r, "database", "context jobs")
    /\ UNCHANGED <<contextVars, busy, lock, keyfile, builder, output, target, robbed>>

\* validate_and_relocate_context_state()
RelocateJobs(r) ==
    /\ restorer[r].at = "context jobs"
    /\ ValidStage(restorer[r].tree)
    /\ Relocated(r, "context jobs", "rename")
    /\ UNCHANGED <<contextVars, busy, lock, keyfile, builder, output, target, robbed>>

\* staging.rename(target), which does not replace a directory with something in it.
Rename(r) ==
    /\ restorer[r].at = "rename"
    /\ target' = IF target = NoTree
                 THEN [tree |-> restorer[r].tree, relocated |-> restorer[r].relocated]
                 ELSE target
    /\ restorer' = [restorer EXCEPT ![r] = [at |-> "ended"]]
    /\ UNCHANGED <<contextVars, busy, lock, keyfile, builder, output, robbed>>

\* It refuses, or dies.
RestoreEnds(r) ==
    /\ restorer[r].at \in {"database", "context jobs", "rename"}
    /\ restorer' = [restorer EXCEPT ![r] = [at |-> "ended"]]
    /\ UNCHANGED <<contextVars, busy, lock, keyfile, builder, output, target, robbed>>

Restore(r) ==
    Unpack(r) \/ RelocateDatabase(r) \/ RelocateJobs(r) \/ Rename(r) \/ RestoreEnds(r)

-----------------------------------------------------------------------------
(***************************************************************************)
(* The processes that still use the state root.  Each write takes the file *)
(* out of the fingerprints that hold it.                                   *)
(***************************************************************************)
Held(b) ==
    CASE Is(b, "first")               -> {Fingerprinted[n] : n \in 1..builder[b].read}
      [] Is(b, "copy") \/ Is(b, "check") -> Range(Fingerprinted)
      [] Is(b, "second")              -> {Fingerprinted[n] :
                                            n \in (builder[b].read + 1)..Len(Fingerprinted)}
      [] OTHER                        -> {}

Touch ==
    builder' = [b \in Builders |->
        [builder[b] EXCEPT !.touched = @ \cup {i \in Held(b) : Content(i)' # Content(i)}]]

\* A transaction waits for the lock.
Use ==
    /\ \/ \E j \in Jobs : Submission(j) /\ (BindSnapshot(j) => lock = None)
       \/ \E w \in Workers : Pick(w) \/ WorkStep(w) \/ WorkerDies(w)
       \/ \E s \in Shells : Command(s)
    /\ UNCHANGED busy
    /\ Touch
    /\ UNCHANGED <<lock, keyfile, output, restorer, target, robbed>>

\* A job or a task is submitted, or the last one ends.
Work ==
    /\ lock = None
    /\ busy' = ~busy
    /\ UNCHANGED <<contextVars, lock, keyfile, builder, output, restorer, target, robbed>>

Next ==
    \/ \E b \in Builders : Build(b)
    \/ \E r \in Restorers : Restore(r)
    \/ Use
    \/ Work

Spec == Init /\ [][Next]_vars

-----------------------------------------------------------------------------
(***************************************************************************)
(* Properties.                                                             *)
(***************************************************************************)
Snapped == {b \in Builders : builder[b].at \in {"pack", "publish", "write", "done"}}

\* Although the root is read file by file while others write it, what is packed
\* is the root as it was at one moment, the end of the first fingerprint
\* (state_snapshot_guard, state_fingerprint, stage_persistent).
SnapshotIsOneMoment ==
    \A b \in Snapped : builder[b].staged = builder[b].moment

\* A finished package can be decrypted: its key is there, unless another build
\* that found no key when it began has failed and removed it (build, ensure_key).
KeyOutlivesPackage ==
    \A b \in Builders :
        Is(b, "done") => keyfile = builder[b].key \/ b \in robbed

\* A build that fails leaves at most the file it was writing, and one that is not
\* running and has not died leaves nothing of a package without all of it
\* (the except clause of build).
FailureLeavesOneFile ==
    \A b \in Builders :
        builder[b].at \in {"idle", "failed"} =>
            Cardinality(output[b]) <= 1 /\ output[b] \cap Moved = {}

=============================================================================
