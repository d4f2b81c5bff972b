------------------------------ MODULE StateRoot ------------------------------
(***************************************************************************)
(* Programs of several versions that open one state root: Store._init and  *)
(* Migrator.migrate() over one database, load_or_create_key() over one key *)
(* file, and then what they append: the audit chain (Store.append_audit,   *)
(* harness2/migrate.py) and the event log (EventBus).  A program may die   *)
(* between any two steps, whereupon SQLite rolls its transaction back.     *)
(***************************************************************************)
EXTENDS Naturals, Sequences, FiniteSets, SequencesExt

CONSTANTS
    Procs,       \* processes
    Binary,      \* the migrations each of them knows, in order
    Statements,  \* statements of a migration
    Entries,     \* what is recorded in the audit chain
    Legacy,      \* records of the old installation, file by file
    Events,      \* events that may be published: id, dedup key and content
    Consumers,   \* consumers of events
    MaxAudit     \* bound on the audit chain

None == "none"

IsSequence(s) == s \in Seq(ToSet(s))

\* The migrations of a program are distinct: their versions are contiguous.
ASSUME StateRootConstantsOK ==
    /\ Procs # {} /\ Procs \cap {None, "empty"} = {}
    /\ \A p \in Procs :
          /\ IsSequence(Binary[p]) /\ Binary[p] # <<>>
          /\ \A i, j \in 1..Len(Binary[p]) : Binary[p][i] = Binary[p][j] => i = j
    /\ Statements \in Nat \ {0}
    /\ IsSequence(Legacy)
    /\ MaxAudit \in Nat

VARIABLES
    tables,   \* statements that have taken effect, as <<migration, number>>
    history,  \* kernel_schema_migrations
    writer,   \* who is in BEGIN IMMEDIATE
    keyfile,  \* the key file: none, empty, or who made the key
    audit,    \* the audit chain
    marked,   \* the marks of migrate.py
    skipped,  \* (history) files of the old installation that an import gave up
    log,      \* kernel_events
    cursor,   \* kernel_event_consumers
    proc      \* what each process is doing

vars == <<tables, history, writer, keyfile, audit, marked, skipped, log, cursor, proc>>

database == <<tables, history, writer>>
ledgers  == <<audit, marked, skipped, log, cursor>>

-----------------------------------------------------------------------------
(***************************************************************************)
(* work are the statements of the transaction, key the master key in       *)
(* memory, head the hash an entry will be chained to, entry that entry and *)
(* next the old record that an import has come to, 0 outside of one.       *)
(***************************************************************************)
Down == [at |-> "down", work |-> {}, key |-> None, head |-> <<>>, entry |-> None, next |-> 0]

\* The hash of an entry names its place and its content; that of none is empty.
Hash(chain) == IF chain = <<>> THEN <<>> ELSE Last(chain).hash

Entry(e, head) == [entry |-> e, prev |-> head, hash |-> <<e, head>>]

Init ==
    /\ tables = {}
    /\ history = <<>>
    /\ writer = None
    /\ keyfile = None
    /\ audit = <<>>
    /\ marked = FALSE
    /\ skipped = {}
    /\ log = <<>>
    /\ cursor = [c \in Consumers |-> 0]
    /\ proc = [p \in Procs |-> Down]

Is(p, place) == proc[p].at = place

Becomes(p, state) == proc' = [proc EXCEPT ![p] = state]

Goes(p, place) == Becomes(p, [proc[p] EXCEPT !.at = place])

-----------------------------------------------------------------------------
(***************************************************************************)
(* Migrator.  verify() refuses a history this program does not know:       *)
(* longer than its own, or other under the same version.                   *)
(***************************************************************************)
\* Mutant: a database that is too new is not refused.
KnownSoFar(p) ==
    \A i \in 1..Len(history) : i <= Len(Binary[p]) => history[i] = Binary[p][i]

Known(p) == IsPrefix(history, Binary[p])

Current(p) == Len(history) >= Len(Binary[p])

Migration(p) == Binary[p][Len(history) + 1]

\* The first verify(), outside a transaction.
Verify(p) ==
    /\ Is(p, "down")
    /\ IF ~Known(p) THEN Becomes(p, Down)
       ELSE Goes(p, IF Current(p) THEN "key" ELSE "begin")
    /\ UNCHANGED <<database, keyfile, ledgers>>

\* Mutant: what was verified before the lock is not verified again.
BeginUnverified(p) ==
    /\ Is(p, "begin")
    /\ writer = None
    /\ IF Current(p) THEN Goes(p, "key") /\ UNCHANGED writer
       ELSE writer' = p /\ Becomes(p, [proc[p] EXCEPT !.at = "migrate", !.work = {}])
    /\ UNCHANGED <<tables, history, keyfile, ledgers>>

\* BEGIN IMMEDIATE, and verify() again: another process may have been first.
Begin(p) ==
    /\ Is(p, "begin")
    /\ writer = None
    /\ IF ~Known(p) THEN Becomes(p, Down) /\ UNCHANGED writer
       ELSE IF Current(p) THEN Goes(p, "key") /\ UNCHANGED writer
       ELSE writer' = p /\ Becomes(p, [proc[p] EXCEPT !.at = "migrate", !.work = {}])
    /\ UNCHANGED <<tables, history, keyfile, ledgers>>

Statement(p) ==
    /\ Is(p, "migrate")
    /\ Cardinality(proc[p].work) < Statements
    /\ Becomes(p, [proc[p] EXCEPT !.work = @ \cup {<<Migration(p), Cardinality(@) + 1>>}])
    /\ UNCHANGED <<database, keyfile, ledgers>>

\* The row of the migration, and COMMIT; after its last one a program looks no more.
Commit(p) ==
    /\ Is(p, "migrate")
    /\ Cardinality(proc[p].work) = Statements
    /\ tables' = tables \cup proc[p].work
    /\ history' = Append(history, Migration(p))
    /\ writer' = None
    /\ Becomes(p, [proc[p] EXCEPT
                     !.at = IF Migration(p) = Last(Binary[p]) THEN "key" ELSE "begin",
                     !.work = {}])
    /\ UNCHANGED <<keyfile, ledgers>>

-----------------------------------------------------------------------------
(***************************************************************************)
(* load_or_create_key().                                                   *)
(***************************************************************************)
OpenKey(p) ==
    /\ Is(p, "key")
    /\ CASE keyfile = None    -> Goes(p, "create key")
         [] keyfile = "empty" -> Becomes(p, Down)
         [] OTHER             -> Becomes(p, [proc[p] EXCEPT !.at = "ready", !.key = keyfile])
    /\ UNCHANGED <<database, keyfile, ledgers>>

\* Mutant: a key file that has come in between is taken over.
CreateKeyOver(p) ==
    /\ Is(p, "create key")
    /\ keyfile' = "empty"
    /\ Goes(p, "write key")
    /\ UNCHANGED <<database, ledgers>>

\* O_CREAT | O_EXCL.
CreateKey(p) ==
    /\ Is(p, "create key")
    /\ IF keyfile = None THEN keyfile' = "empty" /\ Goes(p, "write key")
       ELSE UNCHANGED keyfile /\ Becomes(p, Down)
    /\ UNCHANGED <<database, ledgers>>

WriteKey(p) ==
    /\ Is(p, "write key")
    /\ keyfile' = p
    /\ Becomes(p, [proc[p] EXCEPT !.at = "ready", !.key = p])
    /\ UNCHANGED <<database, ledgers>>

-----------------------------------------------------------------------------
(***************************************************************************)
(* append_audit(): the last hash is read and the entry inserted in one     *)
(* BEGIN IMMEDIATE.                                                        *)
(***************************************************************************)
\* Mutant: the hash is read before the transaction.
AuditReadUnlocked(p, e) ==
    /\ Len(audit) < MaxAudit
    /\ Becomes(p, [proc[p] EXCEPT !.at = "append", !.head = Hash(audit), !.entry = e])
    /\ UNCHANGED writer

AuditRead(p, e) ==
    /\ Len(audit) < MaxAudit
    /\ writer = None
    /\ writer' = p
    /\ Becomes(p, [proc[p] EXCEPT !.at = "append", !.head = Hash(audit), !.entry = e])

Record(p) ==
    /\ Is(p, "ready")
    /\ \E e \in Entries : AuditRead(p, e)
    /\ UNCHANGED <<tables, history, keyfile, ledgers>>

AuditInsert(p) ==
    /\ Is(p, "append")
    /\ audit' = Append(audit, Entry(proc[p].entry, proc[p].head))
    /\ writer' = (IF writer = p THEN None ELSE writer)
    /\ Becomes(p, [proc[p] EXCEPT !.at = IF proc[p].next = 0 THEN "ready" ELSE "import",
                                  !.head = <<>>, !.entry = None,
                                  !.next = IF @ = 0 THEN 0 ELSE @ + 1])
    /\ UNCHANGED <<tables, history, keyfile, marked, skipped, log, cursor>>

(***************************************************************************)
(* migrate.py: the old records one by one, and the mark when it has been   *)
(* through all files.                                                      *)
(***************************************************************************)
Import(p) ==
    /\ Is(p, "ready")
    /\ ~marked
    /\ Becomes(p, [proc[p] EXCEPT !.at = "import", !.next = 1])
    /\ UNCHANGED <<database, keyfile, ledgers>>

Finished(p) == proc[p].next = Len(Legacy) + 1

ImportRecord(p) ==
    /\ Is(p, "import")
    /\ ~Finished(p)
    /\ AuditRead(p, Legacy[proc[p].next])
    /\ UNCHANGED <<tables, history, keyfile, ledgers>>

\* The first record after those of a file, from a place in it on.
AfterFile(i, n) ==
    /\ \A k \in i..(n - 1) : Legacy[k].file = Legacy[i].file
    /\ n <= Len(Legacy) => Legacy[n].file # Legacy[i].file

\* except OSError: continue.  A file that cannot be opened, or no longer be read.
SkipFile(p) ==
    /\ Is(p, "import")
    /\ ~Finished(p)
    /\ \E n \in (proc[p].next + 1)..(Len(Legacy) + 1) :
          /\ AfterFile(proc[p].next, n)
          /\ Becomes(p, [proc[p] EXCEPT !.next = n])
    /\ skipped' = skipped \cup {Legacy[proc[p].next].file}
    /\ UNCHANGED <<database, keyfile, audit, marked, log, cursor>>

\* Mutant: the mark is set before the records are in.
MarkEarly(p) ==
    /\ Is(p, "import")
    /\ writer = None
    /\ marked' = TRUE
    /\ Becomes(p, [proc[p] EXCEPT !.at = "ready", !.next = 0])
    /\ UNCHANGED <<database, keyfile, audit, skipped, log, cursor>>

Mark(p) ==
    /\ Is(p, "import")
    /\ Finished(p)
    /\ writer = None
    /\ marked' = TRUE
    /\ Becomes(p, [proc[p] EXCEPT !.at = "ready", !.next = 0])
    /\ UNCHANGED <<database, keyfile, audit, skipped, log, cursor>>

-----------------------------------------------------------------------------
(***************************************************************************)
(* EventBus.  An equal event under the id or the key of one in the log is  *)
(* that event, and any other is a conflict.                                *)
(***************************************************************************)
Clashes(e) == \E i \in 1..Len(log) : log[i].id = e.id \/ log[i].key = e.key

Publish(p) ==
    /\ Is(p, "ready")
    /\ writer = None
    /\ \E e \in Events : ~Clashes(e) /\ log' = Append(log, e)
    /\ UNCHANGED <<database, keyfile, audit, marked, skipped, cursor, proc>>

Later(m, n) == IF m < n THEN n ELSE m

\* Mutant: the last acknowledgement counts.
AcknowledgedLast(c, n) == n

Acknowledged(c, n) == Later(cursor[c], n)

\* ack() of any sequence number up to the last one.
Ack(p) ==
    /\ Is(p, "ready")
    /\ writer = None
    /\ \E c \in Consumers, n \in 0..Len(log) :
          cursor' = [cursor EXCEPT ![c] = Acknowledged(c, n)]
    /\ UNCHANGED <<database, keyfile, audit, marked, skipped, log, proc>>

-----------------------------------------------------------------------------
Dies(p) ==
    /\ ~Is(p, "down")
    /\ writer' = (IF writer = p THEN None ELSE writer)
    /\ Becomes(p, Down)
    /\ UNCHANGED <<tables, history, keyfile, ledgers>>

Next ==
    \E p \in Procs :
        \/ Verify(p) \/ Begin(p) \/ Statement(p) \/ Commit(p)
        \/ OpenKey(p) \/ CreateKey(p) \/ WriteKey(p)
        \/ Record(p) \/ AuditInsert(p) \/ Import(p) \/ ImportRecord(p) \/ SkipFile(p) \/ Mark(p)
        \/ Publish(p) \/ Ack(p) \/ Dies(p)

Spec == Init /\ [][Next]_vars

-----------------------------------------------------------------------------
(***************************************************************************)
(* Properties.                                                             *)
(***************************************************************************)
Whole(h) == {<<h[i], n>> : i \in 1..Len(h), n \in 1..Statements}

Opened == {"key", "create key", "write key", "ready", "append", "import"}

\* Whoever migrates first, wherever one dies and whichever versions meet: the
\* tables are those of the migrations in the history and no others, the history is
\* that of one program, and a program that has opened the state root finds all of
\* its own migrations there (Migrator.migrate, verify).
SchemaIsWhole ==
    /\ tables = Whole(history)
    /\ \E p \in Procs : IsPrefix(history, Binary[p])
    /\ \A p \in Procs : proc[p].at \in Opened => IsPrefix(Binary[p], history)

\* A program opens the state root only where the history is its own, to the last
\* migration, whoever migrated while it waited for the lock: it never goes to work
\* on a schema with a migration that it does not know (SchemaTooNewError,
\* MigrationDriftError). One that has opened it is not asked again.
OpensWhatItKnows ==
    [][\A p \in Procs :
          proc[p].at \notin Opened /\ proc'[p].at \in Opened => history' = Binary[p]]_vars

\* All processes that have a master key have the one in the file, so that each can
\* open what the others sealed (load_or_create_key).
KeysAgree ==
    \A p \in Procs : proc[p].key # None => proc[p].key = keyfile

Verifies(chain) ==
    \A i \in 1..Len(chain) :
        /\ chain[i].prev = Hash(SubSeq(chain, 1, i - 1))
        /\ chain[i].hash = <<chain[i].entry, chain[i].prev>>

\* Everything up to a place has been imported, but for the files that were given up.
ImportedTo(n) ==
    \A i \in 1..(n - 1) :
        \/ Legacy[i].file \in skipped
        \/ \E j \in 1..Len(audit) : audit[j].entry = Legacy[i]

\* However the appends of several processes interleave and wherever they die: the
\* audit chain verifies, no consumer is ahead of the log, and after an import that is
\* marked every old record is in the chain, unless it is in a file that an import
\* could not read to its end (append_audit, verify_audit, ack, migrate).
LedgersVerify ==
    /\ Verifies(audit)
    /\ \A c \in Consumers : cursor[c] <= Len(log)
    /\ marked => ImportedTo(Len(Legacy) + 1)

\* Nothing that was recorded is taken back: the history of the schema, the audit
\* chain and the event log are only appended to, and an acknowledgement that comes
\* late takes no consumer back (Migrator, append_audit, EventBus).
LedgersOnlyGrow ==
    [][/\ IsPrefix(history, history')
       /\ IsPrefix(audit, audit')
       /\ IsPrefix(log, log')
       /\ marked => marked'
       /\ \A c \in Consumers : cursor[c] <= cursor'[c]]_vars

=============================================================================
