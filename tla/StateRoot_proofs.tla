--------------------------- MODULE StateRoot_proofs ---------------------------
(***************************************************************************)
(* Proofs about StateRoot.tla, for any programs and their migrations, any  *)
(* old records, events and consumers, and an audit chain of any length.    *)
(***************************************************************************)
EXTENDS StateRoot, SequenceTheorems, FiniteSetTheorems, TLAPS

-----------------------------------------------------------------------------
(***************************************************************************)
(* The inductive invariant.  A process between BEGIN IMMEDIATE and COMMIT  *)
(* is the writer, and only there may what it read be out of its own hands: *)
(* everything else it carries is compared again or cannot be taken back.   *)
(***************************************************************************)
Places == {"down", "begin", "migrate"} \cup Opened

Migrations == UNION {ToSet(Binary[p]) : p \in Procs}

IsProc(r) ==
    /\ r = [at |-> r.at, work |-> r.work, key |-> r.key, head |-> r.head,
            entry |-> r.entry, next |-> r.next]
    /\ r.at \in Places

\* The writer, and the kinds of what is kept.
Typed ==
    /\ writer \in Procs \cup {None}
    /\ history \in Seq(Migrations)
    /\ IsSequence(audit)
    /\ IsSequence(log)
    /\ marked \in BOOLEAN
    /\ cursor \in [Consumers -> Nat]
    /\ proc = [p \in Procs |-> proc[p]]
    /\ \A p \in Procs : IsProc(proc[p])
    /\ \A p \in Procs : (writer = p) <=> proc[p].at \in {"migrate", "append"}

\* In its transaction a program applies the migration after the history.
Migrating(p, work) ==
    /\ Known(p) /\ ~Current(p)
    /\ \E k \in 0..Statements :
          /\ work = {<<Migration(p), n>> : n \in 1..k}
          /\ IsFiniteSet(work) /\ Cardinality(work) = k

Schema ==
    /\ tables = Whole(history)
    /\ \E p \in Procs : IsPrefix(history, Binary[p])
    /\ \A p \in Procs : proc[p].at = "migrate" => Migrating(p, proc[p].work)
    /\ \A p \in Procs : proc[p].at \in Opened => IsPrefix(Binary[p], history)

\* The key file is written by the one who created it.
Keys ==
    /\ keyfile \in Procs \cup {None, "empty"}
    /\ \A p \in Procs : proc[p].key \in Procs \cup {None}
    /\ KeysAgree
    /\ \A p \in Procs : proc[p].at = "write key" => keyfile = "empty"
    /\ \A p, q \in Procs : proc[p].at = "write key" /\ proc[q].at = "write key" => p = q

\* An import that goes on has recorded what it has passed.
Importing(n) == n \in 1..(Len(Legacy) + 1) /\ ImportedTo(n)

\* What the ledgers ask of a process.
Recording(r) ==
    /\ r.at = "append" =>
         /\ r.head = Hash(audit)
         /\ r.next # 0 =>
              Importing(r.next) /\ r.next <= Len(Legacy) /\ r.entry = Legacy[r.next]
    /\ r.at = "import" => Importing(r.next)
    /\ r.at \notin {"append", "import"} => r.next = 0

Ledgers ==
    /\ LedgersVerify
    /\ \A p \in Procs : Recording(proc[p])

IInv == Typed /\ Schema /\ Keys /\ Ledgers

-----------------------------------------------------------------------------
(***************************************************************************)
(* Sequences.                                                              *)
(***************************************************************************)
\* A sequence is one of its own elements.
LEMMA OwnElements ==
    ASSUME NEW S, NEW s \in Seq(S)
    PROVE  IsSequence(s)
<1>1. Len(s) \in Nat /\ DOMAIN s = 1..Len(s) /\ s = [i \in 1..Len(s) |-> s[i]]
  BY LenProperties
<1>2. \A i \in 1..Len(s) : s[i] \in ToSet(s)
  BY <1>1 DEF ToSet
<1>3. s \in [1..Len(s) -> ToSet(s)]
  BY <1>1, <1>2
<1>4. QED
  BY <1>1, <1>3, SeqDef DEF IsSequence

LEMMA SequenceFacts ==
    ASSUME NEW s, IsSequence(s)
    PROVE  /\ Len(s) \in Nat /\ DOMAIN s = 1..Len(s)
           /\ (Len(s) = 0) <=> (s = <<>>)
           /\ \A i \in 1..Len(s) : s[i] \in ToSet(s)
<1>1. s \in Seq(ToSet(s))
  BY DEF IsSequence
<1>2. Len(s) \in Nat /\ DOMAIN s = 1..Len(s)
  BY <1>1, LenProperties
<1>3. (Len(s) = 0) <=> (s = <<>>)
  BY <1>1, EmptySeq
<1>4. QED
  BY <1>2, <1>3 DEF ToSet

LEMMA AppendFacts ==
    ASSUME NEW s, IsSequence(s), NEW e
    PROVE  /\ IsSequence(Append(s, e)) /\ Append(s, e) # <<>>
           /\ Len(Append(s, e)) = Len(s) + 1
           /\ \A i \in 1..Len(s) : Append(s, e)[i] = s[i]
           /\ Append(s, e)[Len(s) + 1] = e
<1> DEFINE S == ToSet(s) \cup {e}
<1>1. s \in Seq(S)
  <2>1. s \in Seq(ToSet(s)) /\ ToSet(s) \subseteq S
    BY DEF IsSequence
  <2>2. QED
    BY <2>1, SeqMonotonic
<1>2. e \in S
  OBVIOUS
<1> HIDE DEF S
<1>3. Append(s, e) \in Seq(S)
  BY <1>1, <1>2, AppendProperties
<1>4. IsSequence(Append(s, e))
  BY <1>3, OwnElements
<1>5. /\ Append(s, e) # <<>> /\ Len(Append(s, e)) = Len(s) + 1
      /\ \A i \in 1..Len(s) : Append(s, e)[i] = s[i]
      /\ Append(s, e)[Len(s) + 1] = e
  BY <1>1, <1>2, AppendProperties
<1>6. QED
  BY <1>4, <1>5

\* A prefix is shorter and agrees as far as it goes.
LEMMA PrefixFacts ==
    ASSUME NEW s, NEW t, IsSequence(s), IsSequence(t)
    PROVE  IsPrefix(s, t) <=> Len(s) <= Len(t) /\ \A i \in 1..Len(s) : s[i] = t[i]
<1> DEFINE S == ToSet(s) \cup ToSet(t)
           n == Len(s)
           a == SubSeq(s, 1, n)
           b == SubSeq(t, 1, n)
<1>1. n \in Nat /\ Len(t) \in Nat
  BY SequenceFacts
<1>2. s \in Seq(S) /\ t \in Seq(S)
  <2>1. ToSet(s) \subseteq S /\ ToSet(t) \subseteq S
    OBVIOUS
  <2>2. QED
    BY <2>1, SeqMonotonic DEF IsSequence
<1> HIDE DEF S
<1>3. SUFFICES ASSUME n <= Len(t)
               PROVE  (a = b) <=> \A i \in 1..n : s[i] = t[i]
  BY <1>1 DEF IsPrefix
<1>4. /\ \A i \in 1..n : s[i] \in S /\ t[i] \in S
  <2>1. \A i \in 1..n : i \in 1..Len(s) /\ i \in 1..Len(t)
    BY <1>1, <1>3
  <2>2. QED
    BY <1>2, <2>1, ElementOfSeq
<1>5. a \in Seq(S) /\ Len(a) = n /\ \A i \in 1..n : a[i] = s[i]
  BY <1>1, <1>4, SubSeqProperties
<1>6. b \in Seq(S) /\ Len(b) = n /\ \A i \in 1..n : b[i] = t[i]
  BY <1>1, <1>4, SubSeqProperties
<1> HIDE DEF a, b
<1>7. ASSUME \A i \in 1..n : s[i] = t[i] PROVE a = b
  <2>1. \A i \in 1..Len(a) : a[i] = b[i]
    BY <1>5, <1>6, <1>7
  <2>2. QED
    BY <1>5, <1>6, <2>1, SeqEqual
<1>8. QED
  BY <1>5, <1>6, <1>7

\* A sequence is a prefix of itself and of what it is extended to, and a prefix of
\* a prefix is one.
LEMMA PrefixAppend ==
    ASSUME NEW s, IsSequence(s), NEW e
    PROVE  IsPrefix(s, Append(s, e)) /\ IsPrefix(s, s)
<1>1. Len(s) \in Nat
  BY SequenceFacts
<1> DEFINE t == Append(s, e)
<1>2. IsSequence(t) /\ Len(t) = Len(s) + 1 /\ \A i \in 1..Len(s) : t[i] = s[i]
  BY AppendFacts
<1> HIDE DEF t
<1>3. IsPrefix(s, t)
  BY <1>1, <1>2, PrefixFacts
<1>4. IsPrefix(s, s)
  BY <1>1, PrefixFacts
<1>5. QED
  BY <1>3, <1>4 DEF t

LEMMA PrefixTransitive ==
    ASSUME NEW s, NEW t, NEW u, IsSequence(s), IsSequence(t), IsSequence(u),
           IsPrefix(s, t), IsPrefix(t, u)
    PROVE  IsPrefix(s, u)
<1>1. Len(s) \in Nat /\ Len(t) \in Nat /\ Len(u) \in Nat
  BY SequenceFacts
<1>2. /\ Len(s) <= Len(t) /\ \A i \in 1..Len(s) : s[i] = t[i]
      /\ Len(t) <= Len(u) /\ \A i \in 1..Len(t) : t[i] = u[i]
  BY PrefixFacts
<1>3. Len(s) <= Len(u) /\ \A i \in 1..Len(s) : s[i] = u[i]
  BY <1>1, <1>2
<1>4. QED
  BY <1>3, PrefixFacts

\* A prefix that is as long as the whole is the whole.
LEMMA WholePrefix ==
    ASSUME NEW s, NEW t, IsSequence(s), IsSequence(t), IsPrefix(s, t), Len(s) = Len(t)
    PROVE  s = t
<1> DEFINE S == ToSet(s) \cup ToSet(t)
<1>1. s \in Seq(S) /\ t \in Seq(S)
  <2>1. ToSet(s) \subseteq S /\ ToSet(t) \subseteq S
    OBVIOUS
  <2>2. QED
    BY <2>1, SeqMonotonic DEF IsSequence
<1> HIDE DEF S
<1>2. \A i \in 1..Len(s) : s[i] = t[i]
  BY PrefixFacts
<1>3. QED
  BY <1>1, <1>2, SeqEqual

-----------------------------------------------------------------------------
(***************************************************************************)
(* Processes.                                                              *)
(***************************************************************************)
\* What the constants are known to be.
LEMMA BinaryFacts ==
    ASSUME NEW p \in Procs
    PROVE  /\ IsSequence(Binary[p]) /\ Len(Binary[p]) \in Nat \ {0}
           /\ \A i \in 1..Len(Binary[p]) : Binary[p][i] \in Migrations
           /\ p # None /\ p # "empty"
<1>1. IsSequence(Binary[p]) /\ Binary[p] # <<>> /\ p # None /\ p # "empty"
  BY StateRootConstantsOK
<1>2. Len(Binary[p]) \in Nat \ {0} /\ \A i \in 1..Len(Binary[p]) : Binary[p][i] \in ToSet(Binary[p])
  BY <1>1, SequenceFacts
<1>3. QED
  BY <1>1, <1>2 DEF Migrations

\* A record of a process, field by field.
Rec(at, work, key, head, entry, next) ==
    [at |-> at, work |-> work, key |-> key, head |-> head, entry |-> entry, next |-> next]

LEMMA RecFacts ==
    ASSUME NEW a \in Places, NEW w, NEW k, NEW h, NEW e, NEW l
    PROVE  /\ IsProc(Rec(a, w, k, h, e, l))
           /\ Rec(a, w, k, h, e, l).at = a /\ Rec(a, w, k, h, e, l).work = w
           /\ Rec(a, w, k, h, e, l).key = k /\ Rec(a, w, k, h, e, l).head = h
           /\ Rec(a, w, k, h, e, l).entry = e /\ Rec(a, w, k, h, e, l).next = l
BY DEF Rec, IsProc

\* What the steps write into it, one field after the other.
LEMMA SetAt ==
    \A r, at, s :
        IsProc(r) /\ at \in Places /\ s = [r EXCEPT !.at = at]
        => /\ IsProc(s) /\ s.at = at /\ s.work = r.work /\ s.key = r.key
           /\ s.head = r.head /\ s.entry = r.entry /\ s.next = r.next
<1> SUFFICES ASSUME NEW r, NEW at, NEW s, IsProc(r), at \in Places, s = [r EXCEPT !.at = at]
             PROVE  /\ IsProc(s) /\ s.at = at /\ s.work = r.work /\ s.key = r.key
                    /\ s.head = r.head /\ s.entry = r.entry /\ s.next = r.next
  OBVIOUS
<1> DEFINE a == r.at
           w == r.work
           k == r.key
           h == r.head
           e == r.entry
           l == r.next
<1>1. r = Rec(a, w, k, h, e, l) /\ a \in Places
  BY DEF IsProc, Rec
<1> HIDE DEF a, w, k, h, e, l
<1>2. s = Rec(at, w, k, h, e, l)
  BY <1>1 DEF Rec
<1>3. QED
  BY <1>1, <1>2, RecFacts DEF a, w, k, h, e, l

LEMMA SetWork ==
    \A r, work, s :
        IsProc(r) /\ s = [r EXCEPT !.work = work]
        => /\ IsProc(s) /\ s.at = r.at /\ s.work = work /\ s.key = r.key
           /\ s.head = r.head /\ s.entry = r.entry /\ s.next = r.next
<1> SUFFICES ASSUME NEW r, NEW work, NEW s, IsProc(r), s = [r EXCEPT !.work = work]
             PROVE  /\ IsProc(s) /\ s.at = r.at /\ s.work = work /\ s.key = r.key
                    /\ s.head = r.head /\ s.entry = r.entry /\ s.next = r.next
  OBVIOUS
<1> DEFINE a == r.at
           w == r.work
           k == r.key
           h == r.head
           e == r.entry
           l == r.next
<1>1. r = Rec(a, w, k, h, e, l) /\ a \in Places
  BY DEF IsProc, Rec
<1> HIDE DEF a, w, k, h, e, l
<1>2. s = Rec(a, work, k, h, e, l)
  BY <1>1 DEF Rec
<1>3. QED
  BY <1>1, <1>2, RecFacts DEF a, w, k, h, e, l

LEMMA SetKey ==
    \A r, key, s :
        IsProc(r) /\ s = [r EXCEPT !.key = key]
        => /\ IsProc(s) /\ s.at = r.at /\ s.work = r.work /\ s.key = key
           /\ s.head = r.head /\ s.entry = r.entry /\ s.next = r.next
<1> SUFFICES ASSUME NEW r, NEW key, NEW s, IsProc(r), s = [r EXCEPT !.key = key]
             PROVE  /\ IsProc(s) /\ s.at = r.at /\ s.work = r.work /\ s.key = key
                    /\ s.head = r.head /\ s.entry = r.entry /\ s.next = r.next
  OBVIOUS
<1> DEFINE a == r.at
           w == r.work
           k == r.key
           h == r.head
           e == r.entry
           l == r.next
<1>1. r = Rec(a, w, k, h, e, l) /\ a \in Places
  BY DEF IsProc, Rec
<1> HIDE DEF a, w, k, h, e, l
<1>2. s = Rec(a, w, key, h, e, l)
  BY <1>1 DEF Rec
<1>3. QED
  BY <1>1, <1>2, RecFacts DEF a, w, k, h, e, l

LEMMA SetHead ==
    \A r, head, s :
        IsProc(r) /\ s = [r EXCEPT !.head = head]
        => /\ IsProc(s) /\ s.at = r.at /\ s.work = r.work /\ s.key = r.key
           /\ s.head = head /\ s.entry = r.entry /\ s.next = r.next
<1> SUFFICES ASSUME NEW r, NEW head, NEW s, IsProc(r), s = [r EXCEPT !.head = head]
             PROVE  /\ IsProc(s) /\ s.at = r.at /\ s.work = r.work /\ s.key = r.key
                    /\ s.head = head /\ s.entry = r.entry /\ s.next = r.next
  OBVIOUS
<1> DEFINE a == r.at
           w == r.work
           k == r.key
           h == r.head
           e == r.entry
           l == r.next
<1>1. r = Rec(a, w, k, h, e, l) /\ a \in Places
  BY DEF IsProc, Rec
<1> HIDE DEF a, w, k, h, e, l
<1>2. s = Rec(a, w, k, head, e, l)
  BY <1>1 DEF Rec
<1>3. QED
  BY <1>1, <1>2, RecFacts DEF a, w, k, h, e, l

LEMMA SetEntry ==
    \A r, entry, s :
        IsProc(r) /\ s = [r EXCEPT !.entry = entry]
        => /\ IsProc(s) /\ s.at = r.at /\ s.work = r.work /\ s.key = r.key
           /\ s.head = r.head /\ s.entry = entry /\ s.next = r.next
<1> SUFFICES ASSUME NEW r, NEW entry, NEW s, IsProc(r), s = [r EXCEPT !.entry = entry]
             PROVE  /\ IsProc(s) /\ s.at = r.at /\ s.work = r.work /\ s.key = r.key
                    /\ s.head = r.head /\ s.entry = entry /\ s.next = r.next
  OBVIOUS
<1> DEFINE a == r.at
           w == r.work
           k == r.key
           h == r.head
           e == r.entry
           l == r.next
<1>1. r = Rec(a, w, k, h, e, l) /\ a \in Places
  BY DEF IsProc, Rec
<1> HIDE DEF a, w, k, h, e, l
<1>2. s = Rec(a, w, k, h, entry, l)
  BY <1>1 DEF Rec
<1>3. QED
  BY <1>1, <1>2, RecFacts DEF a, w, k, h, e, l

LEMMA SetNext ==
    \A r, next, s :
        IsProc(r) /\ s = [r EXCEPT !.next = next]
        => /\ IsProc(s) /\ s.at = r.at /\ s.work = r.work /\ s.key = r.key
           /\ s.head = r.head /\ s.entry = r.entry /\ s.next = next
<1> SUFFICES ASSUME NEW r, NEW next, NEW s, IsProc(r), s = [r EXCEPT !.next = next]
             PROVE  /\ IsProc(s) /\ s.at = r.at /\ s.work = r.work /\ s.key = r.key
                    /\ s.head = r.head /\ s.entry = r.entry /\ s.next = next
  OBVIOUS
<1> DEFINE a == r.at
           w == r.work
           k == r.key
           h == r.head
           e == r.entry
           l == r.next
<1>1. r = Rec(a, w, k, h, e, l) /\ a \in Places
  BY DEF IsProc, Rec
<1> HIDE DEF a, w, k, h, e, l
<1>2. s = Rec(a, w, k, h, e, next)
  BY <1>1 DEF Rec
<1>3. QED
  BY <1>1, <1>2, RecFacts DEF a, w, k, h, e, l

\* A step of one process.
LEMMA OneProc ==
    ASSUME Typed, NEW p \in Procs, NEW r, IsProc(r), Becomes(p, r)
    PROVE  /\ proc'[p] = r
           /\ \A q \in Procs : q # p => proc'[q] = proc[q]
           /\ proc' = [q \in Procs |-> proc'[q]]
           /\ \A q \in Procs : IsProc(proc'[q])
BY DEF Typed, Becomes

\* The parts of the invariant that a step leaves alone.
LEMMA TypedKept ==
    ASSUME Typed, NEW p \in Procs, NEW r, IsProc(r), Becomes(p, r),
           writer' \in Procs \cup {None}, history' \in Seq(Migrations), IsSequence(audit'),
           IsSequence(log'), marked' \in BOOLEAN, cursor' \in [Consumers -> Nat],
           writer' = p <=> r.at \in {"migrate", "append"},
           writer' = writer \/ (writer \in {p, None} /\ writer' \in {p, None})
    PROVE  Typed'
<1>1. /\ proc'[p] = r
      /\ \A q \in Procs : q # p => proc'[q] = proc[q]
      /\ proc' = [q \in Procs |-> proc'[q]]
      /\ \A q \in Procs : IsProc(proc'[q])
  BY OneProc
<1>2. ASSUME NEW q \in Procs, q # p
      PROVE  (writer' = q) <=> proc'[q].at \in {"migrate", "append"}
  <2>1. (writer = q) <=> proc[q].at \in {"migrate", "append"}
    BY DEF Typed
  <2>2. q # None
    BY BinaryFacts
  <2>3. (writer' = q) <=> (writer = q)
    BY <1>2, <2>2
  <2>4. QED
    BY <1>1, <1>2, <2>1, <2>3
<1>3. QED
  BY <1>1, <1>2 DEF Typed

LEMMA SchemaKept ==
    ASSUME Typed, Schema, NEW p \in Procs, NEW r, IsProc(r), Becomes(p, r),
           UNCHANGED <<tables, history>>,
           r.at = "migrate" => Migrating(p, r.work),
           r.at \in Opened => IsPrefix(Binary[p], history)
    PROVE  Schema'
<1>1. proc'[p] = r /\ \A q \in Procs : q # p => proc'[q] = proc[q]
  BY OneProc
<1>2. ASSUME NEW q \in Procs
      PROVE  /\ proc'[q].at = "migrate" => Migrating(q, proc'[q].work)
             /\ proc'[q].at \in Opened => IsPrefix(Binary[q], history)
  BY <1>1 DEF Schema
<1>3. \A q \in Procs : proc'[q].at = "migrate" => Migrating(q, proc[q].work)'
  BY <1>2 DEF Migrating, Known, Current, Migration
<1>4. QED
  BY <1>2, <1>3 DEF Schema, Whole

LEMMA KeysKept ==
    ASSUME Typed, Keys, NEW p \in Procs, NEW r, IsProc(r), Becomes(p, r),
           UNCHANGED keyfile, r.at # "write key",
           r.key \in Procs \cup {None}, r.key # None => r.key = keyfile
    PROVE  Keys'
<1>1. proc'[p] = r /\ \A q \in Procs : q # p => proc'[q] = proc[q]
  BY OneProc
<1>2. QED
  BY <1>1 DEF Keys, KeysAgree

\* What has been imported stays imported.
LEMMA ImportStays ==
    ASSUME IsSequence(audit), IsSequence(audit'), IsPrefix(audit, audit'),
           skipped \subseteq skipped'
    PROVE  /\ \A n : ImportedTo(n) => ImportedTo(n)'
           /\ \A n : Importing(n) => Importing(n)'
<1>1. Len(audit) \in Nat /\ Len(audit') \in Nat
  BY SequenceFacts
<1>2. \A j \in 1..Len(audit) : j \in 1..Len(audit') /\ audit'[j] = audit[j]
  BY <1>1, PrefixFacts
<1>3. \A n : ImportedTo(n) => ImportedTo(n)'
  BY <1>2 DEF ImportedTo
<1>4. QED
  BY <1>3 DEF Importing

LEMMA RecordingStays ==
    ASSUME Typed, audit' = audit, skipped \subseteq skipped'
    PROVE  \A r : Recording(r) => Recording(r)'
<1>1. IsSequence(audit) /\ IsPrefix(audit, audit)
  BY PrefixAppend DEF Typed
<1>2. \A n : Importing(n) => Importing(n)'
  BY <1>1, ImportStays
<1>3. Hash(audit)' = Hash(audit)
  BY DEF Hash
<1>4. QED
  BY <1>2, <1>3 DEF Recording

\* A process that has moved on, and the others, which have not.
LEMMA LedgersMovedOn ==
    ASSUME Typed, Ledgers, NEW p \in Procs, NEW r, IsProc(r), Becomes(p, r),
           audit' = audit, skipped \subseteq skipped', LedgersVerify', Recording(r)'
    PROVE  Ledgers'
<1>1. proc'[p] = r /\ \A q \in Procs : q # p => proc'[q] = proc[q]
  BY OneProc
<1>2. \A s : Recording(s) => Recording(s)'
  BY RecordingStays
<1>3. ASSUME NEW q \in Procs PROVE Recording(proc[q])'
  <2>1. CASE q = p
    BY <1>1, <2>1 DEF Recording
  <2>2. CASE q # p
    <3>1. PICK s : s = proc[q]
      OBVIOUS
    <3>2. proc'[q] = s /\ Recording(s)'
      BY <1>1, <1>2, <2>2, <3>1 DEF Ledgers
    <3>3. QED
      BY <3>2 DEF Recording
  <2>3. QED
    BY <2>1, <2>2
<1>4. QED
  BY <1>3 DEF Ledgers

LEMMA LedgersMoved ==
    ASSUME Typed, Ledgers, NEW p \in Procs, NEW r, IsProc(r), Becomes(p, r),
           audit' = audit, skipped \subseteq skipped', LedgersVerify', Recording(r)
    PROVE  Ledgers'
<1>1. Recording(r)'
  BY RecordingStays
<1>2. QED
  BY <1>1, LedgersMovedOn

LEMMA LedgersKept ==
    ASSUME Typed, Ledgers, NEW p \in Procs, NEW r, IsProc(r), Becomes(p, r),
           UNCHANGED ledgers, Recording(r)
    PROVE  Ledgers'
<1>1. audit' = audit /\ skipped' = skipped /\ LedgersVerify' = LedgersVerify
  BY DEF ledgers, Hash, LedgersVerify, Verifies, ImportedTo
<1>2. QED
  BY <1>1, LedgersMoved DEF Ledgers

-----------------------------------------------------------------------------
(***************************************************************************)
(* The steps.                                                              *)
(***************************************************************************)
\* A process that is down carries nothing; its transaction is rolled back.
LEMMA DownStep ==
    ASSUME IInv, NEW p \in Procs, Becomes(p, Down),
           writer' = (IF writer = p THEN None ELSE writer),
           UNCHANGED <<tables, history, keyfile, ledgers>>
    PROVE  IInv'
<1>1. IsProc(Down) /\ Down.at = "down" /\ Down.key = None /\ Down.next = 0
  BY DEF Down, IsProc, Places
<1>2. p # None
  BY BinaryFacts
<1>3. Typed'
  BY <1>1, <1>2, TypedKept DEF IInv, Typed, ledgers
<1>4. Schema'
  BY <1>1, SchemaKept DEF IInv, Opened
<1>5. Keys'
  BY <1>1, KeysKept DEF IInv
<1>6. Ledgers'
  BY <1>1, LedgersKept DEF IInv, Recording
<1>7. QED
  BY <1>3, <1>4, <1>5, <1>6 DEF IInv

\* A process that goes from one place to another, none of them in a transaction
\* or an import.
Quiet == {"down", "begin", "key", "create key", "ready"}

LEMMA GoesStep ==
    ASSUME IInv, NEW p \in Procs, NEW to \in Quiet,
           Goes(p, to), proc[p].at \in Quiet,
           to \in Opened => IsPrefix(Binary[p], history),
           UNCHANGED <<database, keyfile, ledgers>>
    PROVE  IInv'
<1> DEFINE o == proc[p]
           r == [o EXCEPT !.at = to]
<1>1. IsProc(o)
  BY DEF IInv, Typed
<1>2. Becomes(p, r)
  BY DEF Goes
<1>3. to \in Places
  BY DEF Quiet, Places, Opened
<1>4. IsProc(r) /\ r.at = to /\ r.key = o.key /\ r.next = o.next
  <2> DEFINE s == r
  <2>1. s = [o EXCEPT !.at = to]
    OBVIOUS
  <2> HIDE DEF o, r, s
  <2>2. IsProc(s) /\ s.at = to /\ s.key = o.key /\ s.next = o.next
    BY ONLY <1>1, <1>3, <2>1, SetAt
  <2>3. QED
    BY <2>2 DEF s
<1> HIDE DEF r
<1>5. /\ r.at \notin {"migrate", "append", "import", "write key"}
      /\ proc[p].at \notin {"migrate", "append", "import", "write key"}
  BY <1>4 DEF Quiet
<1>6. Becomes(p, r) /\ writer # p /\ writer' = writer /\ tables' = tables /\ history' = history
  BY <1>2, <1>5 DEF IInv, Typed, database
<1>7. Typed'
  BY <1>4, <1>5, <1>6, TypedKept DEF IInv, Typed, ledgers
<1>8. Schema'
  BY <1>4, <1>5, <1>6, SchemaKept DEF IInv
<1>9. Keys'
  BY <1>4, <1>5, <1>6, KeysKept DEF IInv, Keys, KeysAgree
<1>10. Ledgers'
  BY <1>4, <1>5, <1>6, LedgersKept DEF IInv, Ledgers, Recording
<1>11. QED
  BY <1>7, <1>8, <1>9, <1>10 DEF IInv

\* A program that knows the whole history and has no more to add has it.
LEMMA CurrentPrefix ==
    ASSUME Typed, NEW p \in Procs, Known(p), Current(p)
    PROVE  IsPrefix(Binary[p], history) /\ history = Binary[p]
<1>1. IsSequence(Binary[p]) /\ IsSequence(history)
  BY BinaryFacts, OwnElements DEF Typed
<1>2. Len(history) = Len(Binary[p])
  BY <1>1, SequenceFacts, PrefixFacts DEF Known, Current
<1>3. history = Binary[p]
  BY <1>1, <1>2, WholePrefix DEF Known
<1>4. QED
  BY <1>1, <1>3, PrefixAppend

LEMMA VerifyStep ==
    ASSUME IInv, NEW p \in Procs, Verify(p)
    PROVE  IInv'
<1>1. proc[p].at = "down" /\ UNCHANGED <<database, keyfile, ledgers>>
  BY DEF Verify, Is
<1>2. CASE ~Known(p)
  <2>1. Becomes(p, Down)
    BY <1>2 DEF Verify
  <2>2. writer # p
    BY <1>1 DEF IInv, Typed
  <2>3. QED
    BY <1>1, <2>1, <2>2, DownStep DEF database
<1>3. CASE Known(p) /\ Current(p)
  <2>1. Goes(p, "key")
    BY <1>3 DEF Verify
  <2>2. IsPrefix(Binary[p], history)
    BY <1>3, CurrentPrefix DEF IInv
  <2>3. QED
    BY <1>1, <2>1, <2>2, GoesStep DEF Quiet, Opened
<1>4. CASE Known(p) /\ ~Current(p)
  <2>1. Goes(p, "begin")
    BY <1>4 DEF Verify
  <2>2. QED
    BY <1>1, <2>1, GoesStep DEF Quiet, Opened
<1>5. QED
  BY <1>2, <1>3, <1>4

LEMMA BeginStep ==
    ASSUME IInv, NEW p \in Procs, Begin(p)
    PROVE  IInv'
<1>1. /\ proc[p].at = "begin" /\ writer = None /\ p # None
      /\ UNCHANGED <<tables, history, keyfile, ledgers>>
  BY BinaryFacts DEF Begin, Is
<1>2. CASE ~Known(p)
  <2>1. Becomes(p, Down) /\ writer' = writer
    BY <1>2 DEF Begin
  <2>2. QED
    BY <1>1, <2>1, DownStep
<1>3. CASE Known(p) /\ Current(p)
  <2>1. Goes(p, "key") /\ writer' = writer
    BY <1>3 DEF Begin
  <2>2. IsPrefix(Binary[p], history)
    BY <1>3, CurrentPrefix DEF IInv
  <2>3. QED
    BY <1>1, <2>1, <2>2, GoesStep DEF Quiet, Opened, database
<1>4. CASE Known(p) /\ ~Current(p)
  <2> DEFINE o == proc[p]
             w == {}
             r == [proc[p] EXCEPT !.at = "migrate", !.work = w]
  <2>1. writer' = p /\ Becomes(p, r)
    BY <1>4 DEF Begin
  <2>2. IsProc(o)
    BY DEF IInv, Typed
  <2>3. "migrate" \in Places
    BY DEF Places
  <2>4. IsProc(r) /\ r.at = "migrate" /\ r.work = w /\ r.key = o.key /\ r.next = o.next
    <3> DEFINE to == "migrate"
               r1 == [o EXCEPT !.at = to]
    <3>1. r1 = [o EXCEPT !.at = to] /\ to \in Places
      BY <2>3
    <3>2. r = [r1 EXCEPT !.work = w]
      OBVIOUS
    <3> HIDE DEF w, o, r, to, r1
    <3>3. IsProc(r1) /\ r1.at = to /\ r1.key = o.key /\ r1.next = o.next
      BY <2>2, <3>1, SetAt
    <3>4. IsProc(r) /\ r.at = to /\ r.work = w /\ r.key = o.key /\ r.next = o.next
      BY <3>2, <3>3, SetWork
    <3>5. QED
      BY <3>4 DEF to
  <2> HIDE DEF r
  <2>5. Migrating(p, {})
    <3>1. IsFiniteSet({}) /\ Cardinality({}) = 0
      BY FS_EmptySet
    <3>2. {} = {<<Migration(p), n>> : n \in 1..0} /\ 0 \in 0..Statements
      BY StateRootConstantsOK
    <3>3. QED
      BY <1>4, <3>1, <3>2 DEF Migrating
  <2>6. Typed'
    BY <1>1, <2>1, <2>4, TypedKept DEF IInv, Typed, ledgers
  <2>7. Schema'
    BY <1>1, <2>1, <2>4, <2>5, SchemaKept DEF IInv, Opened
  <2>8. Keys'
    BY <1>1, <2>1, <2>4, KeysKept DEF IInv, Keys, KeysAgree
  <2>9. Ledgers'
    BY <1>1, <2>1, <2>4, LedgersKept DEF IInv, Ledgers, Recording
  <2>10. QED
    BY <2>6, <2>7, <2>8, <2>9 DEF IInv
<1>5. QED
  BY <1>2, <1>3, <1>4

\* A statement adds its number to those of the transaction.
LEMMA StatementStep ==
    ASSUME IInv, NEW p \in Procs, Statement(p)
    PROVE  IInv'
<1> DEFINE o == proc[p]
           w == o.work \cup {<<Migration(p), Cardinality(o.work) + 1>>}
           r == [proc[p] EXCEPT !.work = w]
<1>1. /\ o.at = "migrate" /\ Cardinality(o.work) < Statements /\ Becomes(p, r)
      /\ UNCHANGED <<database, keyfile, ledgers>>
  BY DEF Statement, Is
<1>2. IsProc(o)
  BY DEF IInv, Typed
<1>3. IsProc(r) /\ r.at = o.at /\ r.work = w /\ r.key = o.key /\ r.next = o.next
  <2>1. r = [o EXCEPT !.work = w]
    OBVIOUS
  <2> HIDE DEF w, o, r
  <2>2. QED
    BY ONLY <1>2, <2>1, SetWork
<1>4. r.at = "migrate"
  BY <1>1, <1>3
<1>5. Migrating(p, o.work)
  BY <1>1 DEF IInv, Schema
<1>6. PICK k \in 0..Statements :
        /\ o.work = {<<Migration(p), n>> : n \in 1..k}
        /\ IsFiniteSet(o.work) /\ Cardinality(o.work) = k
  BY <1>5 DEF Migrating
<1> HIDE DEF o
<1>7. k + 1 \in 0..Statements /\ k \in Nat
  BY <1>1, <1>6, StateRootConstantsOK
<1>8. w = {<<Migration(p), n>> : n \in 1..(k + 1)}
  <2>1. w = o.work \cup {<<Migration(p), k + 1>>}
    BY <1>6
  <2>2. 1..(k + 1) = (1..k) \cup {k + 1}
    BY <1>7
  <2> HIDE DEF w
  <2>3. QED
    BY <1>6, <2>1, <2>2
<1>9. <<Migration(p), k + 1>> \notin o.work
  BY <1>6, <1>7
<1>10. IsFiniteSet(w) /\ Cardinality(w) = k + 1
  BY <1>6, <1>9, FS_AddElement
<1> HIDE DEF w
<1>11. Migrating(p, w)
  BY <1>5, <1>7, <1>8, <1>10 DEF Migrating
<1> HIDE DEF r
<1>12. tables' = tables /\ history' = history /\ writer' = writer
  BY <1>1 DEF database
<1>13. Typed'
  BY <1>1, <1>3, <1>4, <1>12, TypedKept DEF IInv, Typed, ledgers, o
<1>14. Schema'
  BY <1>1, <1>3, <1>4, <1>11, <1>12, SchemaKept DEF IInv, Opened
<1>15. Keys'
  BY <1>1, <1>3, <1>4, KeysKept DEF IInv, Keys, KeysAgree, o
<1>16. Ledgers'
  BY <1>1, <1>3, <1>4, LedgersKept DEF IInv, Ledgers, Recording, o
<1>17. QED
  BY <1>13, <1>14, <1>15, <1>16 DEF IInv

\* What a commit adds to the history: the program still knows all of it, and it
\* has come to its end with its last migration only.
LEMMA CommitFacts ==
    ASSUME Typed, NEW p \in Procs, Known(p), ~Current(p),
           history' = Append(history, Migration(p))
    PROVE  /\ history' \in Seq(Migrations) /\ IsPrefix(history, history')
           /\ IsPrefix(history', Binary[p])
           /\ Migration(p) = Last(Binary[p]) =>
                IsPrefix(Binary[p], history') /\ history' = Binary[p]
           /\ Whole(history)' = Whole(history) \cup {<<Migration(p), n>> : n \in 1..Statements}
<1> DEFINE b == Binary[p]
           m == Migration(p)
           h == history
           n == Len(h)
           t == Append(h, m)
<1>1. IsSequence(b) /\ Len(b) \in Nat \ {0} /\ \A i \in 1..Len(b) : b[i] \in Migrations
  BY BinaryFacts
<1>2. IsSequence(h) /\ h \in Seq(Migrations) /\ n \in Nat
  BY OwnElements, SequenceFacts DEF Typed
<1>3. n < Len(b) /\ m = b[n + 1] /\ \A i \in 1..n : h[i] = b[i]
  <2>1. n <= Len(b) /\ \A i \in 1..n : h[i] = b[i]
    BY <1>1, <1>2, PrefixFacts DEF Known
  <2>2. ~(n >= Len(b))
    BY DEF Current
  <2>3. QED
    BY <1>1, <1>2, <2>1, <2>2 DEF Migration
<1>4. \A i, j \in 1..Len(b) : b[i] = b[j] => i = j
  BY StateRootConstantsOK DEF b
<1>5. Last(b) = b[Len(b)]
  BY DEF Last
<1>6. t = history'
  OBVIOUS
<1> HIDE DEF b, m, h
<1>7. m \in Migrations
  BY <1>1, <1>2, <1>3
<1>8. t \in Seq(Migrations) /\ IsPrefix(h, t)
  BY <1>2, <1>7, AppendProperties, PrefixAppend
<1>9. IsSequence(t) /\ Len(t) = n + 1 /\ (\A i \in 1..n : t[i] = h[i]) /\ t[n + 1] = m
  BY <1>2, AppendFacts
<1> HIDE DEF t
<1>10. \A i \in 1..(n + 1) : t[i] = b[i]
  BY <1>2, <1>3, <1>9
<1>11. IsPrefix(t, b)
  BY <1>1, <1>2, <1>3, <1>9, <1>10, PrefixFacts
<1>12. ASSUME m = Last(b) PROVE IsPrefix(b, t) /\ t = b
  <2>1. n + 1 = Len(b)
    <3>1. n + 1 \in 1..Len(b) /\ Len(b) \in 1..Len(b)
      BY <1>1, <1>2, <1>3
    <3>2. b[n + 1] = b[Len(b)]
      BY <1>3, <1>5, <1>12
    <3>3. QED
      BY <3>1, <3>2, <1>4 DEF b
  <2>2. \A i \in 1..Len(b) : b[i] = t[i]
    BY <1>10, <2>1
  <2>3. IsPrefix(b, t)
    BY <1>1, <1>2, <1>9, <2>1, <2>2, PrefixFacts
  <2>4. t = b
    BY <1>1, <1>9, <2>1, <2>3, WholePrefix
  <2>5. QED
    BY <2>3, <2>4
<1>13. Whole(t) = Whole(h) \cup {<<m, k>> : k \in 1..Statements}
  <2>1. \A i \in 1..(n + 1) : i \in 1..n \/ i = n + 1
    BY <1>2
  <2>2. n + 1 \in 1..(n + 1) /\ \A i \in 1..n : i \in 1..(n + 1)
    BY <1>2
  <2>3. QED
    BY <1>9, <2>1, <2>2 DEF Whole
<1>14. Whole(history)' = Whole(t) /\ Whole(history) = Whole(h)
  BY <1>6 DEF Whole, h
<1>15. QED
  BY <1>6, <1>8, <1>11, <1>12, <1>13, <1>14 DEF b, m, h

LEMMA CommitStep ==
    ASSUME IInv, NEW p \in Procs, Commit(p)
    PROVE  IInv'
<1> DEFINE o == proc[p]
           w == {}
           to == IF Migration(p) = Last(Binary[p]) THEN "key" ELSE "begin"
           r == [proc[p] EXCEPT !.at = to, !.work = w]
<1>1. /\ o.at = "migrate" /\ Cardinality(o.work) = Statements /\ Becomes(p, r)
      /\ tables' = tables \cup o.work
      /\ history' = Append(history, Migration(p))
      /\ writer' = None /\ UNCHANGED <<keyfile, ledgers>>
  BY DEF Commit, Is
<1>2. IsProc(o)
  BY DEF IInv, Typed
<1>3. IsProc(r) /\ r.at = to /\ r.key = o.key /\ r.next = o.next
  <2> DEFINE r1 == [o EXCEPT !.at = to]
  <2>1. to \in Places
    BY DEF Places, Opened
  <2> HIDE DEF to
  <2>2. r1 = [o EXCEPT !.at = to]
    OBVIOUS
  <2>3. r = [r1 EXCEPT !.work = w]
    OBVIOUS
  <2> HIDE DEF w, o, r, r1
  <2>4. IsProc(r1) /\ r1.at = to /\ r1.key = o.key /\ r1.next = o.next
    BY ONLY <1>2, <2>1, <2>2, SetAt
  <2>5. QED
    BY ONLY <2>3, <2>4, SetWork
<1>4. to \in {"key", "begin"} /\ writer = p /\ p # None
  BY <1>1, BinaryFacts DEF IInv, Typed
<1>5. Migrating(p, o.work)
  BY <1>1 DEF IInv, Schema
<1>6. o.work = {<<Migration(p), n>> : n \in 1..Statements}
  BY <1>1, <1>5 DEF Migrating
<1>7. /\ history' \in Seq(Migrations) /\ IsPrefix(history, history')
      /\ IsPrefix(history', Binary[p])
      /\ to = "key" => IsPrefix(Binary[p], history')
      /\ Whole(history)' = Whole(history) \cup o.work
  BY <1>1, <1>5, <1>6, CommitFacts DEF IInv, Migrating
<1> HIDE DEF r, to
<1>8. /\ proc'[p] = r /\ \A q \in Procs : q # p => proc'[q] = proc[q]
  BY <1>1, <1>3, OneProc DEF IInv
<1>9. Typed'
  BY <1>1, <1>3, <1>4, <1>7, TypedKept DEF IInv, Typed, ledgers
<1>10. Schema'
  <2>1. tables' = Whole(history')
    BY <1>1, <1>7 DEF IInv, Schema, Whole
  <2>2. \E q \in Procs : IsPrefix(history', Binary[q])
    BY <1>7
  <2>3. ASSUME NEW q \in Procs PROVE proc'[q].at # "migrate"
    BY <1>3, <1>4, <1>8 DEF IInv, Typed
  <2>4. ASSUME NEW q \in Procs, proc'[q].at \in Opened PROVE IsPrefix(Binary[q], history')
    <3>1. CASE q = p
      BY <1>3, <1>4, <1>7, <1>8, <2>4, <3>1 DEF Opened
    <3>2. CASE q # p
      <4>1. IsPrefix(Binary[q], history)
        BY <1>8, <2>4, <3>2 DEF IInv, Schema
      <4>2. IsSequence(history) /\ IsSequence(history') /\ IsSequence(Binary[q])
        BY <1>7, BinaryFacts, OwnElements DEF IInv, Typed
      <4>3. QED
        BY <1>7, <4>1, <4>2, PrefixTransitive
    <3>3. QED
      BY <3>1, <3>2
  <2>5. QED
    BY <2>1, <2>2, <2>3, <2>4 DEF Schema
<1>11. Keys'
  BY <1>1, <1>3, <1>4, KeysKept DEF IInv, Keys, KeysAgree
<1>12. Ledgers'
  BY <1>1, <1>3, <1>4, LedgersKept DEF IInv, Ledgers, Recording
<1>13. QED
  BY <1>9, <1>10, <1>11, <1>12 DEF IInv

-----------------------------------------------------------------------------
(***************************************************************************)
(* The key.                                                                *)
(***************************************************************************)
\* A process that has the key of the file.
LEMMA KeyRecord ==
    ASSUME IInv, NEW p \in Procs, NEW k
    PROVE  LET r == [proc[p] EXCEPT !.at = "ready", !.key = k] IN
           IsProc(r) /\ r.at = "ready" /\ r.key = k /\ r.next = proc[p].next
<1> DEFINE o == proc[p]
           to == "ready"
           r1 == [o EXCEPT !.at = to]
           r == [proc[p] EXCEPT !.at = to, !.key = k]
<1>1. IsProc(o) /\ to \in Places
  BY DEF IInv, Typed, Places, Opened
<1>2. r1 = [o EXCEPT !.at = to]
  OBVIOUS
<1>3. r = [r1 EXCEPT !.key = k]
  OBVIOUS
<1> HIDE DEF o, to, r1, r
<1>4. IsProc(r1) /\ r1.at = to /\ r1.next = o.next
  BY ONLY <1>1, <1>2, SetAt
<1>5. IsProc(r) /\ r.at = to /\ r.key = k /\ r.next = o.next
  BY ONLY <1>3, <1>4, SetKey
<1>6. QED
  BY <1>5 DEF o, to, r

LEMMA OpenKeyStep ==
    ASSUME IInv, NEW p \in Procs, OpenKey(p)
    PROVE  IInv'
<1>1. proc[p].at = "key" /\ UNCHANGED <<database, keyfile, ledgers>>
  BY DEF OpenKey, Is
<1>2. IsPrefix(Binary[p], history)
  BY <1>1 DEF IInv, Schema, Opened
<1>3. CASE keyfile = None
  <2>1. Goes(p, "create key")
    BY <1>3 DEF OpenKey, None
  <2>2. QED
    BY <1>1, <1>2, <2>1, GoesStep DEF Quiet
<1>4. CASE keyfile = "empty"
  <2>1. Becomes(p, Down) /\ writer # p
    BY <1>1, <1>4 DEF OpenKey, None, IInv, Typed
  <2>2. QED
    BY <1>1, <2>1, DownStep DEF database
<1>5. CASE keyfile # None /\ keyfile # "empty"
  <2> DEFINE r == [proc[p] EXCEPT !.at = "ready", !.key = keyfile]
  <2>1. Becomes(p, r)
    BY <1>5 DEF OpenKey
  <2>2. IsProc(r) /\ r.at = "ready" /\ r.key = keyfile /\ r.next = proc[p].next
    BY KeyRecord
  <2> HIDE DEF r
  <2>3. keyfile \in Procs
    BY <1>5 DEF IInv, Keys
  <2>4. writer # p /\ writer' = writer /\ tables' = tables /\ history' = history
    BY <1>1 DEF IInv, Typed, database
  <2>5. Typed'
    BY <1>1, <2>1, <2>2, <2>4, TypedKept DEF IInv, Typed, ledgers
  <2>6. Schema'
    BY <1>1, <1>2, <2>1, <2>2, <2>4, SchemaKept DEF IInv
  <2>7. Keys'
    BY <1>1, <2>1, <2>2, <2>3, KeysKept DEF IInv
  <2>8. Ledgers'
    BY <1>1, <2>1, <2>2, LedgersKept DEF IInv, Ledgers, Recording
  <2>9. QED
    BY <2>5, <2>6, <2>7, <2>8 DEF IInv
<1>6. QED
  BY <1>3, <1>4, <1>5

\* As long as there is no key file, nobody has a key or writes one.
LEMMA CreateKeyStep ==
    ASSUME IInv, NEW p \in Procs, CreateKey(p)
    PROVE  IInv'
<1>1. proc[p].at = "create key" /\ UNCHANGED <<database, ledgers>>
  BY DEF CreateKey, Is
<1>2. writer # p /\ writer' = writer /\ tables' = tables /\ history' = history
  BY <1>1 DEF IInv, Typed, database
<1>3. CASE keyfile # None
  <2>1. Becomes(p, Down) /\ keyfile' = keyfile
    BY <1>3 DEF CreateKey
  <2>2. QED
    BY <1>1, <1>2, <2>1, DownStep
<1>4. CASE keyfile = None
  <2> DEFINE o == proc[p]
             to == "write key"
             r == [o EXCEPT !.at = to]
  <2>1. keyfile' = "empty" /\ Becomes(p, r)
    BY <1>4 DEF CreateKey, Goes
  <2>2. IsProc(r) /\ r.at = "write key" /\ r.key = o.key /\ r.next = o.next
    <3>1. IsProc(o) /\ to \in Places
      BY DEF IInv, Typed, Places, Opened
    <3>2. r = [o EXCEPT !.at = to]
      OBVIOUS
    <3> HIDE DEF o, to, r
    <3>3. IsProc(r) /\ r.at = to /\ r.key = o.key /\ r.next = o.next
      BY ONLY <3>1, <3>2, SetAt
    <3>4. QED
      BY <3>3 DEF to
  <2> HIDE DEF r
  <2>3. Typed'
    BY <1>1, <1>2, <2>1, <2>2, TypedKept DEF IInv, Typed, ledgers
  <2>4. Schema'
    BY <1>1, <1>2, <2>1, <2>2, SchemaKept DEF IInv, Schema, Opened
  <2>5. Keys'
    <3>1. proc'[p] = r /\ \A q \in Procs : q # p => proc'[q] = proc[q]
      BY <2>1, <2>2, OneProc DEF IInv
    <3>2. \A q \in Procs : proc[q].key = None
      BY <1>4 DEF IInv, Keys, KeysAgree
    <3>3. \A q \in Procs : proc[q].at # "write key"
      BY <1>4 DEF IInv, Keys, None
    <3>4. \A q \in Procs : proc'[q].key = None
      BY <2>2, <3>1, <3>2
    <3>5. \A q \in Procs : proc'[q].at = "write key" => q = p
      BY <3>1, <3>3
    <3>6. QED
      BY <2>1, <3>4, <3>5 DEF Keys, KeysAgree
  <2>6. Ledgers'
    BY <1>1, <2>1, <2>2, LedgersKept DEF IInv, Ledgers, Recording
  <2>7. QED
    BY <2>3, <2>4, <2>5, <2>6 DEF IInv
<1>5. QED
  BY <1>3, <1>4

\* The empty file has one writer, and nobody had a key yet.
LEMMA WriteKeyStep ==
    ASSUME IInv, NEW p \in Procs, WriteKey(p)
    PROVE  IInv'
<1> DEFINE r == [proc[p] EXCEPT !.at = "ready", !.key = p]
<1>1. /\ proc[p].at = "write key" /\ keyfile' = p /\ UNCHANGED <<database, ledgers>>
      /\ Becomes(p, r)
  BY DEF WriteKey, Is
<1>2. IsProc(r) /\ r.at = "ready" /\ r.key = p /\ r.next = proc[p].next
  BY KeyRecord
<1> HIDE DEF r
<1>3. writer # p /\ writer' = writer /\ tables' = tables /\ history' = history
  BY <1>1 DEF IInv, Typed, database
<1>4. Typed'
  BY <1>1, <1>2, <1>3, TypedKept DEF IInv, Typed, ledgers
<1>5. Schema'
  BY <1>1, <1>2, <1>3, SchemaKept DEF IInv, Schema, Opened
<1>6. Keys'
  <2>1. proc'[p] = r /\ \A q \in Procs : q # p => proc'[q] = proc[q]
    BY <1>1, <1>2, OneProc DEF IInv
  <2>2. keyfile = "empty"
    BY <1>1 DEF IInv, Keys
  <2>3. \A q \in Procs : proc[q].key = None
    BY <2>2, BinaryFacts DEF IInv, Keys, KeysAgree
  <2>4. \A q \in Procs : proc[q].at = "write key" => q = p
    BY <1>1 DEF IInv, Keys
  <2>5. \A q \in Procs : proc'[q].key \in {p, None}
    BY <1>2, <2>1, <2>3
  <2>6. \A q \in Procs : proc'[q].at # "write key"
    BY <1>2, <2>1, <2>4
  <2>7. QED
    BY <1>1, <2>5, <2>6 DEF Keys, KeysAgree
<1>7. Ledgers'
  BY <1>1, <1>2, LedgersKept DEF IInv, Ledgers, Recording
<1>8. QED
  BY <1>4, <1>5, <1>6, <1>7 DEF IInv

-----------------------------------------------------------------------------
(***************************************************************************)
(* The audit chain and the import.                                         *)
(***************************************************************************)
\* An entry that is chained to the last one verifies.
LEMMA ChainedVerifies ==
    ASSUME NEW a, IsSequence(a), Verifies(a), NEW e
    PROVE  Verifies(Append(a, Entry(e, Hash(a))))
<1> DEFINE x == Entry(e, Hash(a))
           t == Append(a, x)
           n == Len(a)
           S == ToSet(a) \cup {x}
<1>1. n \in Nat /\ a \in Seq(S) /\ x \in S
  <2>1. ToSet(a) \subseteq S
    OBVIOUS
  <2>2. QED
    BY <2>1, SequenceFacts, SeqMonotonic DEF IsSequence
<1>2. Len(t) = n + 1 /\ (\A i \in 1..n : t[i] = a[i]) /\ t[n + 1] = x
  BY AppendFacts
<1>3. x.prev = Hash(a) /\ x.hash = <<x.entry, x.prev>>
  BY DEF Entry
<1> HIDE DEF S, x, t
<1>4. ASSUME NEW i \in 1..(n + 1)
      PROVE  SubSeq(t, 1, i - 1) = SubSeq(a, 1, i - 1)
  <2> DEFINE u == SubSeq(t, 1, i - 1)
             v == SubSeq(a, 1, i - 1)
  <2>1. i - 1 \in Nat /\ \A j \in 1..(i - 1) : j \in 1..n /\ t[j] = a[j] /\ a[j] \in S
    <3>1. i - 1 \in Nat /\ \A j \in 1..(i - 1) : j \in 1..n
      BY <1>1
    <3>2. QED
      BY <1>1, <1>2, <3>1, ElementOfSeq
  <2>2. v \in Seq(S) /\ Len(v) = i - 1 /\ \A j \in 1..(i - 1) : v[j] = a[j]
    BY <2>1, SubSeqProperties
  <2>3. u \in Seq(S) /\ Len(u) = i - 1 /\ \A j \in 1..(i - 1) : u[j] = t[j]
    BY <2>1, SubSeqProperties
  <2> HIDE DEF u, v
  <2>4. \A j \in 1..Len(u) : u[j] = v[j]
    BY <2>1, <2>2, <2>3
  <2>5. u = v
    BY <2>2, <2>3, <2>4, SeqEqual
  <2>6. QED
    BY <2>5 DEF u, v
<1>5. SubSeq(a, 1, n) = a
  <2> DEFINE v == SubSeq(a, 1, n)
  <2>1. \A j \in 1..n : a[j] \in S
    BY <1>1, ElementOfSeq
  <2>2. v \in Seq(S) /\ Len(v) = n /\ \A j \in 1..n : v[j] = a[j]
    BY <1>1, <2>1, SubSeqProperties
  <2> HIDE DEF v
  <2>3. v = a
    BY <1>1, <2>2, SeqEqual
  <2>4. QED
    BY <2>3 DEF v
<1>6. ASSUME NEW i \in 1..(n + 1)
      PROVE  t[i].prev = Hash(SubSeq(t, 1, i - 1)) /\ t[i].hash = <<t[i].entry, t[i].prev>>
  <2>1. CASE i \in 1..n
    BY <1>2, <1>4, <2>1 DEF Verifies
  <2>2. CASE i = n + 1
    <3>1. i - 1 = n
      BY <1>1, <2>2
    <3>2. SubSeq(t, 1, i - 1) = a
      BY <1>4, <1>5, <3>1
    <3>3. QED
      BY <1>2, <1>3, <2>2, <3>2
  <2>3. QED
    BY <1>1, <2>1, <2>2
<1>7. Verifies(t)
  BY <1>2, <1>6 DEF Verifies
<1>8. QED
  BY <1>7 DEF t, x

\* The old record that is recorded is imported with the entry of its name.
LEMMA ImportGrows ==
    ASSUME IsSequence(audit), NEW x, audit' = Append(audit, x), skipped' = skipped,
           NEW n, Importing(n), n <= Len(Legacy), x.entry = Legacy[n]
    PROVE  Importing(n + 1)' /\ n + 1 # 0
<1>1. /\ IsSequence(audit') /\ IsPrefix(audit, audit')
      /\ Len(audit) \in Nat /\ Len(audit') = Len(audit) + 1
      /\ audit'[Len(audit) + 1] = x
  BY AppendFacts, PrefixAppend, SequenceFacts
<1>2. ImportedTo(n)'
  BY <1>1, ImportStays DEF Importing
<1>3. Len(Legacy) \in Nat
  BY StateRootConstantsOK, SequenceFacts
<1>4. n \in Nat \ {0} /\ n + 1 \in 1..(Len(Legacy) + 1)
  BY <1>3 DEF Importing
<1>5. Len(audit) + 1 \in 1..Len(audit') /\ audit'[Len(audit) + 1].entry = Legacy[n]
  BY <1>1
<1>6. PICK m : m = n + 1
  OBVIOUS
<1>7. ASSUME NEW i \in 1..(m - 1)
      PROVE  \/ Legacy[i].file \in skipped'
             \/ \E j \in 1..Len(audit') : audit'[j].entry = Legacy[i]
  <2>1. CASE i \in 1..(n - 1)
    BY <1>2, <2>1 DEF ImportedTo
  <2>2. CASE i = n
    BY <1>5, <2>2
  <2>3. QED
    BY <1>4, <1>6, <2>1, <2>2
<1>8. ImportedTo(m)'
  BY <1>7 DEF ImportedTo
<1>9. QED
  BY <1>4, <1>6, <1>8 DEF Importing

\* The process that reads the last hash is the writer from then on.
LEMMA AuditReadStep ==
    ASSUME IInv, NEW p \in Procs, NEW e, AuditRead(p, e),
           proc[p].at \in {"ready", "import"},
           proc[p].next # 0 =>
               /\ Importing(proc[p].next) /\ proc[p].next <= Len(Legacy)
               /\ e = Legacy[proc[p].next],
           UNCHANGED <<tables, history, keyfile, ledgers>>
    PROVE  IInv'
<1> DEFINE o == proc[p]
           h == Hash(audit)
           to == "append"
           r == [proc[p] EXCEPT !.at = "append", !.head = h, !.entry = e]
<1>1. writer = None /\ writer' = p /\ Becomes(p, r)
  BY DEF AuditRead
<1>2. IsProc(o) /\ to \in Places
  BY DEF IInv, Typed, Places, Opened
<1>3. IsProc(r) /\ r.at = to /\ r.key = o.key /\ r.head = h /\ r.entry = e /\ r.next = o.next
  <2> DEFINE r1 == [o EXCEPT !.at = to]
             r2 == [r1 EXCEPT !.head = h]
  <2>1. r1 = [o EXCEPT !.at = to]
    OBVIOUS
  <2>2. r2 = [r1 EXCEPT !.head = h]
    OBVIOUS
  <2>3. r = [r2 EXCEPT !.entry = e]
    OBVIOUS
  <2> HIDE DEF o, h, to, r, r1, r2
  <2>4. IsProc(r1) /\ r1.at = to /\ r1.key = o.key /\ r1.next = o.next
    BY ONLY <1>2, <2>1, SetAt
  <2>5. IsProc(r2) /\ r2.at = to /\ r2.key = o.key /\ r2.head = h /\ r2.next = o.next
    BY ONLY <2>2, <2>4, SetHead
  <2>6. QED
    BY ONLY <2>3, <2>5, SetEntry
<1>4. r.at = "append"
  BY <1>3
<1> HIDE DEF r, h, to
<1>5. p # None
  BY BinaryFacts
<1>6. Typed'
  BY <1>1, <1>3, <1>4, <1>5, TypedKept DEF IInv, Typed, ledgers
<1>7. Schema'
  BY <1>1, <1>3, <1>4, SchemaKept DEF IInv, Schema, Opened
<1>8. Keys'
  BY <1>1, <1>3, <1>4, KeysKept DEF IInv, Keys, KeysAgree
<1>9. Ledgers'
  <2>1. Recording(r)
    BY <1>3, <1>4 DEF Recording, h
  <2>2. QED
    BY <1>1, <1>3, <2>1, LedgersKept DEF IInv
<1>10. QED
  BY <1>6, <1>7, <1>8, <1>9 DEF IInv

LEMMA RecordStep ==
    ASSUME IInv, NEW p \in Procs, Record(p)
    PROVE  IInv'
<1>1. PICK e \in Entries : AuditRead(p, e)
  BY DEF Record
<1>2. proc[p].at = "ready" /\ UNCHANGED <<tables, history, keyfile, ledgers>>
  BY DEF Record, Is
<1>3. proc[p].next = 0
  BY <1>2 DEF IInv, Ledgers, Recording
<1>4. QED
  BY <1>1, <1>2, <1>3, AuditReadStep

\* Where an import stands.
LEMMA ImportPlace ==
    ASSUME IInv, NEW p \in Procs, proc[p].at = "import"
    PROVE  /\ Importing(proc[p].next) /\ Len(Legacy) \in Nat
           /\ proc[p].next \in 1..(Len(Legacy) + 1)
           /\ ~Finished(p) => proc[p].next <= Len(Legacy)
<1>1. Importing(proc[p].next)
  BY DEF IInv, Ledgers, Recording
<1>2. Len(Legacy) \in Nat
  BY StateRootConstantsOK, SequenceFacts
<1>3. QED
  BY <1>1, <1>2 DEF Importing, Finished

LEMMA ImportRecordStep ==
    ASSUME IInv, NEW p \in Procs, ImportRecord(p)
    PROVE  IInv'
<1>1. /\ AuditRead(p, Legacy[proc[p].next]) /\ ~Finished(p) /\ proc[p].at = "import"
      /\ UNCHANGED <<tables, history, keyfile, ledgers>>
  BY DEF ImportRecord, Is
<1>2. QED
  BY <1>1, ImportPlace, AuditReadStep

\* What the writer read is still the last hash.
LEMMA AuditInsertStep ==
    ASSUME IInv, NEW p \in Procs, AuditInsert(p)
    PROVE  IInv' /\ IsPrefix(audit, audit')
<1> DEFINE o == proc[p]
           x == Entry(o.entry, o.head)
           to == IF o.next = 0 THEN "ready" ELSE "import"
           h == <<>>
           e == None
           l == IF o.next = 0 THEN 0 ELSE o.next + 1
           r == [proc[p] EXCEPT !.at = to, !.head = h, !.entry = e, !.next = l]
<1>1. /\ o.at = "append" /\ audit' = Append(audit, x)
      /\ writer' = (IF writer = p THEN None ELSE writer)
      /\ UNCHANGED <<tables, history, keyfile, marked, skipped, log, cursor>>
  BY DEF AuditInsert, Is
<1>2. Becomes(p, r)
  BY DEF AuditInsert, Becomes
<1>3. IsProc(o) /\ to \in Places
  BY DEF IInv, Typed, Places, Opened
<1>4. IsProc(r) /\ r.at = to /\ r.key = o.key /\ r.next = l
  <2> DEFINE r1 == [o EXCEPT !.at = to]
             r2 == [r1 EXCEPT !.head = h]
             r3 == [r2 EXCEPT !.entry = e]
  <2>1. r1 = [o EXCEPT !.at = to]
    OBVIOUS
  <2>2. r2 = [r1 EXCEPT !.head = h]
    OBVIOUS
  <2>3. r3 = [r2 EXCEPT !.entry = e]
    OBVIOUS
  <2>4. r = [r3 EXCEPT !.next = l]
    OBVIOUS
  <2> HIDE DEF o, h, to, e, l, r, r1, r2, r3
  <2>5. IsProc(r1) /\ r1.at = to /\ r1.key = o.key
    BY ONLY <1>3, <2>1, SetAt
  <2>6. IsProc(r1)
    BY <2>5
  <2>7. IsProc(r2) /\ r2.at = r1.at /\ r2.key = r1.key
    BY ONLY <2>2, <2>6, SetHead
  <2>8. IsProc(r3) /\ r3.at = to /\ r3.key = o.key
    BY ONLY <2>3, <2>5, <2>7, SetEntry
  <2>9. QED
    BY ONLY <2>4, <2>8, SetNext
<1>5. to \in {"ready", "import"} /\ writer = p /\ writer' = None /\ p # None
  BY <1>1, BinaryFacts DEF IInv, Typed
<1>6. to = "ready" => l = 0
  OBVIOUS
<1>7. o.head = Hash(audit) /\ IsSequence(audit) /\ LedgersVerify
  BY <1>1 DEF IInv, Ledgers, Recording, Typed
<1>8. IsSequence(audit') /\ IsPrefix(audit, audit') /\ Verifies(audit')
  BY <1>1, <1>7, AppendFacts, PrefixAppend, ChainedVerifies DEF LedgersVerify
<1>9. ASSUME to = "import", NEW n, n = l
      PROVE  Importing(n)'
  <2>1. o.next # 0 /\ n = o.next + 1
    BY <1>9
  <2>2. Importing(o.next) /\ o.next <= Len(Legacy) /\ o.entry = Legacy[o.next]
    BY <1>1, <2>1 DEF IInv, Ledgers, Recording
  <2>3. x.entry = o.entry
    BY DEF Entry
  <2>4. PICK m : m = o.next
    OBVIOUS
  <2>5. PICK y : y = x
    OBVIOUS
  <2> HIDE DEF x, o
  <2>6. /\ audit' = Append(audit, y) /\ skipped' = skipped
        /\ Importing(m) /\ m <= Len(Legacy) /\ y.entry = Legacy[m]
    BY <1>1, <2>2, <2>3, <2>4, <2>5
  <2>7. Importing(m + 1)'
    BY <1>7, <2>6, ImportGrows
  <2>8. QED
    BY <2>1, <2>4, <2>7
<1>10. /\ \A n : ImportedTo(n) => ImportedTo(n)'
       /\ \A n : Importing(n) => Importing(n)'
  BY <1>1, <1>7, <1>8, ImportStays
<1> HIDE DEF r, to, l, x
<1>11. Typed'
  BY <1>1, <1>2, <1>4, <1>5, <1>8, TypedKept DEF IInv, Typed
<1>12. Schema'
  BY <1>1, <1>2, <1>4, <1>5, SchemaKept DEF IInv, Schema, Opened
<1>13. Keys'
  BY <1>1, <1>2, <1>4, <1>5, KeysKept DEF IInv, Keys, KeysAgree
<1>14. Ledgers'
  <2>1. proc'[p] = r /\ \A q \in Procs : q # p => proc'[q] = proc[q]
    BY <1>2, <1>4, OneProc DEF IInv
  <2>2. LedgersVerify'
    <3>1. PICK n : n = Len(Legacy) + 1
      OBVIOUS
    <3>2. marked' => ImportedTo(n)'
      BY <1>1, <1>7, <1>10, <3>1 DEF LedgersVerify
    <3>3. QED
      BY <1>1, <1>7, <1>8, <3>1, <3>2 DEF LedgersVerify
  <2>3. ASSUME NEW q \in Procs
        PROVE  Recording(proc[q])'
    <3>1. CASE q = p
      <4>1. PICK n : n = l
        OBVIOUS
      <4>2. /\ proc'[q].next = n /\ proc'[q].at = to /\ (to = "import" => Importing(n)')
            /\ to = "ready" => n = 0
        BY <1>4, <1>6, <1>9, <2>1, <3>1, <4>1
      <4>3. QED
        BY <1>5, <4>2 DEF Recording
    <3>2. CASE q # p
      <4>1. proc[q].at # "append"
        BY <1>5, <3>2 DEF IInv, Typed
      <4>2. PICK n : n = proc[q].next
        OBVIOUS
      <4>3. proc[q].at = "import" => Importing(n)'
        BY <1>10, <4>2 DEF IInv, Ledgers, Recording
      <4>4. proc[q].at \notin {"append", "import"} => proc[q].next = 0
        BY DEF IInv, Ledgers, Recording
      <4>5. proc'[q] = proc[q] /\ proc'[q].next = n
        BY <2>1, <3>2, <4>2
      <4>6. QED
        BY <4>1, <4>3, <4>4, <4>5 DEF Recording
    <3>3. QED
      BY <3>1, <3>2
  <2>4. QED
    BY <2>2, <2>3 DEF Ledgers
<1>15. QED
  BY <1>8, <1>11, <1>12, <1>13, <1>14 DEF IInv

LEMMA ImportStep ==
    ASSUME IInv, NEW p \in Procs, Import(p)
    PROVE  IInv'
<1> DEFINE l == 1
           r == [proc[p] EXCEPT !.at = "import", !.next = l]
<1>1. proc[p].at = "ready" /\ Becomes(p, r) /\ UNCHANGED <<database, keyfile, ledgers>>
  BY DEF Import, Is
<1>2. IsProc(r) /\ r.at = "import" /\ r.key = proc[p].key /\ r.next = l
  <2> DEFINE o == proc[p]
             to == "import"
             r1 == [o EXCEPT !.at = to]
  <2>1. IsProc(o) /\ to \in Places
    BY DEF IInv, Typed, Places, Opened
  <2>2. r1 = [o EXCEPT !.at = to]
    OBVIOUS
  <2>3. r = [r1 EXCEPT !.next = l]
    OBVIOUS
  <2> HIDE DEF o, to, l, r, r1
  <2>4. IsProc(r1) /\ r1.at = to /\ r1.key = o.key
    BY ONLY <2>1, <2>2, SetAt
  <2>5. IsProc(r) /\ r.at = to /\ r.key = o.key /\ r.next = l
    BY ONLY <2>3, <2>4, SetNext
  <2>6. QED
    BY <2>5 DEF o, to
<1> HIDE DEF r
<1>3. Importing(l)
  <2>1. Len(Legacy) \in Nat
    BY StateRootConstantsOK, SequenceFacts
  <2>2. QED
    BY <2>1 DEF Importing, ImportedTo
<1> HIDE DEF l
<1>4. writer # p /\ writer' = writer /\ tables' = tables /\ history' = history
  BY <1>1 DEF IInv, Typed, database
<1>5. Typed'
  BY <1>1, <1>2, <1>4, TypedKept DEF IInv, Typed, ledgers
<1>6. Schema'
  BY <1>1, <1>2, <1>4, SchemaKept DEF IInv, Schema, Opened
<1>7. Keys'
  BY <1>1, <1>2, KeysKept DEF IInv, Keys, KeysAgree
<1>8. Ledgers'
  BY <1>1, <1>2, <1>3, LedgersKept DEF IInv, Recording
<1>9. QED
  BY <1>5, <1>6, <1>7, <1>8 DEF IInv

\* The mark is set by one who has nothing next.
LEMMA MarkStep ==
    ASSUME IInv, NEW p \in Procs, Mark(p)
    PROVE  IInv' /\ marked'
<1> DEFINE l == 0
           r == [proc[p] EXCEPT !.at = "ready", !.next = l]
<1>1. /\ proc[p].at = "import" /\ Finished(p) /\ marked' = TRUE /\ Becomes(p, r)
      /\ UNCHANGED <<database, keyfile, audit, skipped, log, cursor>>
  BY DEF Mark, Is
<1>2. IsProc(r) /\ r.at = "ready" /\ r.key = proc[p].key /\ r.next = l
  <2> DEFINE o == proc[p]
             to == "ready"
             r1 == [o EXCEPT !.at = to]
  <2>1. IsProc(o) /\ to \in Places
    BY DEF IInv, Typed, Places, Opened
  <2>2. r1 = [o EXCEPT !.at = to]
    OBVIOUS
  <2>3. r = [r1 EXCEPT !.next = l]
    OBVIOUS
  <2> HIDE DEF o, to, l, r, r1
  <2>4. IsProc(r1) /\ r1.at = to /\ r1.key = o.key
    BY ONLY <2>1, <2>2, SetAt
  <2>5. IsProc(r) /\ r.at = to /\ r.key = o.key /\ r.next = l
    BY ONLY <2>3, <2>4, SetNext
  <2>6. QED
    BY <2>5 DEF o, to
<1> HIDE DEF r
<1>3. ImportedTo(Len(Legacy) + 1)
  <2>1. Importing(proc[p].next) /\ proc[p].next = Len(Legacy) + 1
    BY <1>1, ImportPlace DEF Finished
  <2>2. QED
    BY <2>1 DEF Importing
<1>4. writer # p /\ writer' = writer /\ tables' = tables /\ history' = history
  BY <1>1 DEF IInv, Typed, database
<1>5. Typed'
  BY <1>1, <1>2, <1>4, TypedKept DEF IInv, Typed
<1>6. Schema'
  BY <1>1, <1>2, <1>4, SchemaKept DEF IInv, Schema, Opened
<1>7. Keys'
  BY <1>1, <1>2, KeysKept DEF IInv, Keys, KeysAgree
<1>8. Ledgers'
  <2>1. Recording(r)
    BY <1>2 DEF Recording
  <2>2. LedgersVerify'
    BY <1>1, <1>3 DEF IInv, Ledgers, LedgersVerify, ImportedTo
  <2>3. QED
    BY <1>1, <1>2, <2>1, <2>2, LedgersMoved DEF IInv
<1>9. QED
  BY <1>1, <1>5, <1>6, <1>7, <1>8 DEF IInv

\* What is passed over is in the file that is given up.
LEMMA SkipFileStep ==
    ASSUME IInv, NEW p \in Procs, SkipFile(p)
    PROVE  IInv'
<1> DEFINE o == proc[p]
           from == o.next
<1>1. PICK l \in (from + 1)..(Len(Legacy) + 1) :
        AfterFile(from, l) /\ Becomes(p, [o EXCEPT !.next = l])
  BY DEF SkipFile
<1>2. /\ o.at = "import" /\ ~Finished(p) /\ skipped' = skipped \cup {Legacy[from].file}
      /\ UNCHANGED <<database, keyfile, audit, marked, log, cursor>>
  BY DEF SkipFile, Is
<1>3. PICK r : r = [o EXCEPT !.next = l]
  OBVIOUS
<1>4. IsProc(r) /\ r.at = "import" /\ r.key = o.key /\ r.next = l /\ Becomes(p, r)
  <2>1. IsProc(o)
    BY DEF IInv, Typed
  <2>2. IsProc(r) /\ r.at = o.at /\ r.key = o.key /\ r.next = l
    BY ONLY <1>3, <2>1, SetNext
  <2>3. QED
    BY <1>1, <1>2, <1>3, <2>2
<1>5. Importing(from) /\ Len(Legacy) \in Nat /\ from \in 1..Len(Legacy)
  BY <1>2, ImportPlace
<1>6. l \in 1..(Len(Legacy) + 1) /\ \A i \in 1..(l - 1) : i \in 1..(from - 1) \/ i \in from..(l - 1)
  BY <1>1, <1>5
<1>7. \A i \in from..(l - 1) : Legacy[i].file \in skipped'
  BY <1>1, <1>2 DEF AfterFile
<1> HIDE DEF o, from
<1>8. ImportedTo(l)'
  BY <1>2, <1>5, <1>6, <1>7 DEF Importing, ImportedTo
<1>9. writer # p /\ writer' = writer /\ tables' = tables /\ history' = history
  BY <1>2 DEF IInv, Typed, database, o
<1>10. Typed'
  BY <1>2, <1>4, <1>9, TypedKept DEF IInv, Typed
<1>11. Schema'
  BY <1>2, <1>4, <1>9, SchemaKept DEF IInv, Schema, Opened, o
<1>12. Keys'
  BY <1>2, <1>4, KeysKept DEF IInv, Keys, KeysAgree, o
<1>13. Ledgers'
  <2>1. skipped \subseteq skipped' /\ IsSequence(audit) /\ IsPrefix(audit, audit)
    BY <1>2, PrefixAppend DEF IInv, Typed
  <2>2. \A n : ImportedTo(n) => ImportedTo(n)'
    BY <1>2, <2>1, ImportStays
  <2>3. LedgersVerify'
    <3>1. PICK n : n = Len(Legacy) + 1
      OBVIOUS
    <3>2. marked' => ImportedTo(n)'
      BY <1>2, <2>2, <3>1 DEF IInv, Ledgers, LedgersVerify
    <3>3. QED
      BY <1>2, <3>1, <3>2 DEF IInv, Ledgers, LedgersVerify, Verifies, Hash
  <2>4. Recording(r)'
    BY <1>4, <1>6, <1>8 DEF Recording, Importing
  <2>5. QED
    BY <1>2, <1>4, <2>1, <2>3, <2>4, LedgersMovedOn DEF IInv
<1>14. QED
  BY <1>10, <1>11, <1>12, <1>13 DEF IInv

-----------------------------------------------------------------------------
(***************************************************************************)
(* The event log.                                                          *)
(***************************************************************************)
\* A process that writes to the log and changes nothing of its own.
LEMMA LogStep ==
    ASSUME IInv, NEW p \in Procs, proc[p].at = "ready", LedgersVerify',
           IsSequence(log'), cursor' \in [Consumers -> Nat],
           UNCHANGED <<database, keyfile, audit, marked, skipped, proc>>
    PROVE  IInv'
<1> DEFINE r == proc[p]
<1>1. IsProc(r) /\ Becomes(p, r) /\ r.at = "ready"
  BY DEF IInv, Typed, Becomes
<1>2. Recording(r)
  BY <1>1 DEF IInv, Ledgers, Recording
<1>3. writer # p /\ writer' = writer /\ tables' = tables /\ history' = history
  BY <1>1 DEF IInv, Typed, database
<1>4. r.key \in Procs \cup {None} /\ (r.key # None => r.key = keyfile)
  BY DEF IInv, Keys, KeysAgree
<1>5. IsPrefix(Binary[p], history)
  BY <1>1 DEF IInv, Schema, Opened
<1> HIDE DEF r
<1>6. Typed'
  BY <1>1, <1>3, TypedKept DEF IInv, Typed
<1>7. Schema'
  BY <1>1, <1>3, <1>5, SchemaKept DEF IInv
<1>8. Keys'
  BY <1>1, <1>4, KeysKept DEF IInv
<1>9. Ledgers'
  BY <1>1, <1>2, LedgersMoved DEF IInv
<1>10. QED
  BY <1>6, <1>7, <1>8, <1>9 DEF IInv

LEMMA PublishStep ==
    ASSUME IInv, NEW p \in Procs, Publish(p)
    PROVE  IInv' /\ IsPrefix(log, log')
<1>1. proc[p].at = "ready" /\ UNCHANGED <<database, keyfile, audit, marked, skipped, cursor, proc>>
  BY DEF Publish, Is
<1>2. PICK e \in Events : ~Clashes(e) /\ log' = Append(log, e)
  BY DEF Publish
<1>3. IsSequence(log) /\ Len(log) \in Nat /\ LedgersVerify /\ cursor \in [Consumers -> Nat]
  BY SequenceFacts DEF IInv, Typed, Ledgers
<1>4. /\ IsSequence(log') /\ IsPrefix(log, log') /\ Len(log') = Len(log) + 1
      /\ \A i \in 1..Len(log) : log'[i] = log[i]
      /\ log'[Len(log) + 1] = e
  BY <1>2, <1>3, AppendFacts, PrefixAppend
<1>5. \A c \in Consumers : cursor'[c] <= Len(log')
  BY <1>1, <1>3, <1>4 DEF LedgersVerify
<1>6. LedgersVerify'
  BY <1>1, <1>3, <1>5 DEF LedgersVerify, Verifies, Hash, ImportedTo
<1>7. QED
  BY <1>1, <1>3, <1>4, <1>6, LogStep

LEMMA AckStep ==
    ASSUME IInv, NEW p \in Procs, Ack(p)
    PROVE  IInv' /\ \A c \in Consumers : cursor[c] <= cursor'[c]
<1>1. proc[p].at = "ready" /\ UNCHANGED <<database, keyfile, audit, marked, skipped, log, proc>>
  BY DEF Ack, Is
<1>2. PICK c \in Consumers, n \in 0..Len(log) :
        cursor' = [cursor EXCEPT ![c] = Acknowledged(c, n)]
  BY DEF Ack
<1>3. /\ IsSequence(log) /\ Len(log) \in Nat /\ LedgersVerify /\ cursor \in [Consumers -> Nat]
      /\ \A d \in Consumers : cursor[d] <= Len(log)
  BY SequenceFacts DEF IInv, Typed, Ledgers, LedgersVerify
<1>4. /\ Acknowledged(c, n) \in Nat /\ Acknowledged(c, n) <= Len(log)
      /\ cursor[c] <= Acknowledged(c, n)
  BY <1>3 DEF Acknowledged, Later
<1>5. /\ cursor' \in [Consumers -> Nat]
      /\ \A d \in Consumers : cursor'[d] <= Len(log) /\ cursor[d] <= cursor'[d]
  BY <1>2, <1>3, <1>4
<1>6. LedgersVerify'
  BY <1>1, <1>3, <1>5 DEF LedgersVerify, Verifies, Hash, ImportedTo
<1>7. QED
  BY <1>1, <1>3, <1>5, <1>6, LogStep

-----------------------------------------------------------------------------
(***************************************************************************)
(* All steps.                                                              *)
(***************************************************************************)
LEMMA InitIInv == Init => IInv
<1> SUFFICES ASSUME Init PROVE IInv
  OBVIOUS
<1>1. IsProc(Down) /\ Down.at = "down" /\ Down.key = None /\ Down.next = 0
  BY DEF Down, IsProc, Places
<1>2. \A p \in Procs : proc[p] = Down
  BY DEF Init
<1>3. IsSequence(<<>>) /\ Len(<<>>) = 0
  BY EmptySeq, OwnElements
<1>4. Typed
  <2>1. history \in Seq(Migrations) /\ IsSequence(audit) /\ IsSequence(log)
    BY <1>3, EmptySeq DEF Init
  <2>2. proc = [p \in Procs |-> proc[p]]
    BY DEF Init
  <2>3. \A p \in Procs : writer # p
    BY BinaryFacts DEF Init
  <2>4. QED
    BY <1>1, <1>2, <2>1, <2>2, <2>3 DEF Init, Typed
<1>5. Schema
  <2>1. tables = Whole(history)
    BY DEF Init, Whole
  <2>2. PICK p \in Procs : TRUE
    BY StateRootConstantsOK
  <2>3. IsPrefix(history, Binary[p])
    <3>1. IsSequence(Binary[p]) /\ Len(Binary[p]) \in Nat
      BY BinaryFacts
    <3>2. history = <<>>
      BY DEF Init
    <3>3. QED
      BY <1>3, <3>1, <3>2, PrefixFacts
  <2>4. QED
    BY <1>1, <1>2, <2>1, <2>3 DEF Schema, Opened
<1>6. Keys
  BY <1>1, <1>2 DEF Init, Keys, KeysAgree
<1>7. Ledgers
  <2>1. LedgersVerify
    BY DEF Init, LedgersVerify, Verifies
  <2>2. QED
    BY <1>1, <1>2, <2>1 DEF Ledgers, Recording
<1>8. QED
  BY <1>4, <1>5, <1>6, <1>7 DEF IInv

LEMMA DiesStep ==
    ASSUME IInv, NEW p \in Procs, Dies(p)
    PROVE  IInv'
BY DownStep DEF Dies

\* What was recorded is only added to.
Grows ==
    /\ IsPrefix(history, history')
    /\ IsPrefix(audit, audit')
    /\ IsPrefix(log, log')
    /\ marked => marked'
    /\ \A c \in Consumers : cursor[c] <= cursor'[c]

LEMMA Unmoved ==
    ASSUME IInv
    PROVE  /\ history' = history => IsPrefix(history, history')
           /\ audit' = audit => IsPrefix(audit, audit')
           /\ log' = log => IsPrefix(log, log')
           /\ cursor' = cursor => \A c \in Consumers : cursor[c] <= cursor'[c]
<1>1. IsSequence(history) /\ IsSequence(audit) /\ IsSequence(log)
  BY OwnElements DEF IInv, Typed
<1>2. IsPrefix(history, history) /\ IsPrefix(audit, audit) /\ IsPrefix(log, log)
  BY <1>1, PrefixAppend
<1>3. \A c \in Consumers : cursor[c] \in Nat
  BY DEF IInv, Typed
<1>4. QED
  BY <1>2, <1>3

LEMMA NextIInv ==
    ASSUME IInv, [Next]_vars
    PROVE  IInv' /\ Grows
<1>1. CASE UNCHANGED vars
  <2>1. /\ tables' = tables /\ history' = history /\ writer' = writer /\ keyfile' = keyfile
        /\ audit' = audit /\ marked' = marked /\ skipped' = skipped /\ log' = log
        /\ cursor' = cursor /\ proc' = proc
    BY <1>1 DEF vars
  <2>2. Typed'
    BY <2>1 DEF IInv, Typed
  <2>3. Schema'
    BY <2>1 DEF IInv, Schema, Whole, Migrating, Known, Current, Migration
  <2>4. Keys'
    BY <2>1 DEF IInv, Keys, KeysAgree
  <2>5. Ledgers'
    <3>1. LedgersVerify' = LedgersVerify
      BY <2>1 DEF Hash, LedgersVerify, Verifies, ImportedTo
    <3>2. \A r : Recording(r) => Recording(r)'
      BY <2>1, RecordingStays DEF IInv
    <3>3. ASSUME NEW q \in Procs PROVE Recording(proc[q])'
      <4>1. PICK r : r = proc[q] /\ Recording(r)
        BY DEF IInv, Ledgers
      <4>2. Recording(r)' /\ proc'[q] = r
        BY <2>1, <3>2, <4>1
      <4>3. QED
        BY <4>2 DEF Recording
    <3>4. QED
      BY <3>1, <3>3 DEF IInv, Ledgers
  <2>6. QED
    BY <2>1, <2>2, <2>3, <2>4, <2>5, Unmoved DEF IInv, Grows
<1>2. ASSUME NEW p \in Procs,
             \/ Verify(p) \/ Begin(p) \/ Statement(p)
             \/ OpenKey(p) \/ CreateKey(p) \/ WriteKey(p)
             \/ Record(p) \/ Import(p) \/ ImportRecord(p) \/ SkipFile(p) \/ Dies(p)
      PROVE  IInv' /\ Grows
  <2>1. history' = history /\ audit' = audit /\ marked' = marked /\ log' = log /\ cursor' = cursor
    BY <1>2 DEF Verify, Begin, Statement, OpenKey, CreateKey, WriteKey, Record, Import,
                ImportRecord, SkipFile, Dies, database, ledgers
  <2>2. Grows
    BY <2>1, Unmoved DEF Grows
  <2>3. IInv'
    BY <1>2, VerifyStep, BeginStep, StatementStep, OpenKeyStep, CreateKeyStep, WriteKeyStep,
       RecordStep, ImportStep, ImportRecordStep, SkipFileStep, DiesStep
  <2>4. QED
    BY <2>2, <2>3
<1>3. ASSUME NEW p \in Procs, Commit(p)
      PROVE  IInv' /\ Grows
  <2>1. /\ history' = Append(history, Migration(p)) /\ UNCHANGED ledgers
        /\ proc[p].at = "migrate"
    BY <1>3 DEF Commit, Is
  <2>2. Migrating(p, proc[p].work)
    BY <2>1 DEF IInv, Schema
  <2>3. IsPrefix(history, history')
    BY <2>1, <2>2, CommitFacts DEF IInv, Migrating
  <2>4. IInv'
    BY <1>3, CommitStep
  <2>5. QED
    BY <2>1, <2>3, <2>4, Unmoved DEF Grows, ledgers
<1>4. ASSUME NEW p \in Procs, AuditInsert(p)
      PROVE  IInv' /\ Grows
  <2>1. history' = history /\ marked' = marked /\ log' = log /\ cursor' = cursor
    BY <1>4 DEF AuditInsert
  <2>2. QED
    BY <1>4, <2>1, AuditInsertStep, Unmoved DEF Grows
<1>5. ASSUME NEW p \in Procs, Mark(p)
      PROVE  IInv' /\ Grows
  <2>1. history' = history /\ audit' = audit /\ log' = log /\ cursor' = cursor
    BY <1>5 DEF Mark, database
  <2>2. QED
    BY <1>5, <2>1, MarkStep, Unmoved DEF Grows
<1>6. ASSUME NEW p \in Procs, Publish(p)
      PROVE  IInv' /\ Grows
  <2>1. history' = history /\ audit' = audit /\ marked' = marked /\ cursor' = cursor
    BY <1>6 DEF Publish, database
  <2>2. QED
    BY <1>6, <2>1, PublishStep, Unmoved DEF Grows
<1>7. ASSUME NEW p \in Procs, Ack(p)
      PROVE  IInv' /\ Grows
  <2>1. history' = history /\ audit' = audit /\ marked' = marked /\ log' = log
    BY <1>7 DEF Ack, database
  <2>2. QED
    BY <1>7, <2>1, AckStep, Unmoved DEF Grows
<1>8. QED
  BY <1>1, <1>2, <1>3, <1>4, <1>5, <1>6, <1>7 DEF Next

\* The invariant holds in every behaviour.
THEOREM RootInvariance == Spec => []IInv
<1>1. Init => IInv
  BY InitIInv
<1>2. IInv /\ [Next]_vars => IInv'
  BY NextIInv
<1>3. QED
  BY <1>1, <1>2, PTL DEF Spec

\* Any number of programs of any versions, wherever they die: the tables are those
\* of the migrations in the history, and a program that has opened the state root
\* finds all of its own there (Migrator.migrate, verify).
THEOREM SchemaSound == Spec => []SchemaIsWhole
<1>1. IInv => SchemaIsWhole
  BY DEF IInv, Schema, SchemaIsWhole
<1>2. QED
  BY <1>1, RootInvariance, PTL

\* Only these steps open the state root, each with the history in its hands.
Opens(p) == proc[p].at \notin Opened /\ proc'[p].at \in Opened

LEMMA OpeningStep ==
    ASSUME IInv, [Next]_vars, NEW p \in Procs, Opens(p)
    PROVE  history' = Binary[p]
<1>1. proc'[p] # proc[p]
  BY DEF Opens
<1>2. PICK q \in Procs :
        \/ Verify(q) \/ Begin(q) \/ Statement(q) \/ Commit(q)
        \/ OpenKey(q) \/ CreateKey(q) \/ WriteKey(q)
        \/ Record(q) \/ AuditInsert(q) \/ Import(q) \/ ImportRecord(q) \/ SkipFile(q) \/ Mark(q)
        \/ Publish(q) \/ Ack(q) \/ Dies(q)
  BY <1>1 DEF Next, vars
<1>3. p = q
  <2>1. proc' = proc \/ \E r : proc' = [proc EXCEPT ![q] = r]
    BY <1>2 DEF Verify, Begin, Statement, Commit, OpenKey, CreateKey, WriteKey, Record, AuditRead,
                AuditInsert, Import, ImportRecord, SkipFile, Mark, Publish, Ack, Dies, Becomes, Goes
  <2>2. proc = [x \in Procs |-> proc[x]]
    BY DEF IInv, Typed
  <2>3. QED
    BY <1>1, <2>1, <2>2
<1>4. proc[q].at \in {"down", "begin", "migrate"}
  BY <1>3 DEF Opens, IInv, Typed, IsProc, Places
<1>5. Verify(q) \/ Begin(q) \/ Commit(q) \/ Statement(q) \/ Dies(q)
  BY <1>2, <1>4 DEF OpenKey, CreateKey, WriteKey, Record, AuditInsert, Import, ImportRecord,
                    SkipFile, Mark, Publish, Ack, Is
<1>6. proc = [x \in Procs |-> proc[x]] /\ IsProc(proc[q])
  BY DEF IInv, Typed
<1>7. ASSUME Becomes(q, Down) PROVE FALSE
  BY <1>3, <1>6, <1>7 DEF Becomes, Down, Opens, Opened
<1>8. ASSUME NEW to, to \notin Opened, NEW w, NEW r, r.at = to, Becomes(q, r) PROVE FALSE
  BY <1>3, <1>6, <1>8 DEF Becomes, Opens
<1>9. CASE Verify(q)
  <2>1. Known(q) /\ Current(q)
    BY <1>3, <1>6, <1>7, <1>9 DEF Verify, Goes, Becomes, Opens, Opened, IsProc
  <2>2. QED
    BY <1>3, <1>9, <2>1, CurrentPrefix DEF Verify, database, IInv
<1>10. CASE Begin(q)
  <2>1. Known(q) /\ Current(q)
    BY <1>3, <1>6, <1>7, <1>10 DEF Begin, Goes, Becomes, Opens, Opened, IsProc
  <2>2. QED
    BY <1>3, <1>10, <2>1, CurrentPrefix DEF Begin, IInv
<1>11. CASE Commit(q)
  <2>1. Known(q) /\ ~Current(q)
    BY <1>11 DEF Commit, Is, IInv, Schema, Migrating
  <2>2. Migration(q) = Last(Binary[q])
    BY <1>3, <1>6, <1>11 DEF Commit, Becomes, Opens, Opened, IsProc
  <2>3. QED
    BY <1>3, <1>11, <2>1, <2>2, CommitFacts DEF Commit, IInv
<1>12. CASE Statement(q)
  BY <1>3, <1>6, <1>12 DEF Statement, Is, Becomes, Opens, Opened, IsProc
<1>13. CASE Dies(q)
  BY <1>7, <1>13 DEF Dies
<1>14. QED
  BY <1>5, <1>9, <1>10, <1>11, <1>12, <1>13

\* For any programs and any order of their steps, a program opens the state root
\* only where the history is its own to the last migration (verify, migrate).
THEOREM OpensItsOwn == Spec => OpensWhatItKnows
<1> DEFINE A == \A p \in Procs :
                  proc[p].at \notin Opened /\ proc'[p].at \in Opened => history' = Binary[p]
<1>1. IInv /\ [Next]_vars => [A]_vars
  BY OpeningStep DEF Opens
<1>2. [][A]_vars <=> OpensWhatItKnows
  BY DEF OpensWhatItKnows
<1> HIDE DEF A
<1>3. QED
  BY <1>1, <1>2, RootInvariance, PTL DEF Spec

\* No two processes ever hold different master keys, and none another than the
\* file's (load_or_create_key).
THEOREM OneKey == Spec => []KeysAgree
<1>1. IInv => KeysAgree
  BY DEF IInv, Keys
<1>2. QED
  BY <1>1, RootInvariance, PTL

\* The audit chain verifies, no consumer is ahead of the log, and a marked import has
\* left out nothing but what could not be read (append_audit, ack, migrate).
THEOREM LedgersSound == Spec => []LedgersVerify
<1>1. IInv => LedgersVerify
  BY DEF IInv, Ledgers
<1>2. QED
  BY <1>1, RootInvariance, PTL

\* No step takes back what was recorded (Migrator, append_audit, EventBus.ack).
THEOREM NothingTakenBack == Spec => LedgersOnlyGrow
<1>1. IInv /\ [Next]_vars => [Grows]_vars
  BY NextIInv
<1>2. [][Grows]_vars => LedgersOnlyGrow
  <2>1. Grows <=> /\ IsPrefix(history, history')
                  /\ IsPrefix(audit, audit')
                  /\ IsPrefix(log, log')
                  /\ marked => marked'
                  /\ \A c \in Consumers : cursor[c] <= cursor'[c]
    BY DEF Grows
  <2>2. QED
    BY <2>1, PTL DEF LedgersOnlyGrow
<1>3. QED
  BY <1>1, <1>2, RootInvariance, PTL DEF Spec

===============================================================================
