------------------------- MODULE Orchestration_proofs -------------------------
(***************************************************************************)
(* Proofs about Orchestration.tla, for any engines, order of preference,   *)
(* processes, requests, threshold, cooldown and retries.                   *)
(***************************************************************************)
EXTENDS Orchestration, SequenceTheorems, WellFoundedInduction, TLAPS

-----------------------------------------------------------------------------
(***************************************************************************)
(* Induction over a set of numbers, from the least number outside of it.   *)
(***************************************************************************)
\* A set that holds zero and the successor of each of its numbers holds them all.
LEMMA InductionOnNat ==
    ASSUME NEW S, 0 \in S, \A n \in Nat : n \in S => n + 1 \in S
    PROVE  \A n \in Nat : n \in S
<1> DEFINE T == Nat \ S
           R == OpToRel(<, Nat)
<1>1. SUFFICES ASSUME T # {} PROVE FALSE
  OBVIOUS
<1>2. PICK x \in T : \A y \in T : <<y, x>> \notin R
  <2>1. IsWellFoundedOn(R, Nat)
    BY NatLessThanWellFounded
  <2>2. T \subseteq Nat
    OBVIOUS
  <2> HIDE DEF R, T
  <2>3. QED
    BY <1>1, <2>1, <2>2, WFMin
<1>3. x - 1 \in Nat
  OBVIOUS
<1>4. <<x - 1, x>> \in R
  BY <1>3 DEF OpToRel
<1>5. x - 1 \in S
  BY <1>2, <1>3, <1>4
<1>6. QED
  BY <1>3, <1>5

-----------------------------------------------------------------------------
(***************************************************************************)
(* assemble_candidates().                                                  *)
(***************************************************************************)
\* One turn of the loop of assemble_candidates(): what becomes of the route.
Considered(route, name, st) ==
    IF Eligible(st, name) /\ name \notin ToSet(route) THEN Append(route, name) ELSE route

\* Its routes after n names.
Considers(f, names, st) ==
    f = [n \in 0..Len(names) |-> IF n = 0 THEN <<>> ELSE Considered(f[n - 1], names[n], st)]

\* The recursion of Assemble defines a function.
LEMMA RouteExists ==
    ASSUME NEW names, Len(names) \in Nat, NEW st
    PROVE  \E f : Considers(f, names, st)
<1> DEFINE Turn(f, n) == IF n = 0 THEN <<>> ELSE Considered(f[n - 1], names[n], st)
           S == {k \in Nat : \E f : f = [n \in 0..k |-> Turn(f, n)]}
<1>1. 0 \in S
  <2>1. [n \in 0..0 |-> <<>>] = [n \in 0..0 |-> Turn([m \in 0..0 |-> <<>>], n)]
    OBVIOUS
  <2>2. QED
    BY <2>1
<1>2. ASSUME NEW k \in Nat, k \in S
      PROVE  k + 1 \in S
  <2>1. PICK f : f = [n \in 0..k |-> Turn(f, n)]
    BY <1>2
  <2> DEFINE g == [n \in 0..(k + 1) |-> IF n = k + 1 THEN Considered(f[k], names[k + 1], st)
                                       ELSE f[n]]
  <2>2. ASSUME NEW n \in 0..(k + 1) PROVE g[n] = Turn(g, n)
    <3>1. CASE n = k + 1
      <4>1. g[n - 1] = f[k] /\ g[n] = Considered(f[k], names[k + 1], st)
        BY <3>1
      <4>2. QED
        BY <3>1, <4>1
    <3>2. CASE n = 0
      <4>1. g[n] = f[n] /\ f[n] = Turn(f, n)
        BY <2>1, <3>2
      <4>2. QED
        BY <3>2, <4>1
    <3>3. CASE n \in 1..k
      <4>1. g[n] = f[n] /\ g[n - 1] = f[n - 1]
        BY <3>3
      <4>2. f[n] = Turn(f, n)
        <5> HIDE DEF Turn
        <5> QED BY <2>1, <3>3
      <4>3. QED
        BY <3>3, <4>1, <4>2
    <3>4. QED
      BY <3>1, <3>2, <3>3
  <2>3. g = [n \in 0..(k + 1) |-> Turn(g, n)]
    <3>1. g = [n \in 0..(k + 1) |-> g[n]]
      OBVIOUS
    <3> HIDE DEF g, Turn
    <3>2. QED
      BY <2>2, <3>1
  <2>4. \E h : h = [n \in 0..(k + 1) |-> Turn(h, n)]
    <3> HIDE DEF g, Turn
    <3> QED BY <2>3
  <2>5. QED
    BY <2>4
<1>3. Len(names) \in S
  <2> HIDE DEF S
  <2> QED BY <1>1, <1>2, InductionOnNat
<1>4. QED
  BY <1>3 DEF Considers


\* A route as it should be: engines with an adapter, none of them twice.
Distinct(r) == \A i, j \in 1..Len(r) : r[i] = r[j] => i = j

Proper(r) == r \in Seq(Registered) /\ Distinct(r)

\* A turn of the loop keeps a route proper: the name it adds is new.
LEMMA ConsideredProper ==
    ASSUME NEW r, Proper(r), NEW name, NEW st
    PROVE  Proper(Considered(r, name, st))
<1>1. CASE Eligible(st, name) /\ name \notin ToSet(r)
  <2>1. Considered(r, name, st) = Append(r, name) /\ name \in Registered
    BY <1>1 DEF Considered, Eligible, Usable
  <2>2. \A i \in 1..Len(r) : r[i] # name
    BY <1>1 DEF ToSet, Proper
  <2>3. QED
    BY <2>1, <2>2 DEF Proper, Distinct
<1>2. QED
  BY <1>1 DEF Considered

\* Whatever is healthy and in whatever order it is preferred, the candidates are
\* engines with an adapter, none of them twice (assemble_candidates).
LEMMA AssembleProper ==
    ASSUME NEW primary, NEW st
    PROVE  Proper(Assemble(primary, st))
<1> DEFINE names == <<primary>> \o Preference
           f == CHOOSE f : Considers(f, names, st)
           S == {k \in Nat : k <= Len(names) => Proper(f[k])}
<1>1. Len(names) \in Nat
  <2>1. Preference \in Seq({primary} \cup ToSet(Preference))
    BY PolicyConstantsOK
  <2>2. <<primary>> \in Seq({primary} \cup ToSet(Preference))
    OBVIOUS
  <2>3. QED
    BY <2>1, <2>2
<1>2. Assemble(primary, st) = f[Len(names)]
  BY DEF Assemble, Considers, Considered
<1>3. Considers(f, names, st)
  <2> HIDE DEF names
  <2> QED BY <1>1, RouteExists
<1> HIDE DEF names, f
<1>4. 0 \in S
  <2>1. f[0] = <<>>
    BY <1>1, <1>3 DEF Considers
  <2>2. <<>> \in Seq(Registered) /\ Len(<<>>) = 0
    OBVIOUS
  <2>3. Proper(<<>>)
    BY <2>2 DEF Proper, Distinct
  <2>4. QED
    BY <2>1, <2>3
<1>5. ASSUME NEW k \in Nat, k \in S
      PROVE  k + 1 \in S
  <2>1. SUFFICES ASSUME k + 1 <= Len(names) PROVE Proper(f[k + 1])
    BY <1>1
  <2>2. f[k + 1] = Considered(f[k], names[k + 1], st)
    <3>1. k + 1 \in 0..Len(names) /\ k + 1 # 0 /\ (k + 1) - 1 = k
      BY <1>1, <2>1
    <3>2. QED
      BY <1>3, <3>1 DEF Considers
  <2>3. Proper(f[k])
    BY <1>1, <1>5, <2>1
  <2>4. QED
    BY <2>2, <2>3, ConsideredProper
<1>6. Len(names) \in S
  <2> HIDE DEF S
  <2>1. Len(names) \in Nat
    BY <1>1
  <2>2. QED
    BY <1>4, <1>5, <2>1, InductionOnNat
<1>7. QED
  BY <1>1, <1>2, <1>6

-----------------------------------------------------------------------------
(***************************************************************************)
(* decide() and prepare(): what a request may start.                       *)
(***************************************************************************)
\* What a class of requests lets an engine be.
Permitted(class, e) ==
    /\ class = "sensitive" => e = "local"
    /\ class = "untrusted" => e = "opencode"
    /\ class = "messaging" => e = "hermes"
    /\ class \in Registered => e = class

\* A run that is to start: its route and its class fit together.
Startable(run) ==
    /\ run.class \in Classes \cup Registered
    /\ run.route # <<>> /\ Proper(run.route)
    /\ \A i \in 1..Len(run.route) : Permitted(run.class, run.route[i])
    /\ run.class = "no fallback" => Len(run.route) = 1

\* A request is of one of the classes, and an engine is never mistaken for one.
LEMMA ClassesApart ==
    ASSUME NEW e \in Registered
    PROVE  e \notin Classes /\ e # "auto" /\ e \in Classes \cup Registered
BY OrchestrationConstantsOK, PolicyConstantsOK

\* A route of one engine is proper.
LEMMA OneProper ==
    ASSUME NEW e \in Registered
    PROVE  /\ <<e>> # <<>> /\ Len(<<e>>) = 1 /\ <<e>>[1] = e /\ Head(<<e>>) = e
           /\ Proper(<<e>>)
<1>1. <<e>> \in Seq(Registered) /\ Len(<<e>>) = 1 /\ <<e>>[1] = e
  OBVIOUS
<1>2. QED
  BY <1>1 DEF Proper, Distinct

\* A run of one engine that its class permits may start.
LEMMA OneStartable ==
    ASSUME NEW e \in Registered, NEW run, run.route = <<e>>,
           run.class \in Classes \cup Registered,
           Permitted(run.class, e)
    PROVE  Startable(run)
<1>1. run.route # <<>> /\ Proper(run.route) /\ Len(run.route) = 1 /\ run.route[1] = e
  BY OneProper
<1>2. \A i \in 1..Len(run.route) : run.route[i] = e
  BY <1>1
<1>3. QED
  BY <1>1, <1>2 DEF Startable

\* What each class permits.
LEMMA PermittedFacts ==
    /\ Permitted("sensitive", "local")
    /\ Permitted("untrusted", "opencode")
    /\ Permitted("messaging", "hermes")
    /\ \A e : Permitted("no fallback", e) /\ Permitted("open", e)
    /\ \A e \in Registered : Permitted(e, e)
<1>1. /\ "sensitive" \notin Registered /\ "untrusted" \notin Registered
      /\ "messaging" \notin Registered /\ "no fallback" \notin Registered /\ "open" \notin Registered
  BY OrchestrationConstantsOK DEF Classes
<1>2. \A e \in Registered : Permitted(e, e)
  BY <1>1 DEF Permitted
<1>3. QED
  BY <1>1, <1>2 DEF Permitted

\* What decide() gives a request that it does not refuse, by the rule that
\* decides it.
LEMMA DecideCases ==
    ASSUME NEW req \in Requests, NEW st \in Statuses, Decide(req, st) # Refused
    PROVE  LET d == Decide(req, st)
           IN /\ d.engine \in Registered
              /\ \/ /\ req.sensitive
                    /\ d = Decision("local", NoAgent, <<>>)
                 \/ /\ ~req.sensitive /\ req.untrusted
                    /\ d = Decision("opencode", Sandbox, <<>>)
                 \/ /\ ~req.sensitive /\ ~req.untrusted /\ req.engine # "auto"
                    /\ d.engine = req.engine /\ d.candidates = <<req.engine>>
                 \/ /\ ~req.sensitive /\ ~req.untrusted /\ req.engine = "auto"
                    /\ req.topic = "messaging"
                    /\ d = Decision("hermes", NoAgent, <<>>)
                 \/ /\ ~req.sensitive /\ ~req.untrusted /\ req.engine = "auto"
                    /\ req.topic # "messaging"
                    /\ Proper(d.candidates)
<1> DEFINE d == Decide(req, st)
<1>1. CASE req.sensitive
  BY <1>1 DEF Decide, Eligible, Usable, Decision, Refused
<1>2. CASE ~req.sensitive /\ req.untrusted
  BY <1>2, PolicyConstantsOK DEF Decide, Decision, Refused
<1>3. CASE ~req.sensitive /\ ~req.untrusted /\ req.engine # "auto"
  BY <1>3 DEF Decide, DecideExplicit, Usable, Decision, Refused
<1>4. CASE ~req.sensitive /\ ~req.untrusted /\ req.engine = "auto" /\ req.topic = "messaging"
  BY <1>4 DEF Decide, DecideAuto, Usable, Decision, Refused
<1>5. CASE ~req.sensitive /\ ~req.untrusted /\ req.engine = "auto" /\ req.topic # "messaging"
  <2>1. d = DecideAuto(req, st) /\ d # Refused
    BY <1>5 DEF Decide
  <2>2. \/ \E e \in {"hermes", "prime", "direct", "opencode"} : \E a :
               e \in Registered /\ d = Open(e, a, st)
        \/ d = Decision("prime", NoAgent, <<>>) /\ "prime" \in Registered
    <3> HIDE DEF d
    <3> QED BY <1>5, <2>1, PolicyConstantsOK DEF DecideAuto, Usable
  <2>3. \A e, a :
           Open(e, a, st).engine = e /\ Proper(Open(e, a, st).candidates)
    BY AssembleProper DEF Open, Decision
  <2>4. Proper(<<>>)
    BY DEF Proper, Distinct
  <2>5. d.engine \in Registered /\ Proper(d.candidates)
    <3> HIDE DEF d
    <3>1. CASE d = Decision("prime", NoAgent, <<>>) /\ "prime" \in Registered
      BY <2>4, <3>1 DEF Decision
    <3>2. CASE \E e \in {"hermes", "prime", "direct", "opencode"} : \E a :
                  e \in Registered /\ d = Open(e, a, st)
      BY <2>3, <3>2
    <3>3. QED
      BY <2>2, <3>1, <3>2
  <2>6. QED
    BY <1>5, <2>5
<1>6. QED
  BY <1>1, <1>2, <1>3, <1>4, <1>5

\* prepare() starts no run that its class forbids, through the orchestrator or
\* in the foreground.
LEMMA StartsStartable ==
    ASSUME NEW req \in Requests, NEW run \in Starts(req)
    PROVE  /\ Startable(run)
           /\ run = [at |-> "before", class |-> run.class, route |-> run.route,
                     sandboxed |-> run.sandboxed, tries |-> 0, row |-> Closed, ran |-> NotRun]
           /\ run.sandboxed \in BOOLEAN
<1>1. PICK st \in Statuses :
        /\ Decide(req, st) # Refused
        /\ \/ run = Routed(req, Decide(req, st))
           \/ req.engine # "auto" /\ run = Foreground(req, Decide(req, st))
  BY DEF Starts
<1> DEFINE d == Decide(req, st)
<1>2. /\ d.engine \in Registered
      /\ \/ /\ req.sensitive
            /\ d = Decision("local", NoAgent, <<>>)
         \/ /\ ~req.sensitive /\ req.untrusted
            /\ d = Decision("opencode", Sandbox, <<>>)
         \/ /\ ~req.sensitive /\ ~req.untrusted /\ req.engine # "auto"
            /\ d.engine = req.engine /\ d.candidates = <<req.engine>>
         \/ /\ ~req.sensitive /\ ~req.untrusted /\ req.engine = "auto"
            /\ req.topic = "messaging"
            /\ d = Decision("hermes", NoAgent, <<>>)
         \/ /\ ~req.sensitive /\ ~req.untrusted /\ req.engine = "auto"
            /\ req.topic # "messaging"
            /\ Proper(d.candidates)
  BY <1>1, DecideCases
<1> HIDE DEF d
<1> DEFINE class == ClassOf(req)
<1>3. /\ req.sensitive => class = "sensitive" /\ d.engine = "local"
      /\ ~req.sensitive /\ req.untrusted =>
            class = "untrusted" /\ d.engine = "opencode"
      /\ ~req.sensitive /\ ~req.untrusted /\ req.engine # "auto" =>
            class = req.engine /\ d.engine = req.engine
      /\ ~req.sensitive /\ ~req.untrusted /\ req.engine = "auto" /\ req.topic = "messaging" =>
            class = "messaging" /\ d.engine = "hermes"
      /\ ~req.sensitive /\ ~req.untrusted /\ req.engine = "auto" /\ req.topic # "messaging" =>
            class = IF req.no_fallback THEN "no fallback" ELSE "open"
  <2>1. CASE req.sensitive
    BY <1>2, <2>1 DEF ClassOf, Decision
  <2>2. CASE ~req.sensitive /\ req.untrusted
    BY <1>2, <2>2 DEF ClassOf, Decision
  <2>3. CASE ~req.sensitive /\ ~req.untrusted /\ req.engine # "auto"
    BY <1>2, <2>3 DEF ClassOf
  <2>4. CASE ~req.sensitive /\ ~req.untrusted /\ req.engine = "auto"
    <3>1. CASE req.topic = "messaging"
      BY <1>2, <2>4, <3>1 DEF ClassOf, Decision
    <3>2. CASE req.topic # "messaging"
      BY <2>4, <3>2 DEF ClassOf
    <3>3. QED
      BY <2>4, <3>1, <3>2
  <2>5. QED
    BY <2>1, <2>2, <2>3, <2>4
<1>4. \A c \in Classes : c \notin Registered
  BY ClassesApart
<1>5. /\ "sensitive" \in Classes /\ "untrusted" \in Classes /\ "messaging" \in Classes
      /\ "no fallback" \in Classes /\ "open" \in Classes
  BY DEF Classes
<1> HIDE DEF class
<1>6. CASE req.engine # "auto" /\ run = Foreground(req, d)
  <2>1. /\ run.class = class /\ run.route = <<d.engine>> /\ run.sandboxed \in BOOLEAN
        /\ run = [at |-> "before", class |-> run.class, route |-> run.route,
                  sandboxed |-> run.sandboxed, tries |-> 0, row |-> Closed, ran |-> NotRun]
    BY <1>6 DEF Foreground, Run, class
  <2>2. CASE req.sensitive
    BY <1>2, <1>3, <1>5, <2>1, <2>2, PermittedFacts, OneStartable
  <2>3. CASE ~req.sensitive /\ req.untrusted
    BY <1>2, <1>3, <1>5, <2>1, <2>3, PermittedFacts, OneStartable
  <2>4. CASE ~req.sensitive /\ ~req.untrusted
    <3>1. run.class = d.engine
      BY <1>2, <1>3, <1>6, <2>1, <2>4
    <3>2. Permitted(run.class, d.engine)
      BY <1>2, <3>1, PermittedFacts
    <3>3. QED
      BY <1>2, <2>1, <3>1, <3>2, OneStartable
  <2>5. QED
    BY <2>1, <2>2, <2>3, <2>4
<1>7. CASE run = Routed(req, d)
  <2>1. /\ run.class = class /\ run.route = Route(req, d)
        /\ run.sandboxed = (AgentFor(d, Head(Route(req, d))) = Sandbox)
        /\ run = [at |-> "before", class |-> run.class, route |-> run.route,
                  sandboxed |-> run.sandboxed, tries |-> 0, row |-> Closed, ran |-> NotRun]
    BY <1>7 DEF Routed, Run, class
  <2>2. CASE req.sensitive \/ req.untrusted \/ req.engine # "auto" \/ req.topic = "messaging"
    <3>1. Candidates(d) = <<d.engine>>
      BY <1>2, <2>2 DEF Candidates, Decision
    <3>2. Route(req, d) = <<d.engine>> /\ Head(Route(req, d)) = d.engine
      BY <3>1 DEF Route
    <3>3. Permitted(class, d.engine) /\ class \in Classes \cup Registered
      <4>1. CASE req.sensitive
        BY <1>3, <1>5, <4>1, PermittedFacts
      <4>2. CASE ~req.sensitive /\ req.untrusted
        BY <1>3, <1>5, <4>2, PermittedFacts
      <4>3. CASE ~req.sensitive /\ ~req.untrusted /\ req.engine # "auto"
        BY <1>2, <1>3, <4>3, PermittedFacts
      <4>4. CASE ~req.sensitive /\ ~req.untrusted /\ req.engine = "auto"
        BY <1>3, <1>5, <2>2, <4>4, PermittedFacts
      <4>5. QED
        BY <4>1, <4>2, <4>3, <4>4
    <3>4. QED
      BY <1>2, <2>1, <3>2, <3>3, OneStartable
  <2>3. CASE ~(req.sensitive \/ req.untrusted \/ req.engine # "auto" \/ req.topic = "messaging")
    <3>1. Proper(Candidates(d)) /\ Candidates(d) # <<>>
      BY <1>2, <2>3, OneProper DEF Candidates
    <3>2. Head(Candidates(d)) \in Registered
      BY <3>1 DEF Proper
    <3>3. /\ Proper(Route(req, d)) /\ Route(req, d) # <<>>
          /\ req.no_fallback => Len(Route(req, d)) = 1
      BY <3>1, <3>2, OneProper DEF Route
    <3>4. class = IF req.no_fallback THEN "no fallback" ELSE "open"
      BY <1>3, <2>3
    <3>5. class \in Classes /\ class \notin Registered
      BY <1>4, <1>5, <3>4
    <3>6. class # "untrusted" /\ (class = "no fallback" => req.no_fallback)
      BY <3>4
    <3>7. \A e : Permitted(class, e)
      BY <3>4, PermittedFacts
    <3>8. QED
      BY <2>1, <3>3, <3>5, <3>6, <3>7 DEF Startable
  <2>4. QED
    BY <2>1, <2>2, <2>3
<1>8. QED
  BY <1>1, <1>6, <1>7 DEF d

-----------------------------------------------------------------------------
(***************************************************************************)
(* The inductive invariant: a run is somewhere on a proper route, it has   *)
(* run the engines before its place and those of its route as often as its *)
(* place says, and every row and every copy of a row is sound.             *)
(***************************************************************************)
Rows ==
    [state : {"closed", "open", "half_open"}, failures : 0..Threshold,
     opened : {"never", "recently", "long ago"}, cooldown : 1..MaxCooldown]

Places == {"before", "half open", "invoke", "succeeded", "failed", "failure",
           "view", "view save"}

RunRecord ==
    [at : Places, class : Classes \cup Registered, route : Seq(Registered),
     sandboxed : BOOLEAN, tries : Nat, row : Rows, ran : [Registered -> Nat]]

\* The engine of its place has been run once for each try.
Counted(run) ==
    /\ run.tries <= Retries
    /\ \A e \in Registered : run.ran[e] <= Retries + 1
    /\ \A i \in 2..Len(run.route) : run.ran[run.route[i]] = 0
    /\ run.at \in {"before", "half open"} => run.tries = 0 /\ run.ran[run.route[1]] = 0
    /\ run.at = "invoke" => run.ran[run.route[1]] = run.tries

\* It has run no engine that its class forbids, and will run none.
Lawful(run) ==
    /\ Startable(run)
    /\ \A e \in Registered : run.ran[e] > 0 => Permitted(run.class, e)
    /\ run.class = "no fallback" =>
          \A e \in Registered : run.ran[e] > 0 => e = run.route[1]

\* A row that is saved half open was read open, and its cooldown was over.
SoundCopy(run) ==
    /\ RowOK(run.row)
    /\ run.at \in {"half open", "view save"} => Due(run.row)

RunOK(run) == run \in RunRecord /\ Counted(run) /\ Lawful(run) /\ SoundCopy(run)

IInv ==
    /\ breaker \in [Registered -> Rows]
    /\ \A e \in Registered : RowOK(breaker[e])
    /\ proc \in [Procs -> {Idle} \cup RunRecord]
    /\ \A p \in Procs : proc[p] = Idle \/ RunOK(proc[p])

-----------------------------------------------------------------------------
\* The rows that before(), failure() and success() save are sound, if the ones
\* they read are.
LEMMA RowFacts ==
    /\ Closed \in Rows /\ RowOK(Closed)
    /\ \A row \in Rows : RowOK(row) => Failed(row) \in Rows /\ RowOK(Failed(row))
    /\ \A row \in Rows :
          RowOK(row) /\ Due(row) => HalfOpened(row) \in Rows /\ RowOK(HalfOpened(row))
<1>0. Threshold \in Nat \ {0} /\ MaxCooldown \in Nat \ {0}
  BY OrchestrationConstantsOK
<1>1. Closed \in Rows /\ RowOK(Closed)
  BY <1>0 DEF Closed, Row, Rows, RowOK
<1>2. ASSUME NEW row \in Rows, RowOK(row)
      PROVE  Failed(row) \in Rows /\ RowOK(Failed(row))
  <2> DEFINE n == Least(row.failures + 1, Threshold)
             c == Least(MaxCooldown, 2 * row.cooldown)
  <2>0. row.failures \in 0..Threshold /\ row.cooldown \in 1..MaxCooldown
    BY DEF Rows
  <2>1. n \in 1..Threshold /\ n \in 0..Threshold /\ c \in 1..MaxCooldown
    BY <1>0, <2>0 DEF Least
  <2>2. CASE n = Threshold \/ row.state = "half_open"
    <3>1. Failed(row) = Row("open", n, "recently", c)
      BY <2>2 DEF Failed
    <3> HIDE DEF n, c
    <3>2. Row("open", n, "recently", c) \in Rows /\ RowOK(Row("open", n, "recently", c))
      BY <2>1 DEF Row, Rows, RowOK
    <3>3. QED
      BY <3>1, <3>2
  <2>3. CASE ~(n = Threshold \/ row.state = "half_open")
    <3>1. Failed(row) = [row EXCEPT !.failures = n]
      BY <2>3 DEF Failed
    <3>2. n < Threshold
      BY <1>0, <2>1, <2>3
    <3> HIDE DEF n, c
    <3>3. [row EXCEPT !.failures = n] \in Rows
      BY <2>1 DEF Rows
    <3>4. RowOK([row EXCEPT !.failures = n])
      BY <1>2, <2>1, <3>2 DEF Rows, RowOK
    <3>5. QED
      BY <3>1, <3>3, <3>4
  <2>4. QED
    BY <2>2, <2>3
<1>3. ASSUME NEW row \in Rows, RowOK(row), Due(row)
      PROVE  HalfOpened(row) \in Rows /\ RowOK(HalfOpened(row))
  BY <1>3 DEF Rows, RowOK, Due, HalfOpened
<1>4. QED
  BY <1>1, <1>2, <1>3

\* The engine of a run is the first of its route and has an adapter.
LEMMA EngineFacts ==
    ASSUME NEW run, RunOK(run)
    PROVE  /\ Head(run.route) = run.route[1] /\ run.route[1] \in Registered
           /\ run.route \in Seq(Registered) /\ Len(run.route) \in Nat \ {0}
           /\ run \in RunRecord /\ run.at # "idle" /\ run # Idle
           /\ Permitted(run.class, run.route[1])
<1>1. run \in RunRecord /\ run.route # <<>> /\ run.route \in Seq(Registered)
  BY DEF RunOK, Lawful, Startable, Proper
<1>2. run.at # "idle" /\ run # Idle
  <2>1. run.at \in Places
    BY <1>1 DEF RunRecord
  <2>2. Idle.at = "idle"
    BY DEF Idle
  <2>3. QED
    BY <2>1, <2>2 DEF Places
<1>3. Len(run.route) \in Nat \ {0} /\ Head(run.route) = run.route[1]
      /\ run.route[1] \in Registered
  BY <1>1
<1>4. Permitted(run.class, run.route[1])
  <2>1. 1 \in 1..Len(run.route)
    BY <1>3
  <2>2. QED
    BY <2>1 DEF RunOK, Lawful, Startable
<1>5. QED
  BY <1>1, <1>2, <1>3, <1>4

\* What Skipped(p) makes of a run.
Skip(run) ==
    IF Len(run.route) = 1 THEN Idle
    ELSE [run EXCEPT !.at = "before", !.route = Tail(@), !.tries = 0, !.row = Closed]

\* After the engine of its place a run goes on with one that it has not run.
LEMMA SkipOK ==
    ASSUME NEW run, RunOK(run)
    PROVE  Skip(run) = Idle \/ RunOK(Skip(run))
<1> DEFINE s == [run EXCEPT !.at = "before", !.route = Tail(@), !.tries = 0, !.row = Closed]
<1>1. SUFFICES ASSUME Len(run.route) # 1 PROVE RunOK(s)
  BY DEF Skip
<1>2. /\ run \in RunRecord /\ run.route \in Seq(Registered) /\ Len(run.route) \in Nat \ {0}
      /\ Counted(run) /\ Lawful(run) /\ Startable(run) /\ Distinct(run.route)
  BY EngineFacts DEF RunOK, Lawful, Startable, Proper
<1>3. /\ s \in RunRecord /\ s.at = "before" /\ s.tries = 0 /\ s.row = Closed /\ s.ran = run.ran
      /\ s.class = run.class /\ s.sandboxed = run.sandboxed /\ s.route = Tail(run.route)
  <2>1. Tail(run.route) \in Seq(Registered) /\ "before" \in Places /\ 0 \in Nat
    BY <1>1, <1>2 DEF Places
  <2>2. QED
    BY <1>2, <2>1, RowFacts DEF RunRecord
<1>4. /\ s.route \in Seq(Registered) /\ s.route # <<>>
      /\ Len(s.route) = Len(run.route) - 1
      /\ \A i \in 1..Len(s.route) : s.route[i] = run.route[i + 1] /\ i + 1 \in 2..Len(run.route)
      /\ 1 \in 1..Len(s.route)
  <2> HIDE DEF s
  <2> DEFINE r == run.route
             t == Tail(r)
  <2>0. r \in Seq(Registered) /\ r # <<>> /\ Len(r) # 1 /\ Len(r) \in Nat \ {0}
    BY <1>1, <1>2
  <2> HIDE DEF r
  <2>1. Len(r) \in Nat /\ Len(r) >= 2
    BY <2>0
  <2>2. /\ t \in Seq(Registered) /\ Len(t) = Len(r) - 1 /\ t # <<>>
        /\ \A i \in 1..Len(t) : t[i] = r[i + 1]
    <3>1. /\ t \in Seq(Registered) /\ Len(t) = Len(r) - 1
          /\ \A i \in 1..Len(t) : t[i] = r[i + 1]
      BY <2>0, HeadTailProperties
    <3> HIDE DEF t
    <3>2. t # <<>>
      BY <2>1, <3>1
    <3>3. QED
      BY <3>1, <3>2
  <2> HIDE DEF t
  <2>3. /\ \A i \in 1..Len(t) : i + 1 \in 2..Len(r)
        /\ 1 \in 1..Len(t)
    BY <2>1, <2>2
  <2>4. s.route = t
    BY <1>3 DEF r, t
  <2>5. QED
    BY <2>2, <2>3, <2>4 DEF r
<1> HIDE DEF s
<1>5. Distinct(s.route)
  BY <1>2, <1>4 DEF Distinct
<1>6. Startable(s)
  <2>1. \A i \in 1..Len(s.route) : Permitted(s.class, s.route[i])
    <3>1. \A i \in 1..Len(run.route) : Permitted(run.class, run.route[i])
      BY <1>2 DEF Startable
    <3>2. QED
      BY <1>2, <1>3, <1>4, <3>1
  <2>2. s.class # "no fallback"
    BY <1>1, <1>2, <1>3 DEF Startable
  <2>3. QED
    BY <1>2, <1>3, <1>4, <1>5, <2>1, <2>2 DEF Startable, Proper
<1>7. Counted(s)
  <2>1. \A i \in 1..Len(s.route) : s.ran[s.route[i]] = 0
    BY <1>2, <1>3, <1>4 DEF Counted
  <2>2. /\ \A i \in 2..Len(s.route) : i \in 1..Len(s.route)
        /\ s.at # "invoke" /\ s.tries <= Retries
    BY <1>2, <1>3, <1>4, OrchestrationConstantsOK
  <2>3. \A e \in Registered : s.ran[e] <= Retries + 1
    BY <1>2, <1>3 DEF Counted
  <2>4. QED
    BY <1>3, <1>4, <2>1, <2>2, <2>3 DEF Counted
<1>8. Lawful(s)
  BY <1>1, <1>2, <1>3, <1>6 DEF Lawful, Startable
<1>9. SoundCopy(s)
  BY <1>3, RowFacts DEF SoundCopy
<1>10. QED
  BY <1>3, <1>7, <1>8, <1>9 DEF RunOK

\* A run that goes on somewhere else on its route, with nothing run since.
LEMMA MoveOK ==
    ASSUME NEW run, RunOK(run),
           NEW at \in Places \ {"before", "half open", "invoke", "view save"},
           NEW row \in Rows, RowOK(row)
    PROVE  RunOK([run EXCEPT !.at = at, !.row = row])
<1> DEFINE s == [run EXCEPT !.at = at, !.row = row]
<1>1. /\ s \in RunRecord /\ s.at = at /\ s.row = row
      /\ s.tries = run.tries /\ s.ran = run.ran /\ s.class = run.class
      /\ s.route = run.route /\ s.sandboxed = run.sandboxed
  BY DEF RunOK, RunRecord
<1> HIDE DEF s
<1>2. Counted(s)
  BY <1>1 DEF RunOK, Counted
<1>3. Lawful(s)
  BY <1>1 DEF RunOK, Lawful, Startable
<1>4. SoundCopy(s)
  BY <1>1 DEF SoundCopy
<1>5. QED
  BY <1>1, <1>2, <1>3, <1>4 DEF RunOK, s

\* A run that has been let through to the engine of its place.
LEMMA LetThroughOK ==
    ASSUME NEW run, RunOK(run), run.at \in {"before", "half open"},
           NEW row \in Rows, RowOK(row)
    PROVE  RunOK([run EXCEPT !.at = "invoke", !.row = row])
<1> DEFINE s == [run EXCEPT !.at = "invoke", !.row = row]
<1>1. /\ s \in RunRecord /\ s.at = "invoke" /\ s.row = row
      /\ s.tries = run.tries /\ s.ran = run.ran /\ s.class = run.class
      /\ s.route = run.route /\ s.sandboxed = run.sandboxed
  BY DEF RunOK, RunRecord, Places
<1> HIDE DEF s
<1>2. Counted(s)
  BY <1>1 DEF RunOK, Counted
<1>3. Lawful(s)
  BY <1>1 DEF RunOK, Lawful, Startable
<1>4. SoundCopy(s)
  BY <1>1 DEF SoundCopy
<1>5. QED
  BY <1>1, <1>2, <1>3, <1>4 DEF RunOK, s

\* A run that has read an open row whose cooldown is over.
LEMMA HalfOpenOK ==
    ASSUME NEW run, RunOK(run),
           NEW at \in {"half open", "view save"}, at = "half open" => run.at = "before",
           NEW row \in Rows, RowOK(row), Due(row)
    PROVE  RunOK([run EXCEPT !.at = at, !.row = row])
<1> DEFINE s == [run EXCEPT !.at = at, !.row = row]
<1>1. /\ s \in RunRecord /\ s.at = at /\ s.row = row
      /\ s.tries = run.tries /\ s.ran = run.ran /\ s.class = run.class
      /\ s.route = run.route /\ s.sandboxed = run.sandboxed
  BY DEF RunOK, RunRecord, Places
<1> HIDE DEF s
<1>2. Counted(s)
  BY <1>1 DEF RunOK, Counted
<1>3. Lawful(s)
  BY <1>1 DEF RunOK, Lawful, Startable
<1>4. SoundCopy(s)
  BY <1>1 DEF SoundCopy
<1>5. QED
  BY <1>1, <1>2, <1>3, <1>4 DEF RunOK, s

\* A run that has run the engine of its place once more, whatever came of it.
LEMMA InvokedOK ==
    ASSUME NEW run, RunOK(run), run.at = "invoke",
           NEW at \in {"invoke", "succeeded", "failed"}, NEW tries \in Nat,
           tries = IF at = "invoke" THEN run.tries + 1 ELSE run.tries,
           at = "invoke" => RetriesLeft(run.tries)
    PROVE  RunOK([run EXCEPT !.at = at, !.tries = tries,
                             !.ran = [run.ran EXCEPT ![Head(run.route)] = @ + 1]])
<1> DEFINE e == run.route[1]
           ran == [run.ran EXCEPT ![e] = @ + 1]
           s == [run EXCEPT !.at = at, !.tries = tries, !.ran = ran]
<1>1. /\ Head(run.route) = e /\ e \in Registered /\ run \in RunRecord
      /\ run.route \in Seq(Registered) /\ Len(run.route) \in Nat \ {0}
      /\ Permitted(run.class, e) /\ Distinct(run.route)
  BY EngineFacts DEF RunOK, Lawful, Startable, Proper
<1>2. /\ run.ran \in [Registered -> Nat] /\ run.tries \in Nat
      /\ run.ran[e] = run.tries /\ run.tries <= Retries /\ Retries \in Nat
  BY <1>1, OrchestrationConstantsOK DEF RunRecord, RunOK, Counted
<1>3. /\ ran \in [Registered -> Nat] /\ ran[e] = run.tries + 1
      /\ \A f \in Registered : f # e => ran[f] = run.ran[f]
  BY <1>1, <1>2
<1> HIDE DEF ran, e
<1>4. /\ s \in RunRecord /\ s.at = at /\ s.row = run.row
      /\ s.tries = tries /\ s.ran = ran /\ s.class = run.class
      /\ s.route = run.route /\ s.sandboxed = run.sandboxed
  BY <1>1, <1>3 DEF RunRecord, Places
<1> HIDE DEF s
<1>5. Counted(s)
  <2>1. tries <= Retries
    BY <1>2 DEF RetriesLeft
  <2>2. ASSUME NEW f \in Registered PROVE ran[f] <= Retries + 1
    <3>1. CASE f = e
      BY <1>2, <1>3, <3>1
    <3>2. CASE f # e
      BY <1>3, <3>2 DEF RunOK, Counted
    <3>3. QED
      BY <3>1, <3>2
  <2>3. ASSUME NEW i \in 2..Len(run.route) PROVE ran[run.route[i]] = 0
    <3>1. i \in 1..Len(run.route) /\ 1 \in 1..Len(run.route) /\ i # 1
      BY <1>1
    <3>2. run.route[i] \in Registered /\ run.route[i] # e
      BY <1>1, <3>1 DEF Distinct, e
    <3>3. run.ran[run.route[i]] = 0
      BY DEF RunOK, Counted
    <3>4. QED
      BY <1>3, <3>2, <3>3
  <2>4. s.at = "invoke" => s.ran[s.route[1]] = s.tries
    BY <1>3, <1>4 DEF e
  <2>5. QED
    BY <1>4, <2>1, <2>2, <2>3, <2>4 DEF Counted
<1>6. Lawful(s)
  <2>1. Startable(s)
    BY <1>4 DEF RunOK, Lawful, Startable
  <2>2. ASSUME NEW f \in Registered, ran[f] > 0
        PROVE  /\ Permitted(run.class, f)
               /\ run.class = "no fallback" => f = run.route[1]
    <3>1. CASE f = e
      BY <1>1, <3>1 DEF e
    <3>2. CASE f # e
      BY <1>3, <2>2, <3>2 DEF RunOK, Lawful
    <3>3. QED
      BY <3>1, <3>2
  <2>3. QED
    BY <1>4, <2>1, <2>2 DEF Lawful
<1>7. SoundCopy(s)
  BY <1>4 DEF RunOK, SoundCopy
<1>8. RunOK(s)
  BY <1>4, <1>5, <1>6, <1>7 DEF RunOK
<1>9. QED
  BY <1>1, <1>8 DEF s, ran

\* A run that prepare() starts.
LEMMA StartOK ==
    ASSUME NEW p \in Procs, NEW run \in Runs[p]
    PROVE  RunOK(run)
<1>1. PICK req \in Asking[p] : run \in Starts(req)
  BY DEF Runs
<1>2. req \in Requests
  BY <1>1, OrchestrationConstantsOK
<1>3. /\ Startable(run)
      /\ run = [at |-> "before", class |-> run.class, route |-> run.route,
                sandboxed |-> run.sandboxed, tries |-> 0, row |-> Closed, ran |-> NotRun]
      /\ run.sandboxed \in BOOLEAN
  BY <1>1, <1>2, StartsStartable
<1>4. /\ run.at = "before" /\ run.tries = 0 /\ run.row = Closed /\ run.ran = NotRun
      /\ run.route \in Seq(Registered) /\ run.route # <<>> /\ run.class \in Classes \cup Registered
  <2>1. run.at = "before" /\ run.tries = 0 /\ run.row = Closed /\ run.ran = NotRun
    <3> DEFINE c == run.class
               r == run.route
               b == run.sandboxed
    <3>1. run = [at |-> "before", class |-> c, route |-> r, sandboxed |-> b, tries |-> 0,
                 row |-> Closed, ran |-> NotRun]
      BY <1>3
    <3> HIDE DEF c, r, b
    <3>2. QED
      BY <3>1
  <2>2. QED
    BY <1>3, <2>1 DEF Startable, Proper
<1>5. NotRun \in [Registered -> Nat] /\ \A e \in Registered : NotRun[e] = 0
  BY DEF NotRun
<1>6. run \in RunRecord
  <2> DEFINE c == run.class
             r == run.route
             b == run.sandboxed
  <2>1. run = [at |-> "before", class |-> c, route |-> r, sandboxed |-> b, tries |-> 0,
               row |-> Closed, ran |-> NotRun]
    BY <1>3
  <2>2. c \in Classes \cup Registered /\ r \in Seq(Registered) /\ b \in BOOLEAN
    BY <1>3, <1>4
  <2> HIDE DEF c, r, b
  <2>3. QED
    BY <1>5, <2>1, <2>2, RowFacts DEF RunRecord, Places
<1>7. Counted(run)
  <2>1. \A i \in 1..Len(run.route) : run.route[i] \in Registered
    BY <1>4
  <2>2. 1 \in 1..Len(run.route) /\ \A i \in 2..Len(run.route) : i \in 1..Len(run.route)
    BY <1>4
  <2>3. QED
    BY <1>4, <1>5, <2>1, <2>2, OrchestrationConstantsOK DEF Counted
<1>8. Lawful(run)
  <2>1. \A e \in Registered : ~(run.ran[e] > 0)
    BY <1>4, <1>5
  <2>2. QED
    BY <1>3, <2>1 DEF Lawful
<1>9. SoundCopy(run)
  BY <1>4, RowFacts DEF SoundCopy
<1>10. QED
  BY <1>6, <1>7, <1>8, <1>9 DEF RunOK

-----------------------------------------------------------------------------
\* A step changes what one process does and at most the row of one engine.
LEMMA OneRunStep ==
    ASSUME IInv, NEW p \in Procs, NEW run, run = Idle \/ RunOK(run), Becomes(p, run),
           \/ UNCHANGED breaker
           \/ \E e \in Registered, row \in Rows :
                 RowOK(row) /\ breaker' = [breaker EXCEPT ![e] = row]
    PROVE  IInv'
<1>1. /\ breaker' \in [Registered -> Rows]
      /\ \A e \in Registered : RowOK(breaker'[e])
  BY DEF IInv
<1>2. proc' = [proc EXCEPT ![p] = run] /\ run \in {Idle} \cup RunRecord
  BY DEF Becomes, RunOK
<1>3. /\ proc' \in [Procs -> {Idle} \cup RunRecord]
      /\ proc'[p] = run
      /\ \A q \in Procs : q # p => proc'[q] = proc[q]
  BY <1>2 DEF IInv
<1>4. \A q \in Procs : proc'[q] = Idle \/ RunOK(proc'[q])
  BY <1>3 DEF IInv
<1>5. QED
  BY <1>1, <1>3, <1>4 DEF IInv

\* What is known of a process that is somewhere.
LEMMA DoingFacts ==
    ASSUME IInv, NEW p \in Procs, ~Doing(p, "idle")
    PROVE  /\ RunOK(proc[p]) /\ Engine(p) \in Registered /\ Engine(p) = Head(proc[p].route)
           /\ proc[p] \in RunRecord /\ proc[p].row \in Rows /\ RowOK(proc[p].row)
           /\ breaker[Engine(p)] \in Rows /\ RowOK(breaker[Engine(p)])
           /\ Skipped(p) = Idle \/ RunOK(Skipped(p))
<1>1. RunOK(proc[p])
  BY DEF IInv, Doing, Idle
<1>2. /\ Engine(p) \in Registered /\ Engine(p) = Head(proc[p].route)
      /\ proc[p] \in RunRecord
  BY <1>1, EngineFacts DEF Engine
<1>3. proc[p].row \in Rows /\ RowOK(proc[p].row)
  BY <1>1, <1>2 DEF RunRecord, RunOK, SoundCopy
<1>4. Skipped(p) = Skip(proc[p])
  BY DEF Skipped, Skip
<1>5. QED
  BY <1>1, <1>2, <1>3, <1>4, SkipOK DEF IInv

\* prepare() starts a run of the request's class.
LEMMA PrepareStep ==
    ASSUME IInv, NEW p \in Procs, Prepare(p)
    PROVE  IInv'
<1>1. PICK run \in Runs[p] : Becomes(p, run) /\ UNCHANGED breaker
  BY DEF Prepare
<1>2. RunOK(run)
  BY <1>1, StartOK
<1>3. QED
  BY <1>1, <1>2, OneRunStep

\* before() reads a row, and lets the run through, skips the engine or goes on to
\* save the row half open.
LEMMA BeforeStep ==
    ASSUME IInv, NEW p \in Procs, Before(p)
    PROVE  IInv'
<1> DEFINE row == breaker[Engine(p)]
<1>1. Doing(p, "before") /\ ~Doing(p, "idle") /\ proc[p].at = "before" /\ UNCHANGED breaker
  BY DEF Before, Doing
<1>2. /\ RunOK(proc[p]) /\ proc[p] \in RunRecord /\ row \in Rows /\ RowOK(row)
      /\ proc[p].row \in Rows /\ RowOK(proc[p].row)
      /\ Skipped(p) = Idle \/ RunOK(Skipped(p))
  BY <1>1, DoingFacts
<1>3. CASE Becomes(p, Skipped(p))
  BY <1>1, <1>2, <1>3, OneRunStep
<1>4. CASE Due(row) /\ Becomes(p, [proc[p] EXCEPT !.at = "half open", !.row = row])
  <2>1. RunOK([proc[p] EXCEPT !.at = "half open", !.row = row])
    BY <1>1, <1>2, <1>4, HalfOpenOK
  <2>2. QED
    BY <1>1, <1>4, <2>1, OneRunStep
<1>5. CASE Goes(p, "invoke")
  <2>1. RunOK([proc[p] EXCEPT !.at = "invoke", !.row = proc[p].row])
    BY <1>1, <1>2, LetThroughOK
  <2>2. [proc[p] EXCEPT !.at = "invoke", !.row = proc[p].row] = [proc[p] EXCEPT !.at = "invoke"]
    BY <1>2 DEF RunRecord
  <2>3. QED
    BY <1>1, <1>5, <2>1, <2>2, OneRunStep DEF Goes
<1>6. QED
  BY <1>3, <1>4, <1>5 DEF Before

\* before() saves the row that it read, half open.
LEMMA BeforeSaveStep ==
    ASSUME IInv, NEW p \in Procs, BeforeSave(p)
    PROVE  IInv'
<1>1. Doing(p, "half open") /\ ~Doing(p, "idle") /\ proc[p].at = "half open"
  BY DEF BeforeSave, Doing
<1>2. RunOK(proc[p]) /\ Engine(p) \in Registered /\ proc[p].row \in Rows /\ RowOK(proc[p].row)
  BY <1>1, DoingFacts
<1>3. Due(proc[p].row)
  BY <1>1, <1>2 DEF RunOK, SoundCopy
<1>4. RunOK([proc[p] EXCEPT !.at = "invoke", !.row = Closed])
  BY <1>1, <1>2, LetThroughOK, RowFacts
<1>5. HalfOpened(proc[p].row) \in Rows /\ RowOK(HalfOpened(proc[p].row))
  BY <1>2, <1>3, RowFacts
<1>6. QED
  BY <1>2, <1>4, <1>5, OneRunStep DEF BeforeSave, Saves

\* An engine is run once more.
LEMMA InvokeStep ==
    ASSUME IInv, NEW p \in Procs, Invoke(p)
    PROVE  IInv'
<1> DEFINE ran == [proc[p].ran EXCEPT ![Head(proc[p].route)] = @ + 1]
           To(at, tries) == [proc[p] EXCEPT !.at = at, !.tries = tries, !.ran = ran]
           tries == proc[p].tries
<1>1. Doing(p, "invoke") /\ ~Doing(p, "idle") /\ proc[p].at = "invoke" /\ UNCHANGED breaker
  BY DEF Invoke, Doing
<1>2. RunOK(proc[p]) /\ proc[p] \in RunRecord /\ tries \in Nat
  BY <1>1, DoingFacts DEF RunRecord
<1>3. /\ [proc[p] EXCEPT !.at = "succeeded", !.ran = ran] = To("succeeded", tries)
      /\ [proc[p] EXCEPT !.at = "failed", !.ran = ran] = To("failed", tries)
      /\ [proc[p] EXCEPT !.tries = @ + 1, !.ran = ran] = To("invoke", tries + 1)
  <2> HIDE DEF ran
  <2>1. QED
    BY <1>1, <1>2 DEF RunRecord
<1>4. \/ Becomes(p, To("succeeded", tries))
      \/ Becomes(p, To("failed", tries))
      \/ RetriesLeft(tries) /\ Becomes(p, To("invoke", tries + 1))
  BY <1>3 DEF Invoke, Engine
<1>5. /\ RunOK(To("succeeded", tries))
      /\ RunOK(To("failed", tries))
      /\ RetriesLeft(tries) => RunOK(To("invoke", tries + 1))
  <2>1. RunOK(To("succeeded", tries))
    BY <1>1, <1>2, InvokedOK
  <2>2. RunOK(To("failed", tries))
    BY <1>1, <1>2, InvokedOK
  <2>3. ASSUME RetriesLeft(tries) PROVE RunOK(To("invoke", tries + 1))
    <3>1. tries + 1 \in Nat
      BY <1>2
    <3>2. QED
      BY <1>1, <1>2, <2>3, <3>1, InvokedOK
  <2>4. QED
    BY <2>1, <2>2, <2>3
<1> HIDE DEF To, tries
<1>6. QED
  BY <1>1, <1>4, <1>5, OneRunStep

\* success() closes the breaker of the engine.
LEMMA SuccessStep ==
    ASSUME IInv, NEW p \in Procs, Success(p)
    PROVE  IInv'
<1>1. Doing(p, "succeeded") /\ ~Doing(p, "idle")
  BY DEF Success, Doing
<1>2. Engine(p) \in Registered
  BY <1>1, DoingFacts
<1>3. QED
  BY <1>2, RowFacts, OneRunStep DEF Success, Saves

\* failure() reads the row, counts and saves it, and before() looks again.
LEMMA FailureStep ==
    ASSUME IInv, NEW p \in Procs,
           FailureRead(p) \/ FailureSave(p) \/ FailureView(p) \/ FailureViewSave(p)
    PROVE  IInv'
<1> DEFINE row == breaker[Engine(p)]
<1>1. ~Doing(p, "idle")
  BY DEF FailureRead, FailureSave, FailureView, FailureViewSave, Doing
<1>2. /\ RunOK(proc[p]) /\ Engine(p) \in Registered
      /\ proc[p].row \in Rows /\ RowOK(proc[p].row) /\ row \in Rows /\ RowOK(row)
      /\ Skipped(p) = Idle \/ RunOK(Skipped(p))
  BY <1>1, DoingFacts
<1>3. CASE FailureRead(p)
  <2>1. RunOK([proc[p] EXCEPT !.at = "failure", !.row = row])
    BY <1>2, MoveOK DEF Places
  <2>2. QED
    BY <1>3, <2>1, OneRunStep DEF FailureRead
<1>4. CASE FailureSave(p)
  <2>1. RunOK([proc[p] EXCEPT !.at = "view", !.row = Closed])
    BY <1>2, MoveOK, RowFacts DEF Places
  <2>2. Failed(proc[p].row) \in Rows /\ RowOK(Failed(proc[p].row))
    BY <1>2, RowFacts
  <2>3. QED
    BY <1>2, <1>4, <2>1, <2>2, OneRunStep DEF FailureSave, Saves
<1>5. CASE FailureView(p)
  <2>1. CASE Due(row) /\ Becomes(p, [proc[p] EXCEPT !.at = "view save", !.row = row])
    <3>1. RunOK([proc[p] EXCEPT !.at = "view save", !.row = row])
      BY <1>2, <2>1, HalfOpenOK
    <3>2. QED
      BY <1>5, <2>1, <3>1, OneRunStep DEF FailureView
  <2>2. CASE Becomes(p, Skipped(p))
    BY <1>2, <1>5, <2>2, OneRunStep DEF FailureView
  <2>3. QED
    BY <1>5, <2>1, <2>2 DEF FailureView
<1>6. CASE FailureViewSave(p)
  <2>1. Due(proc[p].row)
    BY <1>2, <1>6 DEF FailureViewSave, Doing, RunOK, SoundCopy
  <2>2. HalfOpened(proc[p].row) \in Rows /\ RowOK(HalfOpened(proc[p].row))
    BY <1>2, <2>1, RowFacts
  <2>3. QED
    BY <1>2, <1>6, <2>2, OneRunStep DEF FailureViewSave, Saves
<1>7. QED
  BY <1>3, <1>4, <1>5, <1>6

\* A process that dies saves nothing.
LEMMA DiesStep ==
    ASSUME IInv, NEW p \in Procs, Dies(p)
    PROVE  IInv'
BY OneRunStep DEF Dies

\* The end of a cooldown changes the age of a row that has one.
LEMMA ElapseStep ==
    ASSUME IInv, NEW e \in Registered, Elapse(e)
    PROVE  IInv'
<1> DEFINE new == [breaker[e] EXCEPT !.opened = "long ago"]
<1>1. breaker[e] \in Rows /\ RowOK(breaker[e]) /\ breaker[e].opened = "recently"
  BY DEF IInv, Elapse
<1>2. new \in Rows /\ RowOK(new)
  BY <1>1 DEF Rows, RowOK
<1>3. breaker' = [breaker EXCEPT ![e] = new] /\ proc' = proc
  BY DEF Elapse
<1> HIDE DEF new
<1>4. /\ breaker' \in [Registered -> Rows]
      /\ \A f \in Registered : RowOK(breaker'[f])
  BY <1>2, <1>3 DEF IInv
<1>5. QED
  BY <1>3, <1>4 DEF IInv

\* The invariant holds at the start and is kept by every step.
LEMMA InitIInv == Init => IInv
<1>1. SUFFICES ASSUME Init PROVE IInv
  OBVIOUS
<1>2. \A e \in Registered : breaker[e] = Closed
  BY <1>1 DEF Init
<1>3. QED
  BY <1>1, <1>2, RowFacts DEF Init, IInv

LEMMA NextIInv == IInv /\ [Next]_vars => IInv'
<1>1. SUFFICES ASSUME IInv, [Next]_vars PROVE IInv'
  OBVIOUS
<1>2. ASSUME NEW p \in Procs, Prepare(p) PROVE IInv'
  BY <1>1, <1>2, PrepareStep
<1>3. ASSUME NEW p \in Procs, Step(p) PROVE IInv'
  BY <1>1, <1>3, BeforeStep, BeforeSaveStep, InvokeStep, SuccessStep, FailureStep DEF Step
<1>4. ASSUME NEW p \in Procs, Dies(p) PROVE IInv'
  BY <1>1, <1>4, DiesStep
<1>5. ASSUME NEW e \in Registered, Elapse(e) PROVE IInv'
  BY <1>1, <1>5, ElapseStep
<1>6. CASE UNCHANGED vars
  BY <1>1, <1>6 DEF vars, IInv
<1>7. QED
  BY <1>1, <1>2, <1>3, <1>4, <1>5, <1>6 DEF Next

-----------------------------------------------------------------------------
(***************************************************************************)
(* The theorems.                                                           *)
(***************************************************************************)
\* What a run and its row are known to be holds in every behaviour, fair or not
\* (Orchestrator.run, CircuitBreaker).
THEOREM RunInvariance == Spec => []IInv
<1>1. Init => IInv
  BY InitIInv
<1>2. IInv /\ [Next]_vars => IInv'
  BY NextIInv
<1>3. QED
  BY <1>1, <1>2, PTL DEF Spec

\* However many processes overwrite each other's rows, every row and every copy
\* of one is a row that a single breaker could have (CircuitBreaker.before,
\* failure, success).
THEOREM BreakersSound == Spec => []RowsAreSound
<1>1. IInv => RowsAreSound
  <2>1. SUFFICES ASSUME IInv PROVE RowsAreSound
    OBVIOUS
  <2>2. \A p \in Procs : ~Doing(p, "idle") => RowOK(proc[p].row)
    BY <2>1, DoingFacts
  <2>3. QED
    BY <2>1, <2>2 DEF IInv, RowsAreSound
<1>2. QED
  BY <1>1, RunInvariance, PTL

\* For any engines, statuses and requests, in the code's order of its rules: no retry and
\* no fallback hands a request to an engine that its rule forbids, and no engine is run
\* more often than its retries allow (PolicyRouter.decide, assemble_candidates,
\* Orchestrator.run).
THEOREM FallbacksKept == Spec => []FallbacksKeepToRule
<1>1. IInv => FallbacksKeepToRule
  <2> SUFFICES ASSUME IInv, NEW p \in Procs, ~Doing(p, "idle")
               PROVE  /\ \A e \in Registered : proc[p].ran[e] <= Retries + 1
                      /\ Invoked(p) \subseteq Allowed(proc[p].class)
                      /\ proc[p].class = "no fallback" => \A e, f \in Invoked(p) : e = f
    BY DEF FallbacksKeepToRule
  <2>1. RunOK(proc[p])
    BY DoingFacts
  <2>2. \A e \in Registered : proc[p].ran[e] <= Retries + 1
    BY <2>1 DEF RunOK, Counted
  <2>3. \A e \in Invoked(p) : e \in Registered /\ Permitted(proc[p].class, e)
    BY <2>1 DEF Invoked, RunOK, Lawful
  <2>4. \A class, e : e \in Registered /\ Permitted(class, e) => e \in Allowed(class)
    BY DEF Permitted, Allowed
  <2>5. proc[p].class = "no fallback" => \A e, f \in Invoked(p) : e = f
    BY <2>1 DEF Invoked, RunOK, Lawful
  <2>6. QED
    BY <2>2, <2>3, <2>4, <2>5
<1>2. QED
  BY <1>1, RunInvariance, PTL

===============================================================================
