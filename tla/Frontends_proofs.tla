-------------------------- MODULE Frontends_proofs --------------------------
(***************************************************************************)
(* Theorems about Frontends, for any callers, scripts, chains and bounds.  *)
(***************************************************************************)
EXTENDS Frontends, FiniteSetTheorems, TLAPS

----------------------------------------------------------------------------
(* Types *)

\* The steps of a chain that changed the page can be counted.
LEMMA MovesCount ==
    ASSUME NEW n \in Nat, NEW S \in SUBSET (1..n)
    PROVE  Cardinality(S) \in Nat
<1>1. IsFiniteSet(1..n)
  BY FS_Interval
<1>2. IsFiniteSet(S)
  BY <1>1, FS_Subset
<1>3. QED
  BY <1>2, FS_CardinalityType

\* What a step leaves on the page is a number too.
LEMMA RunType ==
    ASSUME TypeOK, NEW steps \in Seq(Step), NEW r \in Runs(steps)
    PROVE  /\ r.upto \in 0..Len(steps) /\ r.moved \subseteq 1..Len(steps)
           /\ page + Cardinality(r.moved) \in 0..MaxPage
           /\ \A k \in Nat : PageAfter(r, k) \in Nat
           /\ \A k \in r.moved : k <= r.upto + 1 /\ steps[k].op \notin {"read", "bad"}
           /\ \A k \in 1..r.upto : steps[k].op # "bad"
<1>1. r.upto \in 0..Len(steps) /\ r.moved \in SUBSET (1..Len(steps))
  BY DEF Runs
<1>2. Len(steps) \in Nat
  OBVIOUS
<1>3. Cardinality(r.moved) \in Nat
  BY <1>1, <1>2, MovesCount
<1>4. page \in Nat /\ page + Cardinality(r.moved) <= MaxPage
  BY FrontendsAssumption DEF TypeOK, Runs
<1>5. \A k \in Nat : PageAfter(r, k) \in Nat
  <2> SUFFICES ASSUME NEW k \in Nat
               PROVE  PageAfter(r, k) \in Nat
    OBVIOUS
  <2>1. {i \in r.moved : i <= k} \in SUBSET (1..Len(steps))
    BY <1>1
  <2>2. Cardinality({i \in r.moved : i <= k}) \in Nat
    BY <1>2, <2>1, MovesCount
  <2>3. QED
    BY <1>4, <2>2 DEF PageAfter
<1>6. MaxPage \in Nat
  BY FrontendsAssumption
<1>7. page + Cardinality(r.moved) \in 0..MaxPage
  BY <1>3, <1>4, <1>6
<1>8. /\ \A k \in r.moved : k <= r.upto + 1 /\ steps[k].op \notin {"read", "bad"}
      /\ \A k \in 1..r.upto : steps[k].op # "bad"
  BY DEF Runs
<1>9. QED
  BY <1>1, <1>5, <1>7, <1>8

LEMMA ScriptsAreSteps == \A s \in Scripts : s \in Seq(Step)
<1> SUFFICES ASSUME NEW s \in Scripts
             PROVE  s \in Seq(Step)
  OBVIOUS
<1>1. PICK n \in 1..MaxSteps : s \in [1..n -> Step]
  BY DEF Scripts
<1>2. QED
  BY <1>1, FrontendsAssumption

LEMMA IdleIsCall == Idle \in Calls
BY FrontendsAssumption DEF Idle, Calls

\* A call that has been changed where it runs is one.
LEMMA CallMade ==
    ASSUME NEW x \in Calls, NEW st \in {"idle", "sent", "refused", "ok", "error"},
           NEW id \in 0..MaxCalls, NEW steps \in Seq(Step)
    PROVE  [x EXCEPT !.st = st, !.id = id, !.steps = steps] \in Calls
BY DEF Calls

LEMMA CallAnswered ==
    ASSUME NEW x \in Calls, NEW st \in {"idle", "sent", "refused", "ok", "error"},
           NEW outs \in Seq(SUBSET Nat), NEW final \in SUBSET Nat, NEW now \in Nat
    PROVE  [x EXCEPT !.st = st, !.outs = outs, !.final = final, !.now = now] \in Calls
BY DEF Calls

\* What the CLI writes are documents.
LEMMA OutputType ==
    ASSUME NEW of \in {"opened", "echo", "read", "eval", "act", "done", "final"},
           NEW n \in Nat, NEW shows \in SUBSET Nat
    PROVE  Output(of, n, shows) \in Seq(Doc)
<1>1. [of |-> of, step |-> n, shows |-> shows] \in Doc
  BY DEF Doc
<1>2. QED
  BY <1>1 DEF Output

LEMMA EchoType ==
    ASSUME TypeOK
    PROVE  Echo \in Seq(Doc)
<1>1. line + 1 \in Nat
  BY DEF TypeOK
<1>2. Output("echo", line + 1, {}) \in Seq(Doc)
  BY <1>1, OutputType
<1>3. QED
  BY <1>2 DEF Echo

LEMMA ResultsType ==
    ASSUME TypeOK, NEW step \in Step, NEW r \in Runs(<<step>>), r.upto # 0
    PROVE  \A out \in Results(step, r) : out \in Seq(Doc)
<1>1. <<step>> \in Seq(Step) /\ Len(<<step>>) = 1 /\ <<step>>[1] = step
  OBVIOUS
<1>2. /\ r.upto \in 0..1 /\ PageAfter(r, 1) \in Nat
      /\ \A k \in 1..r.upto : <<step>>[k].op # "bad"
  BY <1>1, RunType
<1>3. step.op \in {"read", "eval", "act"}
  <2>1. step.op # "bad"
    BY <1>1, <1>2
  <2>2. QED
    BY <2>1 DEF Step
<1>4. line + 1 \in Nat
  BY DEF TypeOK
<1> DEFINE shows == IF step.op = "act" THEN {PageAfter(r, 1)} ELSE {}
<1>5. shows \in SUBSET Nat
  BY <1>2
<1>6. Output(step.op, line + 1, shows) \in Seq(Doc)
  <2> HIDE DEF shows
  <2>1. QED
    BY <1>3, <1>4, <1>5, OutputType
<1>7. \A out \in Results(step, r) : out = Output(step.op, line + 1, shows) \/ out = <<>>
  BY DEF Results
<1>8. <<>> \in Seq(Doc)
  OBVIOUS
<1>9. QED
  BY <1>6, <1>7, <1>8

\* What a step of the CLI does to the page and to the history.
LEMMA ExecutedType ==
    ASSUME TypeOK, NEW step \in Step, NEW r \in Runs(<<step>>),
           Executed(0, line, <<step>>, r)
    PROVE  page' \in 0..MaxPage /\ ran' \subseteq Nat \X Nat
<1>1. <<step>> \in Seq(Step)
  OBVIOUS
<1>2. page' \in 0..MaxPage
  BY <1>1, RunType DEF Executed
<1>3. line \in Nat /\ ran \subseteq Nat \X Nat
  BY DEF TypeOK
<1>4. \A k \in Attempted(<<step>>, r) : <<0, line + k>> \in Nat \X Nat
  BY <1>3 DEF Attempted
<1>5. ran' = ran \cup {<<0, line + k>> : k \in Attempted(<<step>>, r)}
  BY DEF Executed
<1>6. QED
  BY <1>2, <1>3, <1>4, <1>5

\* Type correctness of the tools, the script and the REPL.
THEOREM TypeCorrect == Spec => []TypeOK
<1> USE FrontendsAssumption
<1>1. Init => TypeOK
  <2> SUFFICES ASSUME Init
               PROVE  TypeOK
    OBVIOUS
  <2>1. Idle \in Calls
    BY IdleIsCall
  <2>2. call \in [Clients -> Calls]
    BY <2>1 DEF Init
  <2>3. script \in Seq(Step)
    <3>1. script \in Scripts \/ script = <<>>
      BY DEF Init
    <3>2. <<>> \in Seq(Step)
      OBVIOUS
    <3>3. QED
      BY <3>1, <3>2, ScriptsAreSteps
  <2>4. printed \in Seq(Doc)
    <3>1. Output("opened", 0, {0}) \in Seq(Doc)
      BY OutputType
    <3>2. <<>> \in Seq(Doc)
      OBVIOUS
    <3>3. QED
      BY <3>1, <3>2 DEF Init
  <2>5. json \in BOOLEAN
    BY DEF Init
  <2>6. /\ front \in {"mcp", "script", "repl"} /\ there \in BOOLEAN /\ line \in Nat
        /\ last \in Nat /\ status \in {"running", "ok", "error"}
    BY DEF Init
  <2>7. page \in 0..MaxPage /\ calls \in 0..MaxCalls /\ ran \subseteq Nat \X Nat
    BY DEF Init
  <2>8. QED
    BY <2>2, <2>3, <2>4, <2>5, <2>6, <2>7 DEF TypeOK
<1>2. TypeOK /\ [Next]_vars => TypeOK'
  <2> SUFFICES ASSUME TypeOK, [Next]_vars
               PROVE  TypeOK'
    OBVIOUS
  <2> USE DEF mcp, cli
  <2>1. ASSUME NEW c \in Clients, NEW steps \in Seq(Step), Asked(c, steps)
        PROVE  TypeOK'
    <3>1. [Idle EXCEPT !.st = IF there /\ Convertible(steps) THEN "sent" ELSE "refused",
                       !.id = calls + 1, !.steps = steps] \in Calls
      <4>1. (IF there /\ Convertible(steps) THEN "sent" ELSE "refused")
              \in {"idle", "sent", "refused", "ok", "error"}
        OBVIOUS
      <4>2. calls + 1 \in 0..MaxCalls
        BY <2>1 DEF Asked, TypeOK
      <4>3. QED
        BY <4>1, <4>2, IdleIsCall, CallMade
    <3>2. call' \in [Clients -> Calls] /\ calls' \in 0..MaxCalls
      BY <2>1, <3>1 DEF Asked, TypeOK
    <3>3. UNCHANGED <<front, page, there, ran, script, json, line, printed, last, status>>
      BY <2>1 DEF Asked
    <3>4. QED
      BY <3>2, <3>3 DEF TypeOK
  <2>2. ASSUME NEW c \in Clients, CallTool(c) \/ CallChain(c)
        PROVE  TypeOK'
    <3>1. \A s \in Step : <<s>> \in Seq(Step)
      OBVIOUS
    <3>2. \E steps \in Seq(Step) : Asked(c, steps)
      BY <2>2, <3>1, ScriptsAreSteps DEF CallTool, CallChain
    <3>3. QED
      BY <2>1, <3>2
  <2>3. ASSUME NEW c \in Clients, Finish(c)
        PROVE  TypeOK'
    <3> DEFINE steps == call[c].steps
    <3>1. call[c] \in Calls /\ steps \in Seq(Step)
      BY DEF TypeOK, Calls
    <3>2. PICK r \in Runs(steps) :
            LET ok == r.upto = Len(steps)
                outs == IF ok THEN Outs(steps, r) ELSE <<>>
            IN  /\ Executed(call[c].id, 0, steps, r)
                /\ call' = [call EXCEPT ![c].st = IF ok THEN "ok" ELSE "error",
                                        ![c].outs = outs,
                                        ![c].final = FinalSnapshot(outs),
                                        ![c].now = page']
      BY <2>3 DEF Finish
    <3> DEFINE outs == IF r.upto = Len(steps) THEN Outs(steps, r) ELSE <<>>
    <3> HIDE DEF steps
    <3>3. /\ r.upto \in 0..Len(steps) /\ page + Cardinality(r.moved) \in 0..MaxPage
          /\ \A k \in Nat : PageAfter(r, k) \in Nat
      BY <3>1, RunType
    <3>4. r.upto \in Nat /\ Outs(steps, r) \in Seq(SUBSET Nat)
      <4>1. r.upto \in Nat
        <5>1. Len(steps) \in Nat
          BY <3>1
        <5>2. ASSUME NEW n \in Nat
              PROVE  \A u \in 0..n : u \in Nat
          OBVIOUS
        <5>3. QED
          BY <3>3, <5>1, <5>2
      <4>2. \A k \in 1..r.upto :
              (IF steps[k].op = "read" THEN {} ELSE {PageAfter(r, k)}) \in SUBSET Nat
        BY <3>3, <4>1
      <4>3. QED
        BY <4>1, <4>2 DEF Outs
    <3>5. outs \in Seq(SUBSET Nat)
      BY <3>4
    <3> HIDE DEF outs
    <3>6. FinalSnapshot(outs) \in SUBSET Nat
      BY <3>5 DEF FinalSnapshot
    <3>7. page' \in 0..MaxPage
      BY <3>2, <3>3 DEF Executed
    <3>8. call' = [call EXCEPT ![c] =
                     [call[c] EXCEPT !.st = IF r.upto = Len(steps) THEN "ok" ELSE "error",
                                     !.outs = outs, !.final = FinalSnapshot(outs),
                                     !.now = page']]
      BY <3>2 DEF steps, outs
    <3>9. call' \in [Clients -> Calls]
      <4>1. [call[c] EXCEPT !.st = IF r.upto = Len(steps) THEN "ok" ELSE "error",
                            !.outs = outs, !.final = FinalSnapshot(outs), !.now = page']
              \in Calls
        <5>1. (IF r.upto = Len(steps) THEN "ok" ELSE "error")
                \in {"idle", "sent", "refused", "ok", "error"}
          OBVIOUS
        <5>2. page' \in Nat
          BY <3>7
        <5>3. QED
          BY <3>1, <3>5, <3>6, <5>1, <5>2, CallAnswered
      <4>2. QED
        BY <3>8, <4>1 DEF TypeOK
    <3>10. ran' \subseteq Nat \X Nat
      <4>1. call[c].id \in Nat
        BY <3>1 DEF Calls
      <4>2. Attempted(steps, r) \subseteq Nat
        BY <3>1 DEF Attempted
      <4>3. ran' = ran \cup {<<call[c].id, 0 + k>> : k \in Attempted(steps, r)}
        BY <3>2 DEF Executed, steps
      <4>4. QED
        BY <4>1, <4>2, <4>3 DEF TypeOK
    <3>11. QED
      BY <2>3, <3>7, <3>9, <3>10 DEF Finish, TypeOK
  <2>4. ASSUME NEW c \in Clients, Return(c)
        PROVE  TypeOK'
    <3>1. Idle \in Calls
      BY IdleIsCall
    <3>2. QED
      BY <2>4, <3>1 DEF Return, TypeOK
  <2>5. ASSUME Gone \/ DoneScript \/ ReplEnd
        PROVE  TypeOK'
    <3>1. CASE Gone \/ ReplEnd
      BY <3>1 DEF Gone, ReplEnd, TypeOK
    <3>2. CASE DoneScript
      <4>1. line \in Nat /\ last \in Nat /\ printed \in Seq(Doc)
        BY DEF TypeOK
      <4>2. Output("final", line, {last}) \in Seq(Doc) /\ Output("done", line, {}) \in Seq(Doc)
        BY <4>1, OutputType
      <4>3. printed' \in Seq(Doc)
        BY <3>2, <4>1, <4>2 DEF DoneScript
      <4>4. QED
        BY <3>2, <4>3 DEF DoneScript, TypeOK
    <3>3. QED
      BY <2>5, <3>1, <3>2
  <2>6. ASSUME NEW step \in Step, NEW r \in Runs(<<step>>), Took(step, r)
        PROVE  TypeOK'
    <3>1. page' \in 0..MaxPage /\ ran' \subseteq Nat \X Nat
      BY <2>6, ExecutedType DEF Took
    <3>2. UNCHANGED <<front, there, calls, call, script, json>>
      BY <2>6 DEF Took
    <3>3. line \in Nat /\ last \in Nat /\ printed \in Seq(Doc)
          /\ status \in {"running", "ok", "error"} /\ Echo \in Seq(Doc)
      BY EchoType DEF TypeOK
    <3>4. CASE r.upto = 0
      <4>1. printed' = printed \o Echo
            /\ line' = line /\ last' = last /\ status' = "error"
        BY <2>6, <3>4 DEF Took
      <4>2. printed' \in Seq(Doc)
        BY <3>3, <4>1
      <4>3. QED
        BY <3>1, <3>2, <3>3, <4>1, <4>2 DEF TypeOK
    <3>5. CASE r.upto # 0
      <4>1. PICK out \in StepResults(step, r) : printed' = printed \o Echo \o out
        BY <2>6, <3>5 DEF Took
      <4>2. /\ last' = LastSnapshot(step, r) /\ line' = line + 1 /\ status' = status
        BY <2>6, <3>5 DEF Took
      <4>3. out \in Seq(Doc)
        <5>1. out = <<>> \/ out \in Results(step, r)
          BY <4>1 DEF StepResults
        <5>2. <<>> \in Seq(Doc)
          OBVIOUS
        <5>3. QED
          BY <3>5, <5>1, <5>2, ResultsType
      <4>4. printed' \in Seq(Doc)
        BY <3>3, <4>1, <4>3
      <4>5. last' \in Nat
        <5>1. PageAfter(r, 1) \in Nat
          <6>1. <<step>> \in Seq(Step)
            OBVIOUS
          <6>2. QED
            BY <6>1, RunType
        <5>2. QED
          BY <3>3, <4>2, <5>1 DEF LastSnapshot
      <4>6. line' \in Nat
        BY <3>3, <4>2
      <4>7. QED
        BY <3>1, <3>2, <3>3, <4>2, <4>4, <4>5, <4>6 DEF TypeOK
    <3>6. QED
      BY <3>4, <3>5
  <2>7. ASSUME DoStep
        PROVE  TypeOK'
    <3>1. script[line + 1] \in Step
      BY <2>7 DEF DoStep, TypeOK
    <3>2. CASE script[line + 1].op = "bad"
      BY <2>7, <3>2 DEF DoStep, TypeOK
    <3>3. CASE script[line + 1].op # "bad"
      <4>1. \E r \in Runs(<<script[line + 1]>>) : Took(script[line + 1], r)
        BY <2>7, <3>3 DEF DoStep
      <4>2. QED
        BY <2>6, <3>1, <4>1
    <3>4. QED
      BY <3>2, <3>3
  <2>8. ASSUME ReplLine
        PROVE  TypeOK'
    <3>1. /\ line' = line + 1
          /\ UNCHANGED <<front, there, calls, call, script, json, last, status>>
      BY <2>8 DEF ReplLine
    <3>2. line' \in Nat
      BY <3>1 DEF TypeOK
    <3>3. PICK step \in Step :
            \/ UNCHANGED <<page, ran, printed>>
            \/ \E r \in Runs(<<step>>) :
                 /\ Executed(0, line, <<step>>, r)
                 /\ IF r.upto = 0 THEN UNCHANGED printed
                    ELSE \E out \in Results(step, r) : printed' = printed \o out
      BY <2>8 DEF ReplLine
    <3>4. CASE UNCHANGED <<page, ran, printed>>
      BY <3>1, <3>2, <3>4 DEF TypeOK
    <3>5. ASSUME NEW r \in Runs(<<step>>), Executed(0, line, <<step>>, r),
                 IF r.upto = 0 THEN UNCHANGED printed
                 ELSE \E out \in Results(step, r) : printed' = printed \o out
          PROVE  TypeOK'
      <4>1. page' \in 0..MaxPage /\ ran' \subseteq Nat \X Nat
        BY <3>5, ExecutedType
      <4>2. printed \in Seq(Doc)
        BY DEF TypeOK
      <4>3. printed' \in Seq(Doc)
        <5>1. CASE r.upto = 0
          BY <3>5, <4>2, <5>1
        <5>2. CASE r.upto # 0
          <6>1. PICK out \in Results(step, r) : printed' = printed \o out
            BY <3>5, <5>2
          <6>2. out \in Seq(Doc)
            BY <5>2, <6>1, ResultsType
          <6>3. QED
            BY <4>2, <6>1, <6>2
        <5>3. QED
          BY <5>1, <5>2
      <4>4. QED
        BY <3>1, <3>2, <4>1, <4>3 DEF TypeOK
    <3>6. QED
      BY <3>3, <3>4, <3>5
  <2>9. CASE Quiet \/ UNCHANGED vars
    BY <2>9 DEF Quiet, vars, TypeOK
  <2>10. QED
    BY <2>2, <2>3, <2>4, <2>5, <2>7, <2>8, <2>9 DEF Next
<1>3. QED
  BY <1>1, <1>2, PTL DEF Spec

----------------------------------------------------------------------------
(* What a chain answers *)

\* After the last step that returned a snapshot come only steps that leave the
\* page alone.
LEMMA FinalIsNow ==
    ASSUME TypeOK, NEW steps \in Seq(Step), NEW r \in Runs(steps), r.upto = Len(steps),
           NEW v \in FinalSnapshot(Outs(steps, r))
    PROVE  v = page + Cardinality(r.moved)
<1> DEFINE outs == Outs(steps, r)
<1> DEFINE shots == {k \in DOMAIN outs : outs[k] # {}}
<1>1. PICK k \in shots : (\A j \in shots : j <= k) /\ v \in outs[k]
  <2>1. FinalSnapshot(outs) = UNION {outs[k] : k \in {k \in shots : \A j \in shots : j <= k}}
    BY DEF FinalSnapshot
  <2>2. v \in FinalSnapshot(outs)
    OBVIOUS
  <2> HIDE DEF outs, shots
  <2>3. QED
    BY <2>1, <2>2
<1>2. /\ Len(steps) \in Nat /\ r.moved \subseteq 1..Len(steps)
      /\ \A i \in r.moved : steps[i].op # "read"
  <2>1. Len(steps) \in Nat
    OBVIOUS
  <2>2. /\ r.moved \subseteq 1..Len(steps)
        /\ \A i \in r.moved : steps[i].op \notin {"read", "bad"}
    BY RunType
  <2>3. QED
    BY <2>1, <2>2
<1>3. /\ DOMAIN outs = 1..Len(steps)
      /\ \A i \in 1..Len(steps) :
            outs[i] = IF steps[i].op = "read" THEN {} ELSE {PageAfter(r, i)}
  BY DEF Outs
<1>4. \A i \in r.moved : i \in shots
  BY <1>2, <1>3
<1>5. {i \in r.moved : i <= k} = r.moved
  BY <1>1, <1>4
<1>6. v = PageAfter(r, k)
  BY <1>1, <1>3
<1>7. QED
  BY <1>5, <1>6 DEF PageAfter

\* The snapshot a chain's answer ends with shows the page as the chain left it.
THEOREM FinalIsTrue == Spec => []FinalSnapshotHolds
<1>1. Init => FinalSnapshotHolds
  BY DEF Init, FinalSnapshotHolds, Idle
<1>2. TypeOK /\ FinalSnapshotHolds /\ [Next]_vars => FinalSnapshotHolds'
  <2> SUFFICES ASSUME TypeOK, FinalSnapshotHolds, [Next]_vars
               PROVE  FinalSnapshotHolds'
    OBVIOUS
  <2> USE DEF mcp, cli
  <2>0. call \in [Clients -> Calls]
    BY DEF TypeOK
  <2>1. ASSUME NEW c \in Clients, NEW steps, Asked(c, steps)
        PROVE  FinalSnapshotHolds'
    BY <2>0, <2>1 DEF Asked, Idle, FinalSnapshotHolds
  <2>2. ASSUME NEW c \in Clients, CallTool(c) \/ CallChain(c)
        PROVE  FinalSnapshotHolds'
    BY <2>1, <2>2 DEF CallTool, CallChain
  <2>3. ASSUME NEW c \in Clients, Finish(c)
        PROVE  FinalSnapshotHolds'
    <3>1. call[c].steps \in Seq(Step)
      BY <2>0 DEF Calls
    <3>2. PICK r \in Runs(call[c].steps) :
            LET ok == r.upto = Len(call[c].steps)
                outs == IF ok THEN Outs(call[c].steps, r) ELSE <<>>
            IN  /\ Executed(call[c].id, 0, call[c].steps, r)
                /\ call' = [call EXCEPT ![c].st = IF ok THEN "ok" ELSE "error",
                                        ![c].outs = outs,
                                        ![c].final = FinalSnapshot(outs),
                                        ![c].now = page']
      BY <2>3 DEF Finish
    <3> DEFINE outs == IF r.upto = Len(call[c].steps) THEN Outs(call[c].steps, r) ELSE <<>>
    <3>3. FinalSnapshot(outs) \subseteq {page'}
      <4>1. page' = page + Cardinality(r.moved)
        BY <3>2 DEF Executed
      <4>2. CASE r.upto = Len(call[c].steps)
        BY <3>1, <4>1, <4>2, FinalIsNow
      <4>3. CASE r.upto # Len(call[c].steps)
        <5>1. outs = <<>>
          BY <4>3
        <5>2. FinalSnapshot(<<>>) = {}
          BY DEF FinalSnapshot
        <5>3. QED
          BY <5>1, <5>2
      <4>4. QED
        BY <4>2, <4>3
    <3>4. call'[c].final = FinalSnapshot(outs) /\ call'[c].now = page'
      BY <2>0, <3>2 DEF Calls
    <3>5. \A d \in Clients \ {c} : call'[d] = call[d]
      BY <2>0, <3>2
    <3>6. QED
      BY <3>3, <3>4, <3>5 DEF FinalSnapshotHolds
  <2>4. ASSUME NEW c \in Clients, Return(c)
        PROVE  FinalSnapshotHolds'
    BY <2>0, <2>4 DEF Return, Idle, FinalSnapshotHolds
  <2>5. CASE call' = call
    BY <2>5 DEF FinalSnapshotHolds
  <2>6. ASSUME Gone \/ DoStep \/ DoneScript \/ ReplLine \/ ReplEnd \/ Quiet \/ UNCHANGED vars
        PROVE  call' = call
    BY <2>6 DEF Gone, DoStep, DoneScript, ReplLine, ReplEnd, Quiet, Took, vars
  <2>7. QED
    BY <2>2, <2>3, <2>4, <2>5, <2>6 DEF Next
<1>3. QED
  BY <1>1, <1>2, TypeCorrect, PTL DEF Spec

\* Calls have ids of their own, and what was executed was executed for calls that
\* were made: all their steps for those answered ok, none for those still to be
\* executed or refused.
RanFor(id) == {e \in ran : e[1] = id}

Own(c) ==
    /\ call[c].id \in 1..calls
    /\ \A d \in Clients \ {c} : call[d].id # call[c].id

Sound(c) ==
    /\ call[c].st = "idle" => call[c].steps = <<>> /\ call[c].id = 0
    /\ call[c].st # "idle" => Own(c) /\ front = "mcp"
    /\ call[c].st \in {"sent", "refused"} => RanFor(call[c].id) = {}
    /\ call[c].st \in {"sent", "ok", "error"} => Convertible(call[c].steps)
    /\ call[c].st = "ok" =>
          RanFor(call[c].id) = {<<call[c].id, k>> : k \in DOMAIN call[c].steps}

CallInv ==
    /\ \A e \in ran : e[1] <= calls
    /\ \A c \in Clients : Sound(c)

\* A call with a step that does not convert has done nothing, one answered ok has
\* done all of its steps.
THEOREM CallsAreWhole == Spec => []AllOrRefused
<1>1. Init => CallInv
  BY DEF Init, CallInv, Sound, Idle
<1>2. TypeOK /\ CallInv /\ [Next]_vars => CallInv'
  <2> SUFFICES ASSUME TypeOK, CallInv, [Next]_vars
               PROVE  CallInv'
    OBVIOUS
  <2> USE DEF mcp, cli
  <2>0. /\ call \in [Clients -> Calls] /\ calls \in Nat /\ ran \subseteq Nat \X Nat
        /\ \A c \in Clients : call[c].id \in Nat
    BY FrontendsAssumption DEF TypeOK, Calls
  <2>1. ASSUME NEW c \in Clients, NEW steps \in Seq(Step), Asked(c, steps)
        PROVE  CallInv'
    <3>1. /\ calls' = calls + 1 /\ ran' = ran /\ front' = front /\ front = "mcp"
          /\ call'[c].id = calls + 1 /\ call'[c].steps = steps
          /\ call'[c].st = IF there /\ Convertible(steps) THEN "sent" ELSE "refused"
      BY <2>0, <2>1 DEF Asked, Idle
    <3>2. \A d \in Clients \ {c} : call'[d] = call[d]
      BY <2>0, <2>1 DEF Asked
    <3>3. \A d \in Clients : call[d].id \in 0..calls
      BY <2>0 DEF CallInv, Sound, Own
    <3>4. RanFor(calls + 1) = {} /\ \A id : RanFor(id)' = RanFor(id)
      BY <2>0, <3>1 DEF CallInv, RanFor
    <3>5. \A e \in ran' : e[1] <= calls'
      BY <2>0, <3>1 DEF CallInv
    <3>6. Own(c)'
      BY <2>0, <3>1, <3>2, <3>3 DEF Own
    <3>7. Sound(c)'
      <4>1. RanFor(call[c].id)' = {}
        BY <2>0, <3>1, <3>4 DEF CallInv, RanFor
      <4>2. QED
        BY <3>1, <3>6, <4>1 DEF Sound
    <3>8. ASSUME NEW d \in Clients \ {c}
          PROVE  Sound(d)'
      <4>1. Own(d) => Own(d)'
        <5> SUFFICES ASSUME Own(d)
                     PROVE  Own(d)'
          OBVIOUS
        <5>1. call'[d].id = call[d].id /\ call[d].id \in 1..calls
          BY <3>2 DEF Own
        <5>2. \A e \in Clients \ {d} : call'[e].id # call[d].id
          <6>1. call'[c].id # call[d].id
            BY <2>0, <3>1, <5>1
          <6>2. \A e \in Clients \ {c, d} : call'[e].id # call[d].id
            BY <3>2 DEF Own
          <6>3. QED
            BY <6>1, <6>2
        <5>3. call[d].id \in 1..calls'
          BY <2>0, <3>1, <5>1
        <5>4. QED
          BY <5>1, <5>2, <5>3 DEF Own
      <4>2. Sound(d)
        BY DEF CallInv
      <4>3. QED
        BY <3>1, <3>2, <3>4, <4>1, <4>2 DEF Sound
    <3>9. QED
      BY <3>5, <3>7, <3>8 DEF CallInv
  <2>2. ASSUME NEW c \in Clients, CallTool(c) \/ CallChain(c)
        PROVE  CallInv'
    <3>1. \A s \in Step : <<s>> \in Seq(Step)
      OBVIOUS
    <3>2. \E steps \in Seq(Step) : Asked(c, steps)
      BY <2>2, <3>1, ScriptsAreSteps DEF CallTool, CallChain
    <3>3. QED
      BY <2>1, <3>2
  <2>3. ASSUME NEW c \in Clients, Finish(c)
        PROVE  CallInv'
    <3>1. PICK r \in Runs(call[c].steps) :
            LET ok == r.upto = Len(call[c].steps)
                outs == IF ok THEN Outs(call[c].steps, r) ELSE <<>>
            IN  /\ Executed(call[c].id, 0, call[c].steps, r)
                /\ call' = [call EXCEPT ![c].st = IF ok THEN "ok" ELSE "error",
                                        ![c].outs = outs,
                                        ![c].final = FinalSnapshot(outs),
                                        ![c].now = page']
      BY <2>3 DEF Finish
    <3>2. call[c].st = "sent" /\ calls' = calls /\ front' = front
      BY <2>3 DEF Finish
    <3>3. /\ call'[c].id = call[c].id /\ call'[c].steps = call[c].steps
          /\ call'[c].st = IF r.upto = Len(call[c].steps) THEN "ok" ELSE "error"
      BY <2>0, <3>1 DEF Calls
    <3>4. \A d \in Clients \ {c} : call'[d] = call[d]
      BY <2>0, <3>1
    <3>5. ran' = ran \cup {<<call[c].id, k>> : k \in Attempted(call[c].steps, r)}
      <4>1. \A k \in Attempted(call[c].steps, r) : 0 + k = k
        BY DEF Attempted
      <4>2. ran' = ran \cup {<<call[c].id, 0 + k>> : k \in Attempted(call[c].steps, r)}
        BY <3>1 DEF Executed
      <4>3. QED
        BY <4>1, <4>2
    <3>6. Sound(c) /\ Own(c) /\ RanFor(call[c].id) = {} /\ front = "mcp"
      BY <3>2 DEF CallInv, Sound
    <3>7. \A e \in ran' : e[1] <= calls'
      <4>1. call[c].id <= calls
        BY <2>0, <3>6 DEF Own
      <4>2. QED
        BY <3>2, <3>5, <4>1 DEF CallInv
    <3>8. \A id : id # call[c].id => RanFor(id)' = RanFor(id)
      BY <3>5 DEF RanFor
    <3>9. call'[c].st = "ok" =>
            RanFor(call[c].id)' = {<<call[c].id, k>> : k \in DOMAIN call[c].steps}
      <4> SUFFICES ASSUME r.upto = Len(call[c].steps)
                   PROVE  RanFor(call[c].id)' =
                            {<<call[c].id, k>> : k \in DOMAIN call[c].steps}
        BY <3>3
      <4>1. call[c].steps \in Seq(Step)
        BY <2>0 DEF Calls
      <4>2. Attempted(call[c].steps, r) = DOMAIN call[c].steps
        BY <4>1 DEF Attempted
      <4>3. QED
        BY <3>3, <3>5, <3>6, <4>2 DEF RanFor
    <3>10. \A d \in Clients : Own(d) => Own(d)'
      <4>1. \A d \in Clients : call'[d].id = call[d].id
        BY <3>3, <3>4
      <4>2. QED
        BY <3>2, <4>1 DEF Own
    <3>11. Sound(c)'
      BY <3>2, <3>3, <3>6, <3>9, <3>10 DEF Sound
    <3>12. ASSUME NEW d \in Clients \ {c}
           PROVE  Sound(d)'
      <4>1. Sound(d) /\ call[d].id # call[c].id
        BY <3>6 DEF CallInv, Own
      <4>2. QED
        BY <3>2, <3>4, <3>8, <3>10, <4>1 DEF Sound
    <3>13. QED
      BY <3>7, <3>11, <3>12 DEF CallInv
  <2>4. ASSUME NEW c \in Clients, Return(c)
        PROVE  CallInv'
    <3>1. /\ call'[c] = Idle /\ \A d \in Clients \ {c} : call'[d] = call[d]
          /\ UNCHANGED <<ran, calls, front>>
      BY <2>0, <2>4 DEF Return
    <3>2. \A id : RanFor(id)' = RanFor(id)
      BY <3>1 DEF RanFor
    <3>3. Sound(c)'
      BY <3>1 DEF Sound, Idle
    <3>4. ASSUME NEW d \in Clients \ {c}
          PROVE  Sound(d)'
      <4>1. Own(d) => Own(d)'
        BY <2>0, <3>1 DEF Own, Idle
      <4>2. Sound(d)
        BY DEF CallInv
      <4>3. QED
        BY <3>1, <3>2, <4>1, <4>2 DEF Sound
    <3>5. QED
      BY <3>1, <3>3, <3>4 DEF CallInv
  <2>5. ASSUME UNCHANGED <<front, calls, call, ran>>
        PROVE  CallInv'
    BY <2>5 DEF CallInv, Sound, Own, RanFor
  <2>6. ASSUME Gone \/ DoneScript \/ ReplEnd \/ Quiet \/ UNCHANGED vars
        PROVE  CallInv'
    BY <2>5, <2>6 DEF Gone, DoneScript, ReplEnd, Quiet, vars
  <2>7. ASSUME DoStep \/ ReplLine
        PROVE  CallInv'
    <3>1. front # "mcp" /\ UNCHANGED <<front, calls, call>>
      BY <2>7 DEF DoStep, ReplLine, Took
    <3>2. \A e \in ran' : e \in ran \/ e[1] = 0
      <4>1. \/ ran' = ran
            \/ \E step, r : Executed(0, line, <<step>>, r)
        BY <2>7 DEF DoStep, ReplLine, Took
      <4>2. ASSUME NEW step, NEW r, Executed(0, line, <<step>>, r), NEW e \in ran'
            PROVE  e \in ran \/ e[1] = 0
        <5>1. ran' = ran \cup {<<0, line + k>> : k \in Attempted(<<step>>, r)}
          BY <4>2 DEF Executed
        <5>2. QED
          BY <5>1
      <4>3. QED
        BY <4>1, <4>2
    <3>3. \A c \in Clients : Sound(c)'
      BY <3>1 DEF CallInv, Sound
    <3>4. QED
      BY <2>0, <3>1, <3>2, <3>3 DEF CallInv
  <2>8. QED
    BY <2>2, <2>3, <2>4, <2>6, <2>7 DEF Next
<1>3. TypeOK /\ CallInv => AllOrRefused
  <2> SUFFICES ASSUME TypeOK, CallInv, NEW c \in Clients
               PROVE  /\ (\E k \in DOMAIN call[c].steps : call[c].steps[k].op = "bad") =>
                            RanOf(call[c].id) = {}
                      /\ call[c].st = "ok" => RanOf(call[c].id) = DOMAIN call[c].steps
    BY DEF AllOrRefused
  <2>1. call[c].st \in {"idle", "sent", "refused", "ok", "error"}
    BY DEF TypeOK, Calls
  <2>2. ASSUME NEW k \in DOMAIN call[c].steps, call[c].steps[k].op = "bad"
        PROVE  RanOf(call[c].id) = {}
    <3>1. ~Convertible(call[c].steps) /\ call[c].steps # <<>>
      BY <2>2 DEF Convertible
    <3>2. call[c].st = "refused"
      BY <2>1, <3>1 DEF CallInv, Sound
    <3>3. RanFor(call[c].id) = {}
      BY <3>2 DEF CallInv, Sound
    <3>4. QED
      BY <3>3 DEF RanFor, RanOf
  <2>3. ASSUME call[c].st = "ok"
        PROVE  RanOf(call[c].id) = DOMAIN call[c].steps
    <3> DEFINE id == call[c].id
               did == DOMAIN call[c].steps
    <3>1. RanFor(id) = {<<id, k>> : k \in did}
      BY <2>3 DEF CallInv, Sound
    <3>2. RanOf(id) = {e[2] : e \in RanFor(id)}
      BY DEF RanOf, RanFor
    <3> HIDE DEF id, did
    <3>3. \A x : x \in RanOf(id) <=> \E e \in RanFor(id) : x = e[2]
      BY <3>2
    <3>4. \A k \in did : <<id, k>> \in RanFor(id)
      BY <3>1
    <3>5. \A e \in RanFor(id) : e[2] \in did
      BY <3>1
    <3>6. \A k \in did : k \in RanOf(id)
      <4>1. \A k : <<id, k>>[2] = k
        OBVIOUS
      <4>2. QED
        BY <3>3, <3>4, <4>1
    <3>7. \A x \in RanOf(id) : x \in did
      BY <3>3, <3>5
    <3>8. RanOf(id) = did
      BY <3>6, <3>7
    <3>9. QED
      BY <3>8 DEF id, did
  <2>4. QED
    BY <2>2, <2>3
<1>4. QED
  BY <1>1, <1>2, <1>3, TypeCorrect, PTL DEF Spec

----------------------------------------------------------------------------
(* What a script prints *)

Done(n) == {<<0, k>> : k \in 1..n}

\* What a sequence of documents tells, in order, up to a step.
ToldIn(s, kinds) == {s[k].step : k \in {k \in DOMAIN s : s[k].of \in kinds}}

Ordered(s) == \A j, k \in DOMAIN s : j < k => Before(s[j], s[k])

UpTo(s, n) == \A k \in DOMAIN s : s[k].step <= n

Announces(s, n) ==
    \A k \in DOMAIN s : s[k].step <= n \/ (s[k].step = n + 1 /\ s[k].of = "echo")

\* One more document, when it comes after those that are there.
LEMMA Appended ==
    ASSUME NEW s \in Seq(Doc), NEW d \in Doc
    PROVE  LET t == s \o <<d>> IN
           /\ t \in Seq(Doc) /\ Len(t) \in Nat /\ t[Len(t)] = d
           /\ DOMAIN t = DOMAIN s \cup {Len(s) + 1} /\ t[Len(s) + 1] = d
           /\ \A k \in DOMAIN s : t[k] = s[k]
           /\ \A kinds : ToldIn(t, kinds) =
                           ToldIn(s, kinds) \cup (IF d.of \in kinds THEN {d.step} ELSE {})
           /\ Ordered(s) /\ (\A k \in DOMAIN s : Before(s[k], d)) => Ordered(t)
<1> DEFINE t == s \o <<d>>
<1>2. /\ t \in Seq(Doc) /\ Len(t) = Len(s) + 1 /\ Len(s) \in Nat
      /\ DOMAIN s = 1..Len(s) /\ DOMAIN t = 1..Len(t)
      /\ t[Len(s) + 1] = d /\ \A k \in 1..Len(s) : t[k] = s[k]
  OBVIOUS
<1> HIDE DEF t
<1>3. DOMAIN t = DOMAIN s \cup {Len(s) + 1}
  BY <1>2
<1>4. \A k \in DOMAIN s : t[k] = s[k] /\ k < Len(s) + 1
  BY <1>2
<1>5. \A kinds : ToldIn(t, kinds) =
                   ToldIn(s, kinds) \cup (IF d.of \in kinds THEN {d.step} ELSE {})
  <2> SUFFICES ASSUME NEW kinds
               PROVE  ToldIn(t, kinds) =
                        ToldIn(s, kinds) \cup (IF d.of \in kinds THEN {d.step} ELSE {})
    OBVIOUS
  <2>1. \A x : x \in ToldIn(t, kinds) <=>
                 \E k \in DOMAIN t : t[k].of \in kinds /\ x = t[k].step
    BY DEF ToldIn
  <2>2. \A x : x \in ToldIn(s, kinds) <=>
                 \E k \in DOMAIN s : s[k].of \in kinds /\ x = s[k].step
    BY DEF ToldIn
  <2>3. t[Len(s) + 1].of = d.of /\ t[Len(s) + 1].step = d.step
    BY <1>2
  <2>4. \A x : x \in ToldIn(t, kinds) <=>
                 x \in ToldIn(s, kinds) \/ (d.of \in kinds /\ x = d.step)
    BY <1>3, <1>4, <2>1, <2>2, <2>3
  <2>5. QED
    BY <2>4
<1>6. Ordered(s) /\ (\A k \in DOMAIN s : Before(s[k], d)) => Ordered(t)
  <2> SUFFICES ASSUME Ordered(s), \A k \in DOMAIN s : Before(s[k], d),
                      NEW j \in DOMAIN t, NEW k \in DOMAIN t, j < k
               PROVE  Before(t[j], t[k])
    BY DEF Ordered
  <2>1. j \in DOMAIN s
    BY <1>2
  <2>2. CASE k \in DOMAIN s
    BY <1>4, <2>1, <2>2 DEF Ordered
  <2>3. CASE k = Len(s) + 1
    <3>1. t[k] = d /\ t[j] = s[j]
      BY <1>2, <1>4, <2>1, <2>3
    <3>2. QED
      BY <2>1, <3>1
  <2>4. QED
    BY <1>3, <2>2, <2>3
<1>7. QED
  <2>1. Len(t) \in Nat /\ t[Len(t)] = d
    BY <1>2
  <2>2. QED
    BY <1>2, <1>3, <1>4, <1>5, <1>6, <2>1 DEF t

LEMMA DocSteps ==
    ASSUME NEW s \in Seq(Doc), NEW k \in DOMAIN s
    PROVE  s[k].step \in Nat
<1>1. s[k] \in Doc
  OBVIOUS
<1>2. QED
  BY <1>1 DEF Doc

LEMMA KindsApart ==
    /\ "echo" \notin ResultKinds /\ "echo" \notin Endings /\ Endings = {"done", "final"}
    /\ \A of \in {"read", "eval", "act"} : of \in ResultKinds /\ of \notin Endings /\ of # "echo"
    /\ \A of \in Endings : of \notin ResultKinds /\ of # "echo"
BY DEF ResultKinds, Endings

\* A step is announced after all that was printed about the steps before it.
LEMMA Announced ==
    ASSUME TypeOK, Ordered(printed), UpTo(printed, line),
           NEW t, t = printed \o Echo
    PROVE  /\ t \in Seq(Doc) /\ Ordered(t) /\ Announces(t, line)
           /\ ToldIn(t, {"echo"}) =
                ToldIn(printed, {"echo"}) \cup (IF json THEN {} ELSE {line + 1})
           /\ ToldIn(t, ResultKinds) = ToldIn(printed, ResultKinds)
           /\ ToldIn(t, Endings) = ToldIn(printed, Endings)
<1>1. printed \in Seq(Doc) /\ line \in Nat /\ line + 1 \in Nat
  BY DEF TypeOK
<1>2. CASE json
  <2>1. t = printed
    BY <1>1, <1>2 DEF Echo
  <2>2. Announces(t, line)
    BY <2>1 DEF UpTo, Announces
  <2>3. QED
    BY <1>1, <1>2, <2>1, <2>2
<1>3. CASE ~json
  <2> DEFINE d == [of |-> "echo", step |-> line + 1, shows |-> {}]
  <2>1. t = printed \o <<d>> /\ d \in Doc
    BY <1>1, <1>3 DEF Echo, Output, Doc
  <2>2. \A k \in DOMAIN printed : Before(printed[k], d)
    <3>1. ASSUME NEW k \in DOMAIN printed
          PROVE  Before(printed[k], d)
      <4>1. printed[k].step <= line /\ printed[k].step \in Nat
        BY <1>1, DocSteps DEF UpTo
      <4>2. printed[k].step < d.step
        BY <1>1, <4>1
      <4>3. QED
        BY <4>2 DEF Before
    <3>2. QED
      BY <3>1
  <2>3. /\ t \in Seq(Doc) /\ DOMAIN t = DOMAIN printed \cup {Len(printed) + 1}
        /\ t[Len(printed) + 1] = d /\ \A k \in DOMAIN printed : t[k] = printed[k]
        /\ \A kinds : ToldIn(t, kinds) =
                        ToldIn(printed, kinds) \cup (IF d.of \in kinds THEN {d.step} ELSE {})
        /\ Ordered(printed) /\ (\A k \in DOMAIN printed : Before(printed[k], d)) => Ordered(t)
    <3> HIDE DEF d
    <3>1. QED
      BY <1>1, <2>1, Appended
  <2>4. Announces(t, line)
    <3>1. \A k \in DOMAIN printed : t[k].step <= line
      BY <2>3 DEF UpTo
    <3>2. t[Len(printed) + 1].step = line + 1 /\ t[Len(printed) + 1].of = "echo"
      BY <2>3
    <3> HIDE DEF d
    <3>3. QED
      BY <2>3, <3>1, <3>2 DEF Announces
  <2>5. Ordered(t)
    BY <2>2, <2>3
  <2>6. d.of = "echo" /\ d.step = line + 1
    OBVIOUS
  <2> HIDE DEF d
  <2>7. ToldIn(t, {"echo"}) = ToldIn(printed, {"echo"}) \cup {line + 1}
    <3>1. ToldIn(t, {"echo"}) =
            ToldIn(printed, {"echo"}) \cup (IF d.of \in {"echo"} THEN {d.step} ELSE {})
      BY <2>3
    <3>2. d.of \in {"echo"}
      BY <2>6
    <3>3. QED
      BY <2>6, <3>1, <3>2
  <2>8. ASSUME NEW kinds, "echo" \notin kinds
        PROVE  ToldIn(t, kinds) = ToldIn(printed, kinds)
    <3>1. ToldIn(t, kinds) =
            ToldIn(printed, kinds) \cup (IF d.of \in kinds THEN {d.step} ELSE {})
      BY <2>3
    <3>2. QED
      BY <2>6, <2>8, <3>1
  <2>9. QED
    BY <1>3, <2>3, <2>4, <2>5, <2>7, <2>8, KindsApart
<1>4. QED
  BY <1>2, <1>3

\* A step that succeeded reports after its announcement, if there is something to
\* report that --json does not hold back.
LEMMA Reported ==
    ASSUME TypeOK, NEW t \in Seq(Doc), Ordered(t), Announces(t, line),
           NEW step \in Step, step.op # "bad", NEW r, PageAfter(r, 1) \in Nat,
           NEW out \in StepResults(step, r), NEW u, u = t \o out
    PROVE  /\ Ordered(u) /\ UpTo(u, line + 1)
           /\ ToldIn(u, {"echo"}) = ToldIn(t, {"echo"})
           /\ ToldIn(u, Endings) = ToldIn(t, Endings)
           /\ json => ToldIn(u, ResultKinds) =
                        ToldIn(t, ResultKinds) \cup (IF step.op = "act" THEN {} ELSE {line + 1})
           /\ ToldIn(t, ResultKinds) \subseteq ToldIn(u, ResultKinds)
           /\ ToldIn(u, ResultKinds) \subseteq ToldIn(t, ResultKinds) \cup {line + 1}
           /\ ~json /\ step.op # "read" => line + 1 \in ToldIn(u, ResultKinds)
<1>1. line \in Nat /\ line + 1 \in Nat /\ step.op \in {"read", "eval", "act"}
  BY DEF TypeOK, Step
<1> DEFINE shows == IF step.op = "act" THEN {PageAfter(r, 1)} ELSE {}
<1>2. \/ out = <<>> /\ (json \/ step.op = "read") /\ (json => step.op = "act")
      \/ out = Output(step.op, line + 1, shows) /\ (json => step.op # "act")
  BY DEF StepResults, Results
<1>3. \A k \in DOMAIN t : t[k].step \in Nat /\ t[k].step <= line + 1
  <2> SUFFICES ASSUME NEW k \in DOMAIN t
               PROVE  t[k].step \in Nat /\ t[k].step <= line + 1
    OBVIOUS
  <2>1. t[k].step \in Nat
    BY DocSteps
  <2>2. t[k].step <= line \/ t[k].step = line + 1
    BY DEF Announces
  <2>3. QED
    BY <1>1, <2>1, <2>2
<1>4. CASE out = <<>> /\ (json \/ step.op = "read") /\ (json => step.op = "act")
  <2>1. u = t
    BY <1>4
  <2>2. QED
    BY <1>3, <1>4, <2>1 DEF UpTo
<1>5. CASE out = Output(step.op, line + 1, shows) /\ (json => step.op # "act")
  <2> DEFINE d == [of |-> step.op, step |-> line + 1, shows |-> shows]
  <2>1. \A k \in DOMAIN t : Before(t[k], d)
    <3>1. ASSUME NEW k \in DOMAIN t
          PROVE  Before(t[k], d)
      <4>1. t[k].step <= line \/ (t[k].step = line + 1 /\ t[k].of = "echo")
        BY DEF Announces
      <4>2. d.step = line + 1 /\ d.of \in ResultKinds
        BY <1>1, KindsApart
      <4> HIDE DEF d
      <4>3. t[k].step < d.step \/ (t[k].step = d.step /\ t[k].of = "echo")
        BY <1>1, <1>3, <4>1, <4>2
      <4>4. QED
        BY <4>2, <4>3 DEF Before
    <3>2. QED
      BY <3>1
  <2>2. shows \in SUBSET Nat
    OBVIOUS
  <2>3. d \in Doc /\ d.of = step.op /\ d.step = line + 1
    BY <1>1, <2>2 DEF Doc
  <2>9. u = t \o <<d>>
    BY <1>5 DEF Output
  <2>4. /\ DOMAIN u = DOMAIN t \cup {Len(t) + 1}
        /\ u[Len(t) + 1] = d /\ \A k \in DOMAIN t : u[k] = t[k]
        /\ \A kinds : ToldIn(u, kinds) =
                        ToldIn(t, kinds) \cup (IF d.of \in kinds THEN {d.step} ELSE {})
        /\ Ordered(t) /\ (\A k \in DOMAIN t : Before(t[k], d)) => Ordered(u)
    <3> HIDE DEF d
    <3>1. QED
      BY <2>3, <2>9, Appended
  <2>5. UpTo(u, line + 1)
    <3>1. u[Len(t) + 1].step = line + 1
      BY <2>4
    <3>2. \A k \in DOMAIN t : u[k].step <= line + 1
      BY <1>3, <2>4
    <3> HIDE DEF d
    <3>3. QED
      BY <1>1, <2>4, <3>1, <3>2 DEF UpTo
  <2>6. Ordered(u)
    BY <2>1, <2>4
  <2>7. step.op \in ResultKinds /\ step.op \notin Endings /\ step.op \notin {"echo"}
    BY <1>1, KindsApart
  <2>8. /\ ToldIn(u, ResultKinds) = ToldIn(t, ResultKinds) \cup {line + 1}
        /\ ToldIn(u, Endings) = ToldIn(t, Endings)
        /\ ToldIn(u, {"echo"}) = ToldIn(t, {"echo"})
    <3> HIDE DEF d
    <3>1. \A kinds : ToldIn(u, kinds) =
                       ToldIn(t, kinds) \cup (IF d.of \in kinds THEN {d.step} ELSE {})
      BY <2>4
    <3>2. ASSUME NEW kinds, step.op \notin kinds
          PROVE  ToldIn(u, kinds) = ToldIn(t, kinds)
      <4>1. ToldIn(u, kinds) =
              ToldIn(t, kinds) \cup (IF d.of \in kinds THEN {d.step} ELSE {})
        BY <3>1
      <4>2. QED
        BY <2>3, <3>2, <4>1
    <3>3. ToldIn(u, ResultKinds) = ToldIn(t, ResultKinds) \cup {line + 1}
      <4>1. ToldIn(u, ResultKinds) =
              ToldIn(t, ResultKinds) \cup (IF d.of \in ResultKinds THEN {d.step} ELSE {})
        BY <3>1
      <4>2. QED
        BY <2>3, <2>7, <4>1
    <3>4. QED
      BY <2>7, <3>2, <3>3
  <2> HIDE DEF d
  <2>10. QED
    BY <1>5, <2>5, <2>6, <2>8
<1>6. QED
  BY <1>2, <1>4, <1>5

\* What a script did, what it told of it and in which order.  A step that failed was
\* executed too, after the ones that count as lines; no tool is called meanwhile.
ScriptDid ==
    \E n \in Nat :
        /\ RanFor(0) = Done(n) /\ (~json => Told({"echo"}) = 1..n)
        /\ n = line \/ (n = line + 1 /\ status = "error")

ScriptTold ==
    /\ json => Told(ResultKinds) = {k \in 1..line : script[k].op # "act"}
    /\ ~json => /\ Told(ResultKinds) \subseteq 1..line
                /\ {k \in 1..line : script[k].op # "read"} \subseteq Told(ResultKinds)

ScriptEnds ==
    /\ status # "error" => last = page
    /\ status # "ok" => Told(Endings) = {}
    /\ status = "ok" => /\ line = Len(script) /\ Told(Endings) = {line}
                        /\ printed # <<>>
                        /\ printed[Len(printed)].of = IF json THEN "final" ELSE "done"
                        /\ json => printed[Len(printed)].shows = {last}

ScriptInv ==
    front = "script" =>
        /\ \A c \in Clients : call[c].st = "idle"
        /\ line <= Len(script) /\ Ordered(printed)
        /\ status = "running" => UpTo(printed, line)
        /\ ScriptDid /\ ScriptTold /\ ScriptEnds

LEMMA ToldPrinted ==
    /\ \A kinds : Told(kinds) = ToldIn(printed, kinds)
    /\ \A kinds : Told(kinds)' = ToldIn(printed', kinds)
BY DEF Told, ToldIn

\* The session, when a script has one more step executed.
LEMMA StepExecuted ==
    ASSUME TypeOK, NEW step \in Step, NEW r \in Runs(<<step>>), Took(step, r),
           RanFor(0) = Done(line), last = page
    PROVE  /\ RanFor(0)' = Done(line + 1)
           /\ r.upto # 0 => /\ last' = page' /\ PageAfter(r, 1) \in Nat
                            /\ step.op # "bad"
<1>1. line \in Nat /\ Len(<<step>>) = 1 /\ <<step>>[1] = step /\ <<step>> \in Seq(Step)
  BY DEF TypeOK
<1>2. /\ r.upto \in 0..1 /\ r.moved \subseteq 1..1 /\ PageAfter(r, 1) \in Nat
      /\ \A k \in r.moved : <<step>>[k].op \notin {"read", "bad"}
      /\ \A k \in 1..r.upto : <<step>>[k].op # "bad"
  BY <1>1, RunType
<1>3. Attempted(<<step>>, r) = {1}
  BY <1>1, <1>2 DEF Attempted
<1>4. ran' = ran \cup {<<0, line + 1>>} /\ page' = page + Cardinality(r.moved)
  BY <1>3 DEF Took, Executed
<1>5. Done(line + 1) = Done(line) \cup {<<0, line + 1>>}
  <2>1. 1..(line + 1) = (1..line) \cup {line + 1}
    BY <1>1
  <2>2. QED
    BY <2>1 DEF Done
<1>6. RanFor(0)' = Done(line + 1)
  BY <1>4, <1>5 DEF RanFor
<1>7. ASSUME r.upto # 0
      PROVE  last' = page' /\ step.op # "bad"
  <2>1. last' = LastSnapshot(step, r)
    BY <1>7 DEF Took
  <2>2. step.op # "bad"
    BY <1>1, <1>2, <1>7
  <2>3. CASE step.op = "read"
    <3>1. r.moved = {}
      BY <1>1, <1>2, <2>3
    <3>2. Cardinality(r.moved) = 0
      BY <3>1, FS_EmptySet
    <3>3. page \in Nat
      BY FrontendsAssumption DEF TypeOK
    <3>4. QED
      BY <1>4, <2>1, <2>2, <2>3, <3>2, <3>3 DEF LastSnapshot
  <2>4. CASE step.op # "read"
    <3>1. {i \in r.moved : i <= 1} = r.moved
      BY <1>2
    <3>2. QED
      BY <1>4, <2>1, <2>2, <2>4, <3>1 DEF LastSnapshot, PageAfter
  <2>5. QED
    BY <2>3, <2>4
<1>8. QED
  BY <1>2, <1>6, <1>7

\* A step of a script, taken whole, keeps what is said of the script.
LEMMA StepTaken ==
    ASSUME TypeOK, ScriptInv, front = "script", status = "running", line < Len(script),
           NEW r \in Runs(<<script[line + 1]>>), Took(script[line + 1], r)
    PROVE  ScriptInv'
<1> DEFINE step == script[line + 1]
<1> DEFINE t == printed \o Echo
<1>1. /\ line \in Nat /\ Len(script) \in Nat /\ line + 1 \in 1..Len(script) /\ step \in Step
      /\ printed \in Seq(Doc)
  BY DEF TypeOK
<1>2. /\ Ordered(printed) /\ UpTo(printed, line) /\ RanFor(0) = Done(line) /\ last = page
      /\ ~json => Told({"echo"}) = 1..line
      /\ ScriptTold /\ Told(Endings) = {}
      /\ \A c \in Clients : call[c].st = "idle"
  BY DEF ScriptInv, ScriptDid, ScriptEnds
<1>3. /\ RanFor(0)' = Done(line + 1)
      /\ r.upto # 0 => last' = page' /\ PageAfter(r, 1) \in Nat /\ step.op # "bad"
  BY <1>1, <1>2, StepExecuted
<1>4. UNCHANGED <<front, call, script, json>>
  BY DEF Took, mcp
<1>5. /\ t \in Seq(Doc) /\ Ordered(t) /\ Announces(t, line)
      /\ ToldIn(t, {"echo"}) = ToldIn(printed, {"echo"}) \cup (IF json THEN {} ELSE {line + 1})
      /\ ToldIn(t, ResultKinds) = ToldIn(printed, ResultKinds)
      /\ ToldIn(t, Endings) = ToldIn(printed, Endings)
  BY <1>2, Announced
<1>6. 1..(line + 1) = 1..line \cup {line + 1}
  BY <1>1
<1>7. ~json => ToldIn(t, {"echo"}) = 1..(line + 1)
  BY <1>2, <1>5, <1>6, ToldPrinted
<1>8. ToldIn(t, ResultKinds) = Told(ResultKinds) /\ ToldIn(t, Endings) = {}
  BY <1>2, <1>5, ToldPrinted
<1>9. \A c \in Clients : call'[c].st = "idle"
  BY <1>2, <1>4
<1>10. CASE r.upto = 0
  <2>1. printed' = t /\ status' = "error" /\ line' = line
    BY <1>10 DEF Took
  <2>2. Ordered(printed)'
    BY <1>5, <2>1 DEF Ordered
  <2>3. ScriptDid'
    <3>1. RanFor(0)' = Done(line + 1) /\ (~json' => Told({"echo"})' = 1..(line + 1))
      BY <1>3, <1>4, <1>7, <2>1, ToldPrinted
    <3>2. line + 1 \in Nat /\ line + 1 = line' + 1 /\ status' = "error"
      BY <1>1, <2>1
    <3>3. QED
      BY <3>1, <3>2 DEF ScriptDid, Done
  <2>4. ScriptTold'
    BY <1>2, <1>4, <1>8, <2>1, ToldPrinted DEF ScriptTold
  <2>5. ScriptEnds'
    BY <1>8, <2>1, ToldPrinted DEF ScriptEnds
  <2>6. QED
    BY <1>1, <1>4, <1>9, <2>1, <2>2, <2>3, <2>4, <2>5 DEF ScriptInv
<1>11. CASE r.upto # 0
  <2>1. PICK out \in StepResults(step, r) : printed' = printed \o Echo \o out
    BY <1>11 DEF Took
  <2>2. status' = "running" /\ line' = line + 1
    BY <1>11 DEF Took
  <2> DEFINE u == t \o out
  <2>3. /\ Ordered(u) /\ UpTo(u, line + 1)
        /\ ToldIn(u, {"echo"}) = ToldIn(t, {"echo"})
        /\ ToldIn(u, Endings) = ToldIn(t, Endings)
        /\ json => ToldIn(u, ResultKinds) =
                     ToldIn(t, ResultKinds) \cup (IF step.op = "act" THEN {} ELSE {line + 1})
        /\ ToldIn(t, ResultKinds) \subseteq ToldIn(u, ResultKinds)
        /\ ToldIn(u, ResultKinds) \subseteq ToldIn(t, ResultKinds) \cup {line + 1}
        /\ ~json /\ step.op # "read" => line + 1 \in ToldIn(u, ResultKinds)
    <3> HIDE DEF t, step
    <3>1. QED
      BY <1>1, <1>3, <1>5, <1>11, Reported
  <2>4. printed' = u
    BY <2>1
  <2> HIDE DEF u, t
  <2>5. Ordered(printed)' /\ UpTo(printed, line)'
    BY <2>2, <2>3, <2>4 DEF Ordered, UpTo
  <2>6. ScriptDid'
    <3>1. RanFor(0)' = Done(line + 1) /\ (~json' => Told({"echo"})' = 1..(line + 1))
      BY <1>3, <1>4, <1>7, <2>3, <2>4, ToldPrinted
    <3>2. line + 1 \in Nat /\ line + 1 = line'
      BY <1>1, <2>2
    <3>3. QED
      BY <3>1, <3>2 DEF ScriptDid, Done
  <2>7. ScriptTold'
    <3> DEFINE kept(op) == {k \in 1..line : script[k].op # op}
    <3>1. Told(ResultKinds)' = ToldIn(u, ResultKinds)
      BY <2>4, ToldPrinted
    <3>2. \A op : {k \in 1..line' : script'[k].op # op} =
                    kept(op) \cup (IF step.op = op THEN {} ELSE {line + 1})
      BY <1>1, <1>4, <1>6, <2>2
    <3>3. /\ json => Told(ResultKinds) = kept("act")
          /\ ~json => Told(ResultKinds) \subseteq 1..line /\ kept("read") \subseteq Told(ResultKinds)
      BY <1>2 DEF ScriptTold
    <3> HIDE DEF kept, step
    <3>4. json => Told(ResultKinds)' = {k \in 1..line' : script'[k].op # "act"}
      <4>1. {k \in 1..line' : script'[k].op # "act"} =
              kept("act") \cup (IF step.op = "act" THEN {} ELSE {line + 1})
        BY <3>2
      <4>2. QED
        BY <1>8, <2>3, <3>1, <3>3, <4>1
    <3>5. ~json => Told(ResultKinds)' \subseteq 1..line'
      BY <1>6, <1>8, <2>2, <2>3, <3>1, <3>3
    <3>6. ~json => {k \in 1..line' : script'[k].op # "read"} \subseteq Told(ResultKinds)'
      <4>1. {k \in 1..line' : script'[k].op # "read"} =
              kept("read") \cup (IF step.op = "read" THEN {} ELSE {line + 1})
        BY <3>2
      <4>2. QED
        BY <1>8, <2>3, <3>1, <3>3, <4>1
    <3>7. QED
      BY <1>4, <3>4, <3>5, <3>6 DEF ScriptTold
  <2>8. ScriptEnds'
    BY <1>3, <1>8, <1>11, <2>2, <2>3, <2>4, ToldPrinted DEF ScriptEnds
  <2>9. line' <= Len(script')
    BY <1>1, <1>4, <2>2
  <2>10. QED
    BY <1>9, <2>2, <2>5, <2>6, <2>7, <2>8, <2>9 DEF ScriptInv
<1>12. QED
  BY <1>10, <1>11

LEMMA ScriptInvInit == Init => ScriptInv
<1> SUFFICES ASSUME Init, front = "script"
             PROVE  ScriptInv
  BY DEF ScriptInv
<1>1. /\ ran = {} /\ line = 0 /\ last = page /\ status = "running"
      /\ \A c \in Clients : call[c].st = "idle"
  BY DEF Init, Idle
<1>2. Done(0) = {} /\ RanFor(0) = {} /\ 1..0 = {}
  BY <1>1 DEF Done, RanFor
<1>3. script \in Seq(Step)
  BY ScriptsAreSteps DEF Init
<1>4. 0 <= Len(script)
  BY <1>3
<1>5. \/ json /\ printed = <<>>
      \/ ~json /\ printed = <<[of |-> "opened", step |-> 0, shows |-> {0}]>>
  BY DEF Init, Output
<1>6. /\ \A k \in DOMAIN printed : k = 1 /\ printed[k].of = "opened" /\ printed[k].step = 0
      /\ DOMAIN printed \subseteq {1}
  <2>1. CASE json /\ printed = <<>>
    BY <2>1
  <2>2. CASE ~json /\ printed = <<[of |-> "opened", step |-> 0, shows |-> {0}]>>
    <3>1. DOMAIN printed = {1} /\ printed[1].of = "opened" /\ printed[1].step = 0
      BY <2>2
    <3>2. QED
      BY <3>1
  <2>3. QED
    BY <1>5, <2>1, <2>2
<1>7. \A kinds : "opened" \notin kinds => Told(kinds) = {}
  BY <1>6 DEF Told
<1>8. Told({"echo"}) = {} /\ Told(ResultKinds) = {} /\ Told(Endings) = {}
  BY <1>7 DEF ResultKinds, Endings
<1>9. Ordered(printed) /\ UpTo(printed, line)
  <2>1. \A j, k \in DOMAIN printed : ~(j < k)
    BY <1>6
  <2>2. QED
    BY <1>1, <1>6, <2>1 DEF Ordered, UpTo
<1>10. ScriptDid /\ ScriptTold /\ ScriptEnds
  BY <1>1, <1>2, <1>8 DEF ScriptDid, ScriptTold, ScriptEnds
<1>11. QED
  BY <1>1, <1>4, <1>9, <1>10 DEF ScriptInv

\* A script that is done has one more document, or "done.", after all the others.
LEMMA ScriptEnded ==
    ASSUME TypeOK, ScriptInv, front = "script", DoneScript
    PROVE  ScriptInv'
<1>1. /\ status = "running" /\ line = Len(script) /\ status' = "ok"
      /\ UNCHANGED <<front, page, call, ran, script, json, line, last>>
      /\ printed' = printed \o (IF json THEN Output("final", line, {last})
                                ELSE Output("done", line, {}))
  BY DEF DoneScript, mcp
<1>2. line \in Nat /\ last \in Nat /\ printed \in Seq(Doc) /\ Len(script) \in Nat
  BY DEF TypeOK
<1> DEFINE d == IF json THEN [of |-> "final", step |-> line, shows |-> {last}]
                ELSE [of |-> "done", step |-> line, shows |-> {}]
<1>3. /\ d \in Doc /\ printed' = printed \o <<d>> /\ d.of \in Endings /\ d.step = line
      /\ d.of = (IF json THEN "final" ELSE "done") /\ (json => d.shows = {last})
  BY <1>1, <1>2 DEF Output, Doc, Endings
<1> HIDE DEF d
<1>4. /\ Ordered(printed) /\ UpTo(printed, line) /\ last = page /\ Told(Endings) = {}
      /\ ScriptDid /\ ScriptTold /\ \A c \in Clients : call[c].st = "idle"
  BY <1>1 DEF ScriptInv, ScriptEnds
<1>5. \A k \in DOMAIN printed : Before(printed[k], d)
  <2> SUFFICES ASSUME NEW k \in DOMAIN printed
               PROVE  Before(printed[k], d)
    OBVIOUS
  <2>1. printed[k].step \in Nat /\ printed[k].step <= line
    BY <1>2, <1>4, DocSteps DEF UpTo
  <2>2. printed[k].step < d.step \/ printed[k].step = d.step
    BY <1>2, <1>3, <2>1
  <2>3. QED
    BY <1>3, <2>2 DEF Before
<1>6. /\ printed' \in Seq(Doc) /\ Len(printed') \in Nat /\ printed'[Len(printed')] = d
      /\ DOMAIN printed' = DOMAIN printed \cup {Len(printed) + 1}
      /\ \A kinds : ToldIn(printed', kinds) =
                      ToldIn(printed, kinds) \cup (IF d.of \in kinds THEN {d.step} ELSE {})
      /\ Ordered(printed')
  BY <1>2, <1>3, <1>4, <1>5, Appended
<1>7. ASSUME NEW kinds, d.of \notin kinds
      PROVE  Told(kinds)' = Told(kinds)
  <2>1. ToldIn(printed', kinds) =
          ToldIn(printed, kinds) \cup (IF d.of \in kinds THEN {d.step} ELSE {})
    BY <1>6
  <2>2. QED
    BY <1>7, <2>1, ToldPrinted
<1>8. Told(Endings)' = {line}
  <2>1. ToldIn(printed', Endings) =
          ToldIn(printed, Endings) \cup (IF d.of \in Endings THEN {d.step} ELSE {})
    BY <1>6
  <2>2. QED
    BY <1>3, <1>4, <2>1, ToldPrinted
<1>9. Told({"echo"})' = Told({"echo"}) /\ Told(ResultKinds)' = Told(ResultKinds)
  <2>1. d.of \notin {"echo"} /\ d.of \notin ResultKinds
    BY <1>3, KindsApart
  <2>2. QED
    BY <1>7, <2>1
<1>10. ScriptDid'
  <2>1. RanFor(0)' = RanFor(0)
    BY <1>1 DEF RanFor
  <2>2. RanFor(0) = Done(line) /\ (~json => Told({"echo"}) = 1..line)
    BY <1>1, <1>4 DEF ScriptDid
  <2>3. RanFor(0)' = Done(line) /\ (~json' => Told({"echo"})' = 1..line)
    BY <1>1, <1>9, <2>1, <2>2
  <2>4. QED
    BY <1>1, <1>2, <2>3 DEF ScriptDid, Done
<1>11. ScriptTold'
  BY <1>1, <1>4, <1>9 DEF ScriptTold
<1>12. ScriptEnds'
  <2>1. printed' # <<>>
    BY <1>6
  <2>2. QED
    BY <1>1, <1>3, <1>4, <1>6, <1>8, <2>1 DEF ScriptEnds
<1>13. Ordered(printed)' /\ line' <= Len(script')
  <2>1. Ordered(printed)'
    BY <1>6 DEF Ordered
  <2>2. line' <= Len(script')
    BY <1>1, <1>2
  <2>3. QED
    BY <2>1, <2>2
<1>14. QED
  BY <1>1, <1>4, <1>10, <1>11, <1>12, <1>13 DEF ScriptInv

LEMMA ScriptsKeepInv == Spec => []ScriptInv
<1>1. TypeOK /\ ScriptInv /\ [Next]_vars => ScriptInv'
  <2> SUFFICES ASSUME TypeOK, ScriptInv, [Next]_vars, front' = "script"
               PROVE  ScriptInv'
    BY DEF ScriptInv
  <2> USE DEF mcp, cli
  <2>1. front' = front /\ front = "script"
    BY DEF Next, CallTool, CallChain, Asked, Finish, Return, Gone, DoStep, DoneScript,
           ReplLine, ReplEnd, Quiet, Took, vars
  <2>2. \A c \in Clients : ~CallTool(c) /\ ~CallChain(c) /\ ~Finish(c) /\ ~Return(c)
    BY <2>1 DEF ScriptInv, CallTool, CallChain, Asked, Finish, Return
  <2>3. ASSUME DoStep
        PROVE  ScriptInv'
    <3>1. status = "running" /\ line < Len(script)
      BY <2>3 DEF DoStep
    <3>2. CASE script[line + 1].op = "bad"
      <4>1. status' = "error" /\ UNCHANGED <<front, page, call, ran, script, json, line, printed, last>>
        BY <2>3, <3>2 DEF DoStep
      <4>2. RanFor(0)' = RanFor(0) /\ \A kinds : Told(kinds)' = Told(kinds)
        BY <4>1 DEF RanFor, Told
      <4>3. ScriptDid' /\ ScriptTold' /\ ScriptEnds'
        <5>1. RanFor(0) = Done(line) /\ (~json => Told({"echo"}) = 1..line) /\ line \in Nat
          BY <2>1, <3>1 DEF ScriptInv, ScriptDid, TypeOK
        <5>2. ScriptDid'
          BY <4>1, <4>2, <5>1 DEF ScriptDid, Done
        <5>3. ScriptTold'
          BY <2>1, <4>1, <4>2 DEF ScriptInv, ScriptTold
        <5>4. ScriptEnds'
          BY <2>1, <3>1, <4>1, <4>2 DEF ScriptInv, ScriptEnds
        <5>5. QED
          BY <5>2, <5>3, <5>4
      <4>4. QED
        BY <2>1, <4>1, <4>3 DEF ScriptInv, Ordered
    <3>3. CASE script[line + 1].op # "bad"
      <4>1. \E r \in Runs(<<script[line + 1]>>) : Took(script[line + 1], r)
        BY <2>3, <3>3 DEF DoStep
      <4>2. QED
        BY <2>1, <3>1, <4>1, StepTaken
    <3>4. QED
      BY <3>2, <3>3
  <2>4. ASSUME Gone \/ ReplLine \/ ReplEnd
        PROVE  FALSE
    BY <2>1, <2>4 DEF Gone, ReplLine, ReplEnd
  <2>5. CASE Quiet \/ UNCHANGED vars
    <3>1. UNCHANGED vars
      BY <2>5 DEF Quiet
    <3>2. RanFor(0)' = RanFor(0) /\ \A kinds : Told(kinds)' = Told(kinds)
      BY <3>1 DEF RanFor, Told, vars
    <3>3. ScriptDid' /\ ScriptTold' /\ ScriptEnds'
      BY <2>1, <3>1, <3>2 DEF vars, ScriptInv, ScriptDid, Done, ScriptTold, ScriptEnds
    <3>4. QED
      BY <2>1, <3>1, <3>3 DEF vars, ScriptInv, Ordered, UpTo
  <2>6. QED
    BY <2>1, <2>2, <2>3, <2>4, <2>5, ScriptEnded DEF Next
<1>2. QED
  BY <1>1, ScriptInvInit, TypeCorrect, PTL DEF Spec

\* What a script prints tells, in order and in the way of its mode, which steps were
\* sent and which succeeded, and its end shows the page as they left it.
THEOREM ScriptsReport == Spec => []ScriptReports
<1>1. TypeOK /\ ScriptInv /\ front = "script" => TellsSteps
  <2> SUFFICES ASSUME TypeOK, ScriptInv, front = "script"
               PROVE  TellsSteps
    OBVIOUS
  <2>1. line \in Nat
    BY DEF TypeOK
  <2>2. PICK n \in Nat : /\ RanFor(0) = Done(n) /\ (~json => Told({"echo"}) = 1..n)
                         /\ n = line \/ n = line + 1
    BY DEF ScriptInv, ScriptDid
  <2>3. RanOf(0) = 1..n
    <3>1. \A x : x \in RanOf(0) <=> \E e \in Done(n) : x = e[2]
      BY <2>2 DEF RanOf, RanFor
    <3>2. \A e \in Done(n) : e[2] \in 1..n
      BY DEF Done
    <3>3. \A k \in 1..n : <<0, k>> \in Done(n) /\ <<0, k>>[2] = k
      BY DEF Done
    <3>4. \A x : x \in RanOf(0) <=> x \in 1..n
      BY <3>1, <3>2, <3>3
    <3>5. QED
      BY <3>4
  <2>4. 1..line \subseteq 1..n /\ 1..n \subseteq 1..(line + 1)
    BY <2>1, <2>2
  <2>5. Ordered(printed) /\ ScriptTold
    BY DEF ScriptInv
  <2>6. QED
    BY <2>2, <2>3, <2>4, <2>5 DEF TellsSteps, Ordered, ScriptTold
<1>2. ScriptInv /\ front = "script" => EndsWithPage
  BY DEF ScriptInv, ScriptEnds, EndsWithPage
<1>3. TypeOK /\ ScriptInv => ScriptReports
  BY <1>1, <1>2 DEF ScriptReports
<1>4. QED
  BY <1>3, ScriptsKeepInv, TypeCorrect, PTL
=============================================================================
