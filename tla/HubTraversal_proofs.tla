------------------------ MODULE HubTraversal_proofs ------------------------
(* Theorems about the walk over the hubs, for any wiring of any hubs with any
   number of ports, any limit on the depth and any number of changes. *)
EXTENDS HubTraversal, WellFoundedInduction, FiniteSetTheorems, SequenceTheorems, TLAPS

-----------------------------------------------------------------------------
(* The recursion of visit(). *)

Looking == {"node", "port", "header", "data"}

\* Every active call is for a hub of its own, and that hub is noted.
Calls == /\ stack \in Seq(Socket) /\ Len(stack) <= MaxDepth + 1
         /\ \A i \in 1..Len(stack) : stack[i][1] \in visited
         /\ \A i, j \in 1..Len(stack) : stack[i][1] = stack[j][1] => i = j
Recursion ==
  /\ visited \subseteq Hubs
  /\ step \in {"root", "done", "raised"} \cup Looking
  /\ step \in Looking => Len(stack) > 0
  /\ step = "done" => stack = <<>>
  /\ step = "root" => stack = <<>> /\ visited = {} /\ result = <<>>
  /\ Calls

\* The walk is through with the port: it has gone past it, or into it.
Passed(s)  == /\ s[1] \in visited
              /\ \A i \in 1..Len(stack) : stack[i][1] = s[1] => s[2] < stack[i][2]
Entered(s) == Passed(s) \/ \E i \in 1..Len(stack) : i < Len(stack) /\ stack[i] = s

\* visit() of a new hub.
Push(hub) == /\ hub \in Hubs \ visited /\ Len(stack) <= MaxDepth
             /\ visited' = visited \cup {hub} /\ stack' = Append(stack, <<hub, 1>>) /\ step' = "node"

\* The loop goes on in the n-th call; the calls within it are over.
BackTo(n) == /\ stack[n][2] < Ports
             /\ \A i \in 1..Len(stack) : i > n => stack[i][2] = Ports
             /\ stack' \in Seq(Socket) /\ Len(stack') = n /\ step' = "port"
             /\ \A i \in 1..n : stack'[i] = IF i = n THEN <<stack[n][1], stack[n][2] + 1>> ELSE stack[i]
Back == \/ stack' = <<>> /\ step' = "done" /\ \A i \in 1..Len(stack) : stack[i][2] = Ports
        \/ \E n \in 1..Len(stack) : BackTo(n)

LEMMA StackIs ==
  ASSUME Recursion
  PROVE  /\ Len(stack) \in Nat /\ DOMAIN stack = 1..Len(stack)
         /\ \A i \in 1..Len(stack) : stack[i] \in Socket /\ stack[i] = <<stack[i][1], stack[i][2]>>
                                     /\ stack[i][1] \in Hubs /\ stack[i][2] \in 1..Ports
BY LenProperties DEF Recursion, Calls, Socket

\* A set of indices has a greatest one.
LEMMA Greatest ==
  ASSUME NEW m \in Nat, NEW S, S \subseteq 1..m, S # {}
  PROVE  \E i \in S : \A j \in S : j <= i
<1> DEFINE T == {m - i : i \in S}
<1>1. T \subseteq Nat /\ T # {}
  <2>1. \A i \in S : m - i \in Nat
    OBVIOUS
  <2> QED BY <2>1
<1>2. PICK x \in T : \A y \in T : ~(<<y, x>> \in OpToRel(<, Nat))
  BY <1>1, NatLessThanWellFounded, WFMin
<1>3. \A y \in T : ~(y < x)
  BY <1>1, <1>2 DEF OpToRel
<1>4. PICK i \in S : x = m - i
  BY <1>2
<1>5. \A j \in S : j <= i
  <2> SUFFICES ASSUME NEW j \in S PROVE j <= i
    OBVIOUS
  <2>1. ~(m - j < x)
    BY <1>3
  <2>2. i \in 1..m /\ j \in 1..m
    OBVIOUS
  <2> QED BY <1>4, <2>1, <2>2
<1> QED BY <1>5

LEMMA NextPortIs == ASSUME Recursion, NextPort PROVE Back
<1>1. CASE Open = {}
  <2>1. \A i \in 1..Len(stack) : stack[i][2] = Ports
    BY <1>1, StackIs, PortsAssumption DEF Open
  <2> QED BY <1>1, <2>1 DEF NextPort, Back
<1>2. CASE Open # {}
  <2> DEFINE n == CHOOSE k \in Open : \A m \in Open : m <= k
  <2>1. Open \subseteq 1..Len(stack)
    BY StackIs DEF Open
  <2>2. n \in Open /\ \A m \in Open : m <= n
    BY <1>2, <2>1, StackIs, Greatest
  <2>3. /\ stack' = [SubSeq(stack, 1, n) EXCEPT ![n][2] = @ + 1]
        /\ step' = "port"
    BY <1>2 DEF NextPort
  <2> HIDE DEF n
  <2>4. n \in 1..Len(stack) /\ stack[n][2] < Ports
    BY <2>1, <2>2 DEF Open
  <2>5. \A i \in 1..Len(stack) : i > n => stack[i][2] = Ports
    <3> SUFFICES ASSUME NEW i \in 1..Len(stack), i > n PROVE stack[i][2] = Ports
      OBVIOUS
    <3>1. i \notin Open
      BY <2>2, <2>4, StackIs
    <3> QED BY <3>1, StackIs, PortsAssumption DEF Open
  <2>6. SubSeq(stack, 1, n) \in Seq(Socket) /\ Len(SubSeq(stack, 1, n)) = n
        /\ \A i \in 1..n : SubSeq(stack, 1, n)[i] = stack[i]
    BY <2>4, StackIs, SubSeqProperties
  <2>7. <<stack[n][1], stack[n][2] + 1>> \in Socket
    BY <2>4, StackIs, PortsAssumption DEF Socket
  <2>8. \A h \in Hubs, q \in 1..Ports : [<<h, q>> EXCEPT ![2] = @ + 1] = <<h, q + 1>>
    OBVIOUS
  <2>9. stack' = [SubSeq(stack, 1, n) EXCEPT ![n] = <<stack[n][1], stack[n][2] + 1>>]
    <3>1. stack' = [SubSeq(stack, 1, n) EXCEPT ![n] = [SubSeq(stack, 1, n)[n] EXCEPT ![2] = @ + 1]]
      BY <2>3
    <3>2. SubSeq(stack, 1, n)[n] = <<stack[n][1], stack[n][2]>> /\ stack[n][1] \in Hubs /\ stack[n][2] \in 1..Ports
      BY <2>4, <2>6, StackIs
    <3> QED BY <2>8, <3>1, <3>2
  <2>10. /\ stack' \in Seq(Socket) /\ Len(stack') = n
         /\ \A i \in 1..n : stack'[i] = IF i = n THEN <<stack[n][1], stack[n][2] + 1>> ELSE stack[i]
    <3> DEFINE a == SubSeq(stack, 1, n)
               x == <<stack[n][1], stack[n][2] + 1>>
    <3>1. a \in Seq(Socket) /\ Len(a) = n /\ x \in Socket /\ n \in 1..Len(a) /\ \A i \in 1..n : a[i] = stack[i]
      BY <2>4, <2>6, <2>7
    <3>2. stack' = [a EXCEPT ![n] = x]
      BY <2>9
    <3> HIDE DEF a
    <3>3. /\ [a EXCEPT ![n] = x] \in Seq(Socket) /\ Len([a EXCEPT ![n] = x]) = Len(a)
          /\ \A i \in 1..Len(a) : [a EXCEPT ![n] = x][i] = IF i = n THEN x ELSE a[i]
      BY <3>1, ExceptSeq
    <3> QED BY <3>1, <3>2, <3>3
  <2> QED BY <2>3, <2>4, <2>5, <2>10 DEF Back, BackTo
<1> QED BY <1>1, <1>2

\* What a step does to the recursion.
Quiet == /\ UNCHANGED <<stack, visited, result>>
         /\ \/ step' = step
            \/ step' = "raised" /\ (step \in Looking \/ failed')
            \/ step \in Looking /\ step' \in {"port", "header", "data"}
Look  == step \in Looking /\ UNCHANGED <<worldVars, failed>>

LEMMA StepIs ==
  ASSUME Recursion, [Next]_vars
  PROVE  \/ Quiet
         \/ step = "root" /\ Push(Root) /\ UNCHANGED <<worldVars, conn, result, failed>>
         \/ Look /\ step = "data" /\ Held \in Hubs /\ Push(Held) /\ UNCHANGED <<conn, result>>
         \/ Look /\ step = "port" /\ Held = None /\ Back /\ UNCHANGED <<visited, result>>
         \/ /\ Look /\ step = "data" /\ conn \in Readers /\ Back /\ UNCHANGED <<visited, conn>>
            /\ result' = Append(result, [conn |-> conn, key |-> Held])
<1> USE DEF Looking
<1>1. CASE RootHub
  <2>1. step = "root" /\ Len(stack) = 0 /\ visited = {}
    BY <1>1 DEF RootHub, Recursion
  <2>2. ~(Visited(Root) \/ TooDeep)
    BY <2>1, MaxDepthAssumption DEF Visited, TooDeep
  <2>3. Push(Root)
    BY <1>1, <2>1, <2>2, MaxDepthAssumption, RootAssumption DEF RootHub, Visit, Push
  <2> QED BY <1>1, <2>1, <2>3 DEF RootHub, worldVars
<1>2. CASE Node \/ NameLength \/ Refused
  BY <1>2 DEF Node, NameLength, Refused, Quiet
<1>3. CASE Connection
  BY <1>3, NextPortIs DEF Connection, Quiet, Look
<1>4. CASE HubName
  <2>1. Held \notin Hubs \/ Visited(Held) \/ TooDeep => Quiet
    BY <1>4 DEF HubName, Visit, Quiet
  <2>2. ~(Held \notin Hubs \/ Visited(Held) \/ TooDeep) => Push(Held)
    BY <1>4, StackIs, MaxDepthAssumption DEF HubName, Visit, Visited, TooDeep, Push
  <2> QED BY <1>4, <2>1, <2>2 DEF HubName, Look, worldVars
<1>5. CASE DriverKey
  <2>1. CASE step' = "raised" /\ UNCHANGED <<stack, result>>
    BY <1>5, <2>1 DEF DriverKey, Quiet
  <2>2. CASE result' = Append(result, [conn |-> conn, key |-> Held]) /\ NextPort
    BY <1>5, <2>2, NextPortIs DEF DriverKey, Look
  <2> QED BY <1>5, <2>1, <2>2 DEF DriverKey
<1>6. CASE Change \/ UNCHANGED vars
  BY <1>6 DEF Change, Quiet, vars
<1> QED BY <1>1, <1>2, <1>3, <1>4, <1>5, <1>6 DEF Next, Walk

LEMMA PushCalls == ASSUME Recursion, NEW hub, Push(hub) PROVE Recursion'
<1>1. /\ <<hub, 1>> \in Socket
      /\ stack' \in Seq(Socket) /\ Len(stack') = Len(stack) + 1 /\ Len(stack) \in Nat
      /\ \A i \in 1..Len(stack) : stack'[i] = stack[i]
      /\ stack'[Len(stack) + 1] = <<hub, 1>>
  BY PortsAssumption DEF Recursion, Calls, Push, Socket
<1>2. \A i \in 1..Len(stack') : stack'[i][1] \in visited'
  BY <1>1 DEF Recursion, Calls, Push
<1>3. \A i, j \in 1..Len(stack') : stack'[i][1] = stack'[j][1] => i = j
  <2>1. \A i \in 1..Len(stack) : stack'[i][1] # hub
    BY <1>1 DEF Recursion, Calls, Push
  <2>2. \A i \in 1..Len(stack') : i \in 1..Len(stack) \/ i = Len(stack) + 1
    BY <1>1
  <2> QED BY <1>1, <2>1, <2>2 DEF Recursion, Calls
<1>4. Len(stack') <= MaxDepth + 1
  BY <1>1, MaxDepthAssumption DEF Push
<1> QED BY <1>1, <1>2, <1>3, <1>4 DEF Recursion, Calls, Push, Looking

\* The calls left are for the hubs they were for.
LEMMA BackHubs ==
  ASSUME Recursion, Back
  PROVE  \A i \in 1..Len(stack') : i \in 1..Len(stack) /\ stack'[i][1] = stack[i][1]
<1>1. CASE stack' = <<>>
  BY <1>1
<1>2. ASSUME NEW n \in 1..Len(stack), BackTo(n), NEW i \in 1..Len(stack')
      PROVE  i \in 1..Len(stack) /\ stack'[i][1] = stack[i][1]
  <2>1. Len(stack') = n /\ i \in 1..n /\ i \in 1..Len(stack)
    BY <1>2, StackIs DEF BackTo
  <2>2. CASE i = n
    <3>1. stack'[i] = <<stack[n][1], stack[n][2] + 1>>
      BY <1>2, <2>1, <2>2 DEF BackTo
    <3> QED BY <2>1, <2>2, <3>1
  <2>3. CASE i # n
    BY <1>2, <2>1, <2>3 DEF BackTo
  <2> QED BY <2>2, <2>3
<1> QED BY <1>1, <1>2 DEF Back

LEMMA BackCalls == ASSUME Recursion, step \in Looking, Back, UNCHANGED visited PROVE Recursion'
<1>1. CASE stack' = <<>> /\ step' = "done"
  BY <1>1, MaxDepthAssumption DEF Recursion, Calls, Looking
<1>2. ASSUME NEW n \in 1..Len(stack), BackTo(n) PROVE Recursion'
  <2>1. n \in Nat /\ n > 0 /\ n <= Len(stack) /\ Len(stack') = n
    BY <1>2, StackIs DEF BackTo
  <2>2. \A i \in 1..n : stack'[i][1] = stack[i][1]
    BY <2>1, BackHubs
  <2>3. Calls'
    <3>1. stack' \in Seq(Socket) /\ Len(stack') = n /\ Len(stack) \in Nat /\ Len(stack) <= MaxDepth + 1
      BY <1>2, StackIs DEF BackTo, Recursion, Calls
    <3>2. \A i \in 1..n : i \in 1..Len(stack)
      BY <2>1, <3>1
    <3>3. \A i \in 1..n : stack'[i][1] \in visited
      BY <2>2, <3>2 DEF Recursion, Calls
    <3>4. \A i, j \in 1..n : stack'[i][1] = stack'[j][1] => i = j
      BY <2>2, <3>2 DEF Recursion, Calls
    <3>5. Len(stack') <= MaxDepth + 1
      BY <2>1, <3>1, MaxDepthAssumption
    <3> QED BY <3>1, <3>3, <3>4, <3>5 DEF Calls
  <2> QED BY <1>2, <2>1, <2>3 DEF Recursion, BackTo, Looking
<1> QED BY <1>1, <1>2 DEF Back

LEMMA RecursionStep == ASSUME Recursion, [Next]_vars PROVE Recursion'
<1>1. CASE Quiet
  BY <1>1 DEF Quiet, Recursion, Calls, Looking
<1>2. CASE \E hub : Push(hub)
  BY <1>2, PushCalls
<1>3. CASE Look /\ Back /\ UNCHANGED visited
  BY <1>3, BackCalls DEF Look
<1> QED BY <1>1, <1>2, <1>3, StepIs

LEMMA AlwaysRecursion == Spec => []Recursion
<1>1. Init => Recursion
  BY MaxDepthAssumption DEF Init, Recursion, Calls, Looking
<1> QED BY <1>1, RecursionStep, PTL DEF Spec

-----------------------------------------------------------------------------
(* The ports the walk is through with: the one it looks at is not among them,
   and joins them when the walk goes into it or past it. *)

LEMMA TopNotEntered ==
  ASSUME Recursion, Len(stack) > 0 PROVE Top \in Socket /\ ~Entered(Top)
<1>1. Len(stack) \in 1..Len(stack) /\ Top \in Socket /\ Top[2] \in 1..Ports
  BY StackIs DEF Top
<1>2. ~Passed(Top)
  BY <1>1, PortsAssumption DEF Passed, Top
<1>3. \A i \in 1..Len(stack) : i < Len(stack) => stack[i] # Top
  BY <1>1, StackIs DEF Top, Recursion, Calls
<1> QED BY <1>1, <1>2, <1>3 DEF Entered

LEMMA PushEntered ==
  ASSUME Recursion, NEW hub, Push(hub)
  PROVE  \A s \in Socket : Entered(s)' <=> Entered(s) \/ (Len(stack) > 0 /\ s = Top)
<1> SUFFICES ASSUME NEW s \in Socket PROVE Entered(s)' <=> Entered(s) \/ (Len(stack) > 0 /\ s = Top)
  OBVIOUS
<1>1. /\ Len(stack') = Len(stack) + 1 /\ Len(stack) \in Nat
      /\ \A i \in 1..Len(stack) : stack'[i] = stack[i]
      /\ stack'[Len(stack) + 1] = <<hub, 1>>
      /\ s[1] \in Hubs /\ s[2] \in 1..Ports
  BY PortsAssumption DEF Recursion, Calls, Push, Socket
<1>2. \A i \in 1..Len(stack') : i \in 1..Len(stack) \/ i = Len(stack) + 1
  BY <1>1
<1>3. Passed(s)' <=> Passed(s)
  <2>1. CASE s[1] = hub
    <3>1. ~Passed(s)
      BY <2>1 DEF Passed, Push
    <3>2. ~Passed(s)'
      BY <1>1, <2>1, PortsAssumption DEF Passed
    <3> QED BY <3>1, <3>2
  <2>2. CASE s[1] # hub
    BY <1>1, <1>2, <2>2 DEF Passed, Push
  <2> QED BY <2>1, <2>2
<1>4. (\E i \in 1..Len(stack') : i < Len(stack') /\ stack'[i] = s)
      <=> \E i \in 1..Len(stack) : stack[i] = s
  BY <1>1, <1>2
<1>5. (\E i \in 1..Len(stack) : stack[i] = s)
      <=> (\E i \in 1..Len(stack) : i < Len(stack) /\ stack[i] = s) \/ (Len(stack) > 0 /\ s = Top)
  BY <1>1 DEF Top
<1> QED BY <1>3, <1>4, <1>5 DEF Entered

LEMMA BackEntered ==
  ASSUME Recursion, step \in Looking, Back, UNCHANGED visited
  PROVE  \A s \in Socket : Entered(s)' <=> Entered(s) \/ s = Top
<1> SUFFICES ASSUME NEW s \in Socket PROVE Entered(s)' <=> Entered(s) \/ s = Top
  OBVIOUS
<1>1. s[1] \in Hubs /\ s[2] \in 1..Ports /\ s = <<s[1], s[2]>>
  BY DEF Socket
<1>2. Len(stack) \in Nat /\ Len(stack) > 0 /\ Len(stack) \in 1..Len(stack)
  BY StackIs DEF Recursion
<1>3. Entered(s) \/ s = Top <=> Passed(s) \/ \E i \in 1..Len(stack) : stack[i] = s
  BY <1>2 DEF Entered, Top
<1>4. \A i, j \in 1..Len(stack) : stack[i][1] = stack[j][1] => i = j
  BY DEF Recursion, Calls
<1>5. CASE stack' = <<>> /\ \A i \in 1..Len(stack) : stack[i][2] = Ports
  <2>1. Entered(s)' <=> s[1] \in visited
    BY <1>5 DEF Entered, Passed
  <2>2. ASSUME s[1] \in visited, ~Passed(s) PROVE \E i \in 1..Len(stack) : stack[i] = s
    <3>1. PICK i \in 1..Len(stack) : stack[i][1] = s[1] /\ ~(s[2] < stack[i][2])
      BY <2>2 DEF Passed
    <3>2. s[2] = Ports /\ stack[i][2] = Ports
      BY <1>1, <1>5, <3>1, PortsAssumption
    <3> QED BY <1>1, <3>1, <3>2, StackIs
  <2>3. Passed(s) \/ (\E i \in 1..Len(stack) : stack[i] = s) => s[1] \in visited
    BY DEF Passed, Recursion, Calls
  <2> QED BY <1>3, <2>1, <2>2, <2>3
<1>6. ASSUME NEW n \in 1..Len(stack), BackTo(n) PROVE Entered(s)' <=> Entered(s) \/ s = Top
  <2>1. /\ n \in Nat /\ n > 0 /\ n <= Len(stack) /\ Len(stack') = n /\ stack[n][2] \in 1..Ports
        /\ stack[n][2] < Ports
        /\ \A i \in 1..n : i \in 1..Len(stack) /\ stack[i][2] \in 1..Ports
    BY <1>6, StackIs DEF BackTo
  <2>2. /\ \A i \in 1..n : i < n => stack'[i] = stack[i]
        /\ stack'[n] = <<stack[n][1], stack[n][2] + 1>>
        /\ \A i \in 1..Len(stack) : i > n => stack[i][2] = Ports
    BY <1>6, <2>1 DEF BackTo
  <2>3. CASE \E i \in 1..Len(stack) : i > n /\ stack[i][1] = s[1]
    <3>1. PICK i \in 1..Len(stack) : i > n /\ stack[i][1] = s[1]
      BY <2>3
    <3>2. \A j \in 1..Len(stack) : stack[j][1] = s[1] => j = i
      BY <1>4, <3>1
    <3>3. stack[i][2] = Ports /\ s[1] \in visited
      BY <2>2, <3>1 DEF Recursion, Calls
    <3>4. Passed(s)'
      <4>1. \A j \in 1..n : stack'[j][1] = stack[j][1]
        BY <2>1, <2>2
      <4>2. \A j \in 1..n : stack'[j][1] # s[1]
        BY <2>1, <3>1, <3>2, <4>1
      <4> QED BY <2>1, <3>3, <4>2 DEF Passed
    <3>5. Passed(s) \/ stack[i] = s
      <4>1. CASE s[2] < Ports
        BY <3>2, <3>3, <4>1 DEF Passed
      <4>2. CASE s[2] = Ports
        BY <1>1, <3>1, <3>3, <4>2, StackIs
      <4> QED BY <1>1, <4>1, <4>2, PortsAssumption
    <3> QED BY <1>3, <3>4, <3>5 DEF Entered
  <2>4. CASE s[1] = stack[n][1]
    <3>1. /\ \A j \in 1..Len(stack) : stack[j][1] = s[1] => j = n
          /\ s[1] \in visited
      BY <1>4, <2>4 DEF Recursion, Calls
    <3>2. Passed(s) <=> s[2] < stack[n][2]
      BY <2>4, <3>1 DEF Passed
    <3>3. (\E i \in 1..Len(stack) : stack[i] = s) <=> s[2] = stack[n][2]
      BY <1>1, <2>4, <3>1, StackIs
    <3>4. Passed(s)' <=> s[2] < stack[n][2] + 1
      <4>1. \A j \in 1..n : stack'[j][1] = s[1] => j = n
        BY <2>1, <2>2, <3>1
      <4> QED BY <2>1, <2>2, <2>4, <3>1, <4>1 DEF Passed
    <3>5. ~\E i \in 1..Len(stack') : i < Len(stack') /\ stack'[i] = s
      BY <2>1, <2>2, <3>1
    <3>6. s[2] < stack[n][2] + 1 <=> s[2] < stack[n][2] \/ s[2] = stack[n][2]
      BY <1>1, <2>1, PortsAssumption
    <3> QED BY <1>3, <3>2, <3>3, <3>4, <3>5, <3>6 DEF Entered
  <2>5. CASE s[1] # stack[n][1] /\ ~\E i \in 1..Len(stack) : i > n /\ stack[i][1] = s[1]
    <3>1. \A i \in 1..Len(stack) : stack[i][1] = s[1] => i < n
      BY <2>1, <2>5
    <3>2. \A i \in 1..n : stack'[i][1] = s[1] => i < n
      BY <2>1, <2>2, <2>5
    <3>3. Passed(s)' <=> Passed(s)
      BY <2>1, <2>2, <3>1, <3>2 DEF Passed
    <3>4. (\E i \in 1..Len(stack') : i < Len(stack') /\ stack'[i] = s)
          <=> \E i \in 1..Len(stack) : stack[i] = s
      BY <2>1, <2>2, <3>1
    <3> QED BY <1>3, <3>3, <3>4 DEF Entered
  <2> QED BY <2>3, <2>4, <2>5
<1> QED BY <1>5, <1>6 DEF Back

-----------------------------------------------------------------------------
(* Types, and a reader found once. *)

Values == /\ plug \in [Socket -> Item] /\ moved \subseteq Readers /\ changes \in 0..MaxChanges
          /\ conn \in Item /\ failed \in BOOLEAN
          /\ result \in Seq([conn : Readers, key : Item])

\* A change moves one device, and notes it if it is a reader.
LEMMA ChangeIs ==
  ASSUME Values, Change
  PROVE  /\ plug' \in [Socket -> Item] /\ moved \subseteq moved' /\ moved' \subseteq Readers
         /\ \A r \in Readers \ moved', s \in Socket : plug'[s] = r <=> plug[s] = r
<1>1. PICK from \in Socket :
        /\ plug[from] # None
        /\ moved' = moved \cup ({plug[from]} \cap Readers)
        /\ \/ plug' = [plug EXCEPT ![from] = None]
           \/ \E to \in Socket : /\ plug[to] = None
                                 /\ plug' = [plug EXCEPT ![to] = plug[from], ![from] = None]
  BY DEF Change
<1>2. None \in Item /\ plug[from] \in Item
  BY DEF Item, Values
<1>3. CASE plug' = [plug EXCEPT ![from] = None]
  BY <1>1, <1>2, <1>3, DevicesAssumption DEF Values
<1>4. ASSUME NEW to \in Socket, plug[to] = None, plug' = [plug EXCEPT ![to] = plug[from], ![from] = None]
      PROVE  /\ plug' \in [Socket -> Item]
             /\ \A r \in Readers \ moved', s \in Socket : plug'[s] = r <=> plug[s] = r
  <2>1. plug' \in [Socket -> Item]
    BY <1>2, <1>4 DEF Values
  <2>2. \A s \in Socket : plug'[s] = IF s = from THEN None ELSE IF s = to THEN plug[from] ELSE plug[s]
    BY <1>4 DEF Values
  <2> QED BY <1>1, <1>4, <2>1, <2>2, DevicesAssumption
<1> QED BY <1>1, <1>3, <1>4 DEF Values

LEMMA ValuesStep == ASSUME Recursion, Values, [Next]_vars PROVE Values'
<1>1. CASE Change
  BY <1>1, ChangeIs, MaxChangesAssumption DEF Change, Values
<1>2. CASE ~Change
  <2>1. UNCHANGED worldVars
    BY <1>2 DEF Next, Walk, RootHub, Node, Connection, NameLength, HubName, DriverKey, Refused, vars
  <2>2. failed' \in BOOLEAN
    BY <1>2 DEF Next, Walk, RootHub, Node, Connection, NameLength, HubName, DriverKey, Refused, vars, Values
  <2>3. step \in Looking => Held \in Item
    BY TopNotEntered DEF Held, Values, Recursion
  <2>4. conn' \in Item
    BY <1>2, <2>3 DEF Next, Walk, RootHub, Node, Connection, NameLength, HubName, DriverKey, Refused, vars, Values,
       Looking
  <2>5. result' \in Seq([conn : Readers, key : Item])
    <3>1. CASE result' = result
      BY <3>1 DEF Values
    <3>2. CASE DriverKey /\ result' # result
      <4>1. conn \in Readers /\ Held \in Item
        BY <2>3, <3>2 DEF DriverKey, Looking
      <4>2. [conn |-> conn, key |-> Held] \in [conn : Readers, key : Item]
        BY <4>1
      <4>3. result' = Append(result, [conn |-> conn, key |-> Held])
        BY <3>2 DEF DriverKey
      <4> HIDE DEF Held
      <4> QED BY <4>2, <4>3, AppendProperties DEF Values
    <3> QED BY <1>2, <3>1, <3>2 DEF Next, Walk, RootHub, Node, Connection, NameLength, HubName, DriverKey,
               Refused, vars
  <2> QED BY <2>1, <2>2, <2>4, <2>5 DEF Values, worldVars
<1> QED BY <1>1, <1>2

LEMMA AlwaysValues == Spec => []Values
<1>1. Init => Values
  <2>1. Init => changes = 0 /\ 0 \in 0..MaxChanges
    BY MaxChangesAssumption DEF Init
  <2>2. Init => moved = {} /\ failed = FALSE /\ plug \in [Socket -> Item] /\ conn \in Item
    BY DEF Init, Item
  <2>3. Init => result \in Seq([conn : Readers, key : Item])
    BY EmptySeq DEF Init
  <2> QED BY <2>1, <2>2, <2>3 DEF Values
<1> QED BY <1>1, ValuesStep, AlwaysRecursion, PTL DEF Spec

\* Types: calls are never deeper than the code's limit allows.
THEOREM WalkTypes == Spec => []TypeOK
<1>1. Recursion /\ Values => TypeOK
  BY DEF Recursion, Calls, Looking, Values, TypeOK
<1> QED BY <1>1, AlwaysRecursion, AlwaysValues, PTL

\* A reader nobody touched has one port, and is found only when the walk is
\* through with it.
Once ==
  \A r \in Readers \ moved :
    /\ \A s, t \in Socket : plug[s] = r /\ plug[t] = r => s = t
    /\ Hits(r) # {} => \E s \in Socket : plug[s] = r /\ Entered(s)
    /\ \A i, j \in Hits(r) : i = j

\* What is entered stays so, and the port looked at joins it where the walk goes on.
LEMMA EnteredGrows ==
  ASSUME Recursion, [Next]_vars, NEW s \in Socket
  PROVE  /\ Entered(s) => Entered(s)'
         /\ Entered(s)' => Entered(s) \/ (Len(stack) > 0 /\ s = Top)
         /\ step \in Looking /\ Back /\ UNCHANGED visited => (s = Top => Entered(s)')
<1>1. CASE Quiet
  <2>1. Entered(s)' <=> Entered(s)
    BY <1>1 DEF Quiet, Entered, Passed
  <2> QED BY <2>1, BackEntered
<1>2. CASE \E hub : Push(hub)
  BY <1>2, PushEntered, BackEntered
<1>3. CASE Look /\ Back /\ UNCHANGED visited
  BY <1>3, BackEntered DEF Look, Recursion
<1> QED BY <1>1, <1>2, <1>3, StepIs

\* The result grows only by the device on the port looked at.
LEMMA HitsGrow ==
  ASSUME Recursion, Values, [Next]_vars
  PROVE  \/ \A r : Hits(r)' = Hits(r)
         \/ /\ Look /\ Back /\ UNCHANGED visited /\ conn \in Readers
            /\ \A r : Hits(r)' = IF r = Held THEN Hits(r) \cup {Len(result) + 1} ELSE Hits(r)
<1>1. CASE result' = result
  BY <1>1 DEF Hits
<1>2. CASE /\ Look /\ conn \in Readers /\ Back /\ UNCHANGED visited
           /\ result' = Append(result, [conn |-> conn, key |-> Held])
  <2>1. /\ Len(result) \in Nat /\ DOMAIN result = 1..Len(result)
        /\ DOMAIN result' = 1..(Len(result) + 1)
        /\ \A i \in 1..Len(result) : result'[i] = result[i]
        /\ result'[Len(result) + 1] = [conn |-> conn, key |-> Held]
    BY <1>2 DEF Values
  <2>2. \A i : i \in 1..(Len(result) + 1) <=> i \in 1..Len(result) \/ i = Len(result) + 1
    BY <2>1
  <2>3. ASSUME NEW r PROVE Hits(r)' = IF r = Held THEN Hits(r) \cup {Len(result) + 1} ELSE Hits(r)
    BY <2>1, <2>2 DEF Hits
  <2> QED BY <1>2, <2>3
<1> QED BY <1>1, <1>2, StepIs DEF Quiet

LEMMA OnceStep == ASSUME Recursion, Values, Once, [Next]_vars PROVE Once'
<1> SUFFICES ASSUME NEW r \in Readers \ moved'
             PROVE  /\ \A s, t \in Socket : plug'[s] = r /\ plug'[t] = r => s = t
                    /\ Hits(r)' # {} => \E s \in Socket : plug'[s] = r /\ Entered(s)'
                    /\ \A i, j \in Hits(r)' : i = j
  BY DEF Once
<1>1. r \in Readers \ moved /\ \A s \in Socket : plug'[s] = r <=> plug[s] = r
  <2>1. CASE Change
    BY <2>1, ChangeIs
  <2>2. CASE ~Change
    BY <2>2 DEF Next, Walk, RootHub, Node, Connection, NameLength, HubName, DriverKey, Refused, vars, worldVars
  <2> QED BY <2>1, <2>2
<1>2. \A s, t \in Socket : plug'[s] = r /\ plug'[t] = r => s = t
  BY <1>1 DEF Once
<1>3. CASE Hits(r)' = Hits(r)
  <2>1. Hits(r) # {} => \E s \in Socket : plug'[s] = r /\ Entered(s)'
    BY <1>1, EnteredGrows DEF Once
  <2> QED BY <1>1, <1>2, <1>3, <2>1 DEF Once
<1>4. CASE Hits(r)' # Hits(r)
  <2>1. /\ Look /\ Back /\ UNCHANGED visited /\ r = Held
        /\ Hits(r)' = Hits(r) \cup {Len(result) + 1}
    BY <1>4, HitsGrow
  <2>2. PICK s \in Socket : s = Top /\ ~Entered(s) /\ plug[s] = r
    BY <2>1, TopNotEntered DEF Look, Recursion, Held
  <2>3. Hits(r) = {}
    BY <1>1, <2>2 DEF Once
  <2>4. Entered(s)'
    BY <2>1, <2>2, EnteredGrows DEF Look
  <2> QED BY <1>1, <1>2, <2>1, <2>2, <2>3, <2>4
<1> QED BY <1>3, <1>4

LEMMA AlwaysOnce == Spec => []Once
<1>1. Init => Once
  BY DEF Init, Once, Hits
<1> QED BY <1>1, OnceStep, AlwaysRecursion, AlwaysValues, PTL DEF Spec

\* No wiring and no change of it makes the walk count an untouched reader twice.
THEOREM FoundAtMostOnce == Spec => []CountedOnce
<1>1. Once => CountedOnce
  <2> SUFFICES ASSUME Once, NEW r \in Readers \ moved PROVE Cardinality(Hits(r)) <= 1
    BY DEF CountedOnce
  <2>1. CASE Hits(r) = {}
    BY <2>1, FS_EmptySet
  <2>2. CASE Hits(r) # {}
    <3>1. PICK i \in Hits(r) : Hits(r) = {i}
      BY <2>2 DEF Once
    <3>2. Cardinality({i}) = 1
      BY FS_Singleton
    <3> QED BY <3>1, <3>2
  <2> QED BY <2>1, <2>2
<1> QED BY <1>1, AlwaysOnce, PTL

-----------------------------------------------------------------------------
(* The hubs reached from one: the least set that holds it and is closed. *)

LEMMA ReachedLeast ==
  ASSUME NEW S \in SUBSET Hubs, ClosedUnder(S), NEW h \in S
  PROVE  Reached(h) \subseteq S
BY DEF Reached

LEMMA ReachedSelf == \A h \in Hubs : h \in Reached(h)
BY DEF Reached

LEMMA ReachedStep ==
  ASSUME NEW h \in Hubs, NEW s \in Socket, s[1] \in Reached(h), plug[s] \in Hubs
  PROVE  plug[s] \in Reached(h)
BY DEF Reached, ClosedUnder

LEMMA ReachedStays ==
  ASSUME plug' = plug
  PROVE  /\ \A h : Reached(h)' = Reached(h)
         /\ Behind' = Behind /\ (IsTree' <=> IsTree)
<1>1. \A S : ClosedUnder(S)' <=> ClosedUnder(S)
  BY DEF ClosedUnder
<1>2. \A h : Reached(h)' = Reached(h)
  BY <1>1 DEF Reached
<1>3. Behind' = Behind
  BY <1>2 DEF Behind
<1>4. \A h : Depth(h)' = Depth(h)
  BY <1>2 DEF Depth
<1> QED BY <1>2, <1>3, <1>4 DEF IsTree

-----------------------------------------------------------------------------
(* The walk of hubs that nobody changes, with no ioctl that fails. *)

Fixed == changes = 0 /\ ~failed

\* The port looked at still holds what was decoded.
Looked == moved = {} /\ (step \in {"header", "data"} => conn = Held /\ conn # None)

\* The walk turns back only from a hub it has met, or from one too deep.
Met == step = "data" /\ Held \in Hubs /\ (Held \in visited \/ Len(stack) > MaxDepth)

LEMMA FixedStep ==
  ASSUME Recursion, Values, Fixed => Looked, [Next]_vars, Fixed'
  PROVE  /\ Fixed /\ plug' = plug /\ Looked'
         /\ \/ /\ UNCHANGED <<stack, visited, result>> /\ (step = "root" <=> step' = "root")
               /\ step' = "done" => step = "done"
               /\ step' = "raised" => step = "raised" \/ Met
            \/ step = "root" /\ Push(Root) /\ UNCHANGED result
            \/ Look /\ Held \in Hubs /\ Push(Held) /\ UNCHANGED result
            \/ Look /\ Held = None /\ Back /\ UNCHANGED <<visited, result>>
            \/ /\ Look /\ Held \in Readers /\ Back /\ UNCHANGED visited
               /\ result' = Append(result, [conn |-> Held, key |-> Held])
<1>1. ~Change
  BY MaxChangesAssumption DEF Change, Fixed, Values
<1>2. ~Refused
  BY DEF Refused, Fixed
<1>3. Fixed /\ plug' = plug /\ moved' = moved
  BY <1>1, <1>2 DEF Next, Walk, RootHub, Node, Connection, NameLength, HubName, DriverKey, vars, worldVars, Fixed
<1>4. Looked
  BY <1>3
<1>5. stack' = stack => Held' = Held
  BY <1>3 DEF Held, Top
<1>6. CASE RootHub
  <2>1. step = "root" /\ Push(Root) /\ UNCHANGED result
    <3>1. step = "root" /\ Len(stack) = 0 /\ visited = {}
      BY <1>6 DEF RootHub, Recursion
    <3> QED BY <1>6, <3>1, MaxDepthAssumption, RootAssumption DEF RootHub, Visit, Visited, TooDeep, Push
  <2> QED BY <1>3, <1>4, <2>1 DEF Looked, Push
<1>7. CASE Node \/ UNCHANGED vars
  BY <1>3, <1>4, <1>5, <1>7 DEF Node, vars, Looked
<1>8. CASE Connection
  <2>1. CASE Held = None
    <3>1. Back /\ Look
      BY <1>8, <2>1, NextPortIs DEF Connection, Look, Looking
    <3>2. step' \in {"port", "done"}
      BY <3>1 DEF Back, BackTo
    <3> QED BY <1>3, <1>4, <1>8, <2>1, <3>1, <3>2 DEF Connection, Looked
  <2>2. CASE Held # None
    BY <1>3, <1>4, <1>5, <1>8, <2>2 DEF Connection, Looked
  <2> QED BY <2>1, <2>2
<1>9. CASE NameLength
  <2>1. step' = "data"
    BY <1>4, <1>9 DEF NameLength, Looked
  <2> QED BY <1>3, <1>4, <1>5, <1>9, <2>1 DEF NameLength, Looked
<1>10. CASE HubName
  <2>1. step = "data" /\ Held = conn /\ Held \in Hubs /\ Look /\ Visit(Held) /\ UNCHANGED <<conn, result>>
    BY <1>4, <1>10 DEF HubName, Looked, Look, Looking, worldVars
  <2>2. CASE Visited(Held) \/ TooDeep
    BY <1>3, <1>4, <2>1, <2>2 DEF Visit, Visited, TooDeep, Met, Looked
  <2>3. CASE ~(Visited(Held) \/ TooDeep)
    <3>1. Push(Held)
      BY <2>1, <2>3, StackIs, MaxDepthAssumption DEF Visit, Visited, TooDeep, Push
    <3> QED BY <1>3, <1>4, <2>1, <3>1 DEF Push, Looked
  <2> QED BY <2>2, <2>3
<1>11. CASE DriverKey
  <2>1. /\ Held = conn /\ Held \in Readers /\ Held # None /\ Look /\ UNCHANGED visited
        /\ result' = Append(result, [conn |-> Held, key |-> Held]) /\ NextPort
    BY <1>4, <1>11 DEF DriverKey, Looked, Look, Looking, worldVars
  <2>2. Back
    BY <2>1, NextPortIs
  <2>3. step' \in {"port", "done"}
    BY <2>2 DEF Back, BackTo
  <2> QED BY <1>3, <1>4, <2>1, <2>2, <2>3 DEF Looked
<1> QED BY <1>1, <1>2, <1>6, <1>7, <1>8, <1>9, <1>10, <1>11 DEF Next, Walk

\* The hubs met are reached from the root, and each but the root was met
\* through the one port that holds it.
Known ==
  /\ step # "root" => Root \in visited
  /\ visited \subseteq Reached(Root)
  /\ \A s \in Socket : Entered(s) /\ plug[s] \in Hubs => plug[s] \in visited /\ plug[s] # Root
  /\ \A h \in visited : h # Root => \E s \in Socket : Entered(s) /\ plug[s] = h
  /\ \A s, t \in Socket : Entered(s) /\ Entered(t) /\ plug[s] \in Hubs /\ plug[s] = plug[t] => s = t
  /\ \A i, j \in 1..Len(stack) : i <= j => stack[j][1] \in Reached(stack[i][1])

LEMMA EnteredOf == ASSUME Recursion, NEW s \in Socket, Entered(s) PROVE s[1] \in visited
BY DEF Entered, Passed, Recursion, Calls

LEMMA KnownPush ==
  ASSUME Recursion, Known, plug' = plug, step \in Looking, Held \in Hubs, Push(Held)
  PROVE  Known'
<1>1. /\ Len(stack) \in Nat /\ Len(stack) \in 1..Len(stack) /\ Top \in Socket /\ Top[1] \in visited
      /\ plug[Top] = Held
  BY TopNotEntered, StackIs DEF Recursion, Calls, Top, Held
<1>2. Held \notin visited /\ visited' = visited \cup {Held} /\ step' = "node" /\ Root \in visited
  BY DEF Push, Known, Looking
<1>3. \A h : Reached(h)' = Reached(h)
  BY ReachedStays
<1>4. PICK top \in Socket : top = Top
  BY <1>1
<1>5. \A s \in Socket : Entered(s)' <=> Entered(s) \/ s = top
  BY <1>1, <1>4, PushEntered
<1>6. visited' \subseteq Reached(Root)
  BY <1>1, <1>2, <1>4, ReachedStep, RootAssumption DEF Known
<1>7. \A s \in Socket : Entered(s)' /\ plug[s] \in Hubs => plug[s] \in visited' /\ plug[s] # Root
  BY <1>1, <1>2, <1>4, <1>5 DEF Known
<1>8. \A h \in visited' : h # Root => \E s \in Socket : Entered(s)' /\ plug[s] = h
  BY <1>1, <1>2, <1>4, <1>5 DEF Known
<1>9. \A s, t \in Socket : Entered(s)' /\ Entered(t)' /\ plug[s] \in Hubs /\ plug[s] = plug[t] => s = t
  BY <1>1, <1>2, <1>4, <1>5 DEF Known
<1>10. \A i, j \in 1..Len(stack') : i <= j => stack'[j][1] \in Reached(stack'[i][1])
  <2>1. /\ Len(stack') = Len(stack) + 1
        /\ \A i \in 1..Len(stack) : stack'[i] = stack[i]
        /\ stack'[Len(stack) + 1] = <<Held, 1>>
    BY PortsAssumption DEF Recursion, Calls, Push, Socket
  <2>2. \A i \in 1..Len(stack) : Held \in Reached(stack[i][1])
    <3> SUFFICES ASSUME NEW i \in 1..Len(stack) PROVE Held \in Reached(stack[i][1])
      OBVIOUS
    <3>1. Top[1] \in Reached(stack[i][1]) /\ stack[i][1] \in Hubs
      BY <1>1, StackIs DEF Known, Top
    <3> QED BY <1>1, <1>4, <3>1, ReachedStep
  <2>3. \A i \in 1..Len(stack') : i \in 1..Len(stack) \/ i = Len(stack) + 1
    BY <1>1, <2>1
  <2>4. \A i, j \in 1..Len(stack) : i <= j => stack'[j][1] \in Reached(stack'[i][1])
    BY <2>1 DEF Known
  <2>5. \A i \in 1..Len(stack') : stack'[Len(stack) + 1][1] \in Reached(stack'[i][1])
    BY <2>1, <2>2, <2>3, ReachedSelf
  <2>6. \A i \in 1..Len(stack) : ~(Len(stack) + 1 <= i)
    BY <1>1
  <2> QED BY <2>3, <2>4, <2>5, <2>6
<1> QED BY <1>2, <1>3, <1>6, <1>7, <1>8, <1>9, <1>10 DEF Known

LEMMA KnownBack ==
  ASSUME Recursion, Known, plug' = plug, step \in Looking, Held \notin Hubs, Back, UNCHANGED visited
  PROVE  Known'
<1>1. \A h : Reached(h)' = Reached(h)
  BY ReachedStays
<1>2. PICK top \in Socket : top = Top /\ plug[top] \notin Hubs
  BY TopNotEntered DEF Recursion, Held
<1>3. \A s \in Socket : plug[s] \in Hubs => (Entered(s)' <=> Entered(s))
  BY <1>2, BackEntered
<1>4. step' # "root" /\ Root \in visited
  BY DEF Known, Looking, Back, BackTo
<1>5. \A h \in Hubs : h \in visited => h \in visited'
  OBVIOUS
<1>6. \A i, j \in 1..Len(stack') : i <= j => stack'[j][1] \in Reached(stack'[i][1])
  <2>1. \A i \in 1..Len(stack') : i \in 1..Len(stack) /\ stack'[i][1] = stack[i][1]
    BY BackHubs
  <2> QED BY <2>1 DEF Known
<1>7. \A h \in visited : h # Root => \E s \in Socket : Entered(s)' /\ plug[s] = h
  BY <1>3 DEF Known, Recursion
<1>8. \A s \in Socket : Entered(s)' /\ plug[s] \in Hubs => plug[s] \in visited /\ plug[s] # Root
  BY <1>3 DEF Known
<1>9. \A s, t \in Socket : Entered(s)' /\ Entered(t)' /\ plug[s] \in Hubs /\ plug[s] = plug[t] => s = t
  BY <1>3 DEF Known
<1> QED BY <1>1, <1>4, <1>6, <1>7, <1>8, <1>9 DEF Known

LEMMA KnownStep ==
  ASSUME Recursion, Values, Fixed => Looked /\ Known, [Next]_vars, Fixed'
  PROVE  Known'
<1> USE FixedStep
<1>1. CASE UNCHANGED <<stack, visited>> /\ (step = "root" <=> step' = "root")
  <2>1. /\ \A h : Reached(h)' = Reached(h)
        /\ \A s : Entered(s)' <=> Entered(s)
    BY <1>1, ReachedStays DEF Entered, Passed
  <2> QED BY <1>1, <2>1 DEF Known
<1>2. CASE step = "root" /\ Push(Root)
  <2>1. /\ stack = <<>> /\ Len(stack) = 0 /\ visited = {} /\ visited' = {Root} /\ step' = "node"
        /\ plug' = plug
    BY <1>2 DEF Recursion, Push
  <2>2. \A s \in Socket : ~Entered(s)'
    BY <1>2, <2>1, PushEntered, EnteredOf
  <2>3. stack' = <<<<Root, 1>>>> /\ Len(stack') = 1
    BY <1>2, <2>1 DEF Push
  <2>4. Root \in Reached(Root) /\ Reached(Root)' = Reached(Root)
    BY <2>1, ReachedSelf, ReachedStays, RootAssumption
  <2>5. \A i, j \in 1..Len(stack') : stack'[j][1] = Root /\ stack'[i][1] = Root
    BY <2>3
  <2> QED BY <2>1, <2>2, <2>4, <2>5 DEF Known
<1>3. CASE Look /\ Held \in Hubs /\ Push(Held)
  BY <1>3, KnownPush DEF Look
<1>4. CASE Look /\ Held \in Readers \cup {None} /\ Back /\ UNCHANGED visited
  BY <1>4, KnownBack, DevicesAssumption DEF Look
<1> QED BY <1>1, <1>2, <1>3, <1>4

\* Where the walk turns back, the hubs are no tree: a hub is met through a
\* second port, or the root is met again, or a chain is too long.
LEMMA TurnedBack == ASSUME Recursion, Known, Met PROVE ~IsTree
<1>1. PICK top \in Socket : top = Top /\ ~Entered(top) /\ plug[top] = Held
  BY TopNotEntered DEF Met, Recursion, Looking, Held
<1>2. /\ Len(stack) \in Nat /\ Len(stack) \in 1..Len(stack) /\ top[1] = stack[Len(stack)][1]
      /\ top[1] \in visited /\ Held \in Hubs
  BY <1>1, StackIs DEF Met, Recursion, Calls, Looking, Top
<1>3. top \in Behind
  BY <1>2 DEF Behind, Known
<1>4. CASE Held = Root
  BY <1>1, <1>3, <1>4 DEF IsTree
<1>5. CASE Held \in visited /\ Held # Root
  <2>1. PICK s \in Socket : Entered(s) /\ plug[s] = Held
    BY <1>5 DEF Known
  <2>2. s \in Behind /\ s # top
    BY <1>1, <2>1, EnteredOf DEF Known, Behind
  <2> QED BY <1>1, <1>2, <1>3, <2>1, <2>2 DEF IsTree
<1>6. CASE Held \notin visited /\ Len(stack) > MaxDepth
  <2> DEFINE T == {g \in Reached(Root) : Held \in Reached(g)}
             f == [i \in 1..(Len(stack) + 1) |-> IF i = Len(stack) + 1 THEN Held ELSE stack[i][1]]
  <2>1. Held \in Reached(Root) /\ Held \in T
    <3>1. Held \in Reached(Root)
      BY <1>1, <1>2, ReachedStep, RootAssumption DEF Known
    <3> QED BY <1>2, <3>1, ReachedSelf
  <2>2. \A i \in 1..Len(stack) : stack[i][1] \in T /\ stack[i][1] # Held
    <3> SUFFICES ASSUME NEW i \in 1..Len(stack) PROVE stack[i][1] \in T /\ stack[i][1] # Held
      OBVIOUS
    <3>1. stack[i][1] \in visited /\ stack[i][1] \in Hubs /\ top[1] \in Reached(stack[i][1])
      BY <1>2, StackIs DEF Recursion, Calls, Known
    <3> QED BY <1>1, <1>2, <1>6, <3>1, ReachedStep DEF Known
  <2>3. f \in [1..(Len(stack) + 1) -> T]
    BY <1>2, <2>1, <2>2
  <2>4. \A i, j \in 1..(Len(stack) + 1) : i # j => f[i] # f[j]
    <3>1. \A i \in 1..(Len(stack) + 1) : i \in 1..Len(stack) \/ i = Len(stack) + 1
      BY <1>2
    <3>2. \A i, j \in 1..Len(stack) : stack[i][1] = stack[j][1] => i = j
      BY DEF Recursion, Calls
    <3> QED BY <2>2, <3>1, <3>2
  <2>5. T \subseteq Hubs /\ IsFiniteSet(T) /\ Cardinality(T) \in Nat
    <3>1. T \subseteq Hubs
      BY DEF Reached
    <3> QED BY <3>1, FS_Subset, FS_CardinalityType, DevicesAssumption
  <2>6. IsFiniteSet(1..(Len(stack) + 1)) /\ Cardinality(1..(Len(stack) + 1)) = Len(stack) + 1
    BY <1>2, FS_Interval
  <2>7. ~(Cardinality(T) < Len(stack) + 1)
    <3> HIDE DEF T, f
    <3> QED BY <2>3, <2>4, <2>5, <2>6, FS_PigeonHole
  <2>8. Depth(Held) = Cardinality(T) - 1
    BY DEF Depth
  <2>9. ~(Depth(Held) <= MaxDepth)
    <3> HIDE DEF T
    <3> QED BY <1>2, <1>6, <2>5, <2>7, <2>8, MaxDepthAssumption
  <2> QED BY <2>1, <2>9 DEF IsTree
<1> QED BY <1>2, <1>4, <1>5, <1>6 DEF Met

\* Every reader passed is found, under the name of the device it is.
Found ==
  /\ \A s \in Socket : Entered(s) /\ plug[s] \in Readers => Hits(plug[s]) # {}
  /\ \A i \in DOMAIN result : result[i].conn = result[i].key

LEMMA FoundStep ==
  ASSUME Recursion, Values, Fixed => Looked /\ Found, [Next]_vars, Fixed'
  PROVE  Found'
<1>1. Fixed /\ Looked /\ Found /\ plug' = plug
  BY FixedStep
<1>2. CASE result' = result /\ (UNCHANGED <<stack, visited>> \/ step = "root" \/ Held \notin Readers)
  <2>1. \A r : Hits(r)' = Hits(r)
    BY <1>2 DEF Hits
  <2>2. \A s \in Socket : Entered(s)' /\ plug[s] \in Readers => Entered(s)
    <3> SUFFICES ASSUME NEW s \in Socket, Entered(s)', plug[s] \in Readers, ~Entered(s)
                 PROVE  FALSE
      OBVIOUS
    <3>1. Len(stack) > 0 /\ s = Top /\ Held = plug[s]
      BY EnteredGrows DEF Held
    <3>2. UNCHANGED <<stack, visited>>
      BY <1>2, <3>1 DEF Recursion
    <3> QED BY <3>2 DEF Entered, Passed
  <2> QED BY <1>1, <1>2, <2>1, <2>2 DEF Found
<1>3. CASE /\ Look /\ Held \in Readers /\ Back /\ UNCHANGED visited
           /\ result' = Append(result, [conn |-> Held, key |-> Held])
  <2> PICK h \in Readers : h = Held
    BY <1>3
  <2>1. /\ Len(result) \in Nat /\ DOMAIN result = 1..Len(result)
        /\ DOMAIN result' = 1..(Len(result) + 1)
        /\ \A i \in 1..Len(result) : result'[i] = result[i]
        /\ result'[Len(result) + 1] = [conn |-> h, key |-> h]
    BY <1>3 DEF Values
  <2>2. \A i \in 1..(Len(result) + 1) : i \in 1..Len(result) \/ i = Len(result) + 1
    BY <2>1
  <2>3. Len(result) + 1 \in Hits(h)'
    BY <2>1 DEF Hits
  <2>4. \A r : Hits(r) \subseteq Hits(r)'
    BY <2>1 DEF Hits
  <2>5. \A s \in Socket : Entered(s)' => Entered(s) \/ plug[s] = h
    BY EnteredGrows DEF Held
  <2>6. \A s \in Socket : Entered(s)' /\ plug[s] \in Readers => Hits(plug[s])' # {}
    BY <1>1, <2>3, <2>4, <2>5 DEF Found
  <2>7. \A i \in DOMAIN result' : result'[i].conn = result'[i].key
    BY <1>1, <2>1, <2>2 DEF Found
  <2> QED BY <1>1, <2>6, <2>7 DEF Found
<1> QED BY <1>2, <1>3, FixedStep, DevicesAssumption

\* Each hub met has a set of hubs above it, itself among them, no larger than
\* the limit allows, that goes on into what is met from it.
Chain(A) ==
  /\ A \in [visited -> SUBSET visited]
  /\ \A h \in visited : h \in A[h] /\ Cardinality(A[h]) <= MaxDepth + 1
  /\ \A s \in Socket : Entered(s) /\ plug[s] \in Hubs => A[s[1]] \subseteq A[plug[s]]
  /\ \A i \in 1..Len(stack) : Cardinality(A[stack[i][1]]) <= i
Chains == step # "root" => \E A : Chain(A)

LEMMA ChainsPush ==
  ASSUME Recursion, Known, Chains, plug' = plug, step \in Looking, Held \in Hubs, Push(Held)
  PROVE  Chains'
<1>1. PICK A : Chain(A)
  BY DEF Chains, Looking
<1>2. PICK top \in Socket, hub \in Hubs, seen \in SUBSET Hubs, n \in Nat :
        top = Top /\ hub = Held /\ seen = visited /\ n = Len(stack)
  BY TopNotEntered, StackIs DEF Recursion
<1> DEFINE B == [h \in seen \cup {hub} |-> IF h = hub THEN A[top[1]] \cup {hub} ELSE A[h]]
<1>3. /\ n > 0 /\ n \in 1..n /\ n <= MaxDepth /\ top[1] = stack[n][1] /\ top[1] \in seen /\ plug[top] = hub
      /\ hub \notin seen /\ visited' = seen \cup {hub}
      /\ Len(stack') = n + 1 /\ \A i \in 1..n : stack'[i] = stack[i]
      /\ stack'[n + 1] = <<hub, 1>>
  BY <1>2, StackIs, PortsAssumption DEF Recursion, Calls, Push, Socket, Top, Held
<1>4. \A h \in seen : A[h] \subseteq seen /\ B[h] = A[h]
  BY <1>1, <1>2, <1>3 DEF Chain
<1>5. B[hub] = A[top[1]] \cup {hub} /\ A[top[1]] \subseteq seen
  BY <1>3, <1>4
<1>6. B \in [seen \cup {hub} -> SUBSET (seen \cup {hub})]
  BY <1>4, <1>5
<1>7. Cardinality(B[hub]) <= n + 1
  <2>1. IsFiniteSet(A[top[1]]) /\ Cardinality(A[top[1]]) \in Nat
    BY <1>5, FS_Subset, FS_CardinalityType, DevicesAssumption
  <2>2. Cardinality(A[top[1]]) <= n
    BY <1>1, <1>2, <1>3 DEF Chain
  <2> DEFINE above == A[top[1]]
  <2>3. B[hub] = above \cup {hub}
    BY <1>5
  <2> HIDE DEF B, above
  <2>4. Cardinality(above \cup {hub}) = IF hub \in above THEN Cardinality(above) ELSE Cardinality(above) + 1
    BY <2>1, FS_AddElement DEF above
  <2>5. Cardinality(above) <= n /\ Cardinality(above) \in Nat
    BY <2>1, <2>2 DEF above
  <2> QED BY <2>3, <2>4, <2>5
<1> HIDE DEF B
<1>8. \A h \in seen \cup {hub} : h \in B[h] /\ Cardinality(B[h]) <= MaxDepth + 1
  <2>1. Cardinality(B[hub]) \in Nat
    <3>1. B[hub] \subseteq Hubs
      BY <1>5
    <3> QED BY <3>1, FS_Subset, FS_CardinalityType, DevicesAssumption
  <2>2. hub \in B[hub] /\ Cardinality(B[hub]) <= MaxDepth + 1
    BY <1>3, <1>5, <1>7, <2>1, MaxDepthAssumption
  <2>3. \A h \in seen : h \in B[h] /\ Cardinality(B[h]) <= MaxDepth + 1
    BY <1>1, <1>2, <1>4 DEF Chain
  <2> QED BY <2>2, <2>3
<1>9. \A s \in Socket : Entered(s)' /\ plug[s] \in Hubs => B[s[1]] \subseteq B[plug[s]]
  <2>1. \A s \in Socket : Entered(s)' => Entered(s) \/ s = top
    BY <1>2, PushEntered
  <2>2. \A s \in Socket : Entered(s) /\ plug[s] \in Hubs => s[1] \in seen /\ plug[s] \in seen
    BY <1>2, EnteredOf DEF Known
  <2>3. \A s \in Socket : Entered(s) /\ plug[s] \in Hubs => A[s[1]] \subseteq A[plug[s]]
    BY <1>1 DEF Chain
  <2> QED BY <1>3, <1>4, <1>5, <2>1, <2>2, <2>3
<1>10. \A i \in 1..Len(stack') : Cardinality(B[stack'[i][1]]) <= i
  <2>1. \A i \in 1..Len(stack') : i \in 1..n \/ i = n + 1
    BY <1>3
  <2>2. \A i \in 1..n : Cardinality(B[stack'[i][1]]) <= i
    BY <1>1, <1>2, <1>3, <1>4 DEF Chain, Recursion, Calls
  <2> QED BY <1>3, <1>7, <2>1, <2>2
<1>11. Chain(B)'
  BY <1>3, <1>6, <1>8, <1>9, <1>10 DEF Chain
<1> QED BY <1>11 DEF Chains

LEMMA ChainsStep ==
  ASSUME Recursion, Values, Fixed => Looked /\ Known /\ Chains, [Next]_vars, Fixed'
  PROVE  Chains'
<1>1. Fixed /\ Looked /\ Known /\ Chains /\ plug' = plug
  BY FixedStep
<1>2. CASE UNCHANGED <<stack, visited>> /\ (step = "root" <=> step' = "root")
  <2>1. \A s : Entered(s)' <=> Entered(s)
    BY <1>2 DEF Entered, Passed
  <2>2. \A A : Chain(A) => Chain(A)'
    BY <1>1, <1>2, <2>1 DEF Chain
  <2> QED BY <1>1, <1>2, <2>2 DEF Chains
<1>3. CASE step = "root" /\ Push(Root)
  <2>1. stack' = <<<<Root, 1>>>> /\ Len(stack') = 1 /\ visited = {} /\ visited' = {Root} /\ Len(stack) = 0
    BY <1>3 DEF Push, Recursion
  <2>2. \A s \in Socket : ~Entered(s)'
    BY <1>3, <2>1, PushEntered, EnteredOf
  <2> DEFINE A == [h \in {Root} |-> {Root}]
  <2>3. A \in [{Root} -> SUBSET {Root}] /\ A[Root] = {Root} /\ Cardinality(A[Root]) = 1
    BY FS_Singleton
  <2> HIDE DEF A
  <2>4. \A i \in 1..Len(stack') : i = 1 /\ stack'[i][1] = Root
    BY <2>1
  <2>5. 1 <= MaxDepth + 1
    BY MaxDepthAssumption
  <2>6. \A h \in visited' : h \in A[h] /\ Cardinality(A[h]) <= MaxDepth + 1
    BY <2>1, <2>3, <2>5
  <2>7. \A i \in 1..Len(stack') : Cardinality(A[stack'[i][1]]) <= i
    <3> SUFFICES ASSUME NEW i \in 1..Len(stack') PROVE Cardinality(A[stack'[i][1]]) <= i
      OBVIOUS
    <3>1. A[stack'[i][1]] = A[Root] /\ i = 1
      BY <2>4
    <3>2. Cardinality(A[stack'[i][1]]) = 1
      BY <2>3, <3>1
    <3> QED BY <3>1, <3>2
  <2>8. Chain(A)'
    BY <2>1, <2>2, <2>3, <2>6, <2>7 DEF Chain
  <2> QED BY <2>8 DEF Chains
<1>4. CASE Look /\ Held \in Hubs /\ Push(Held)
  BY <1>1, <1>4, ChainsPush DEF Look
<1>5. CASE Look /\ Held \in Readers \cup {None} /\ Back /\ UNCHANGED visited
  <2>1. PICK top \in Socket : top = Top /\ plug[top] \notin Hubs
    BY <1>5, TopNotEntered, DevicesAssumption DEF Look, Recursion, Held
  <2>2. \A s \in Socket : plug[s] \in Hubs => (Entered(s)' <=> Entered(s))
    BY <1>5, <2>1, BackEntered DEF Look
  <2>3. PICK A : Chain(A)
    BY <1>1, <1>5 DEF Chains, Look, Looking
  <2>4. \A i \in 1..Len(stack') : Cardinality(A[stack'[i][1]]) <= i
    BY <1>5, <2>3, BackHubs DEF Chain
  <2>5. Chain(A)'
    BY <1>1, <1>5, <2>2, <2>3, <2>4 DEF Chain
  <2> QED BY <2>5 DEF Chains
<1> QED BY <1>2, <1>3, <1>4, <1>5, FixedStep

\* Where the walk is done, every port of every hub met is behind it: the hubs
\* met are those reached, and what lies above each is within its set.
LEMMA DoneIsTree ==
  ASSUME Recursion, Known, Chains, step = "done"
  PROVE  IsTree /\ \A s \in Socket : s \in Behind <=> Entered(s)
<1>1. stack = <<>> /\ Len(stack) = 0 /\ Root \in visited /\ visited \subseteq Hubs
  BY DEF Recursion, Known
<1>2. \A s \in Socket : Entered(s) <=> s[1] \in visited
  BY <1>1 DEF Entered, Passed
<1>3. ClosedUnder(visited)
  BY <1>2 DEF ClosedUnder, Known
<1>4. Reached(Root) = visited
  BY <1>1, <1>3, ReachedLeast DEF Known
<1>5. \A s \in Socket : s \in Behind <=> Entered(s)
  BY <1>2, <1>4 DEF Behind
<1>6. PICK A : Chain(A)
  BY DEF Chains
<1>7. ASSUME NEW h \in visited PROVE Depth(h) <= MaxDepth
  <2> DEFINE above == {g \in Reached(Root) : h \in Reached(g)}
  <2>1. above \subseteq A[h]
    <3> SUFFICES ASSUME NEW g \in visited, h \in Reached(g) PROVE g \in A[h]
      BY <1>4
    <3> DEFINE S == {k \in visited : g \in A[k]}
    <3>1. g \in S /\ S \subseteq Hubs
      BY <1>1, <1>6 DEF Chain
    <3>2. ClosedUnder(S)
      <4> SUFFICES ASSUME NEW s \in Socket, s[1] \in S, plug[s] \in Hubs PROVE plug[s] \in S
        BY DEF ClosedUnder
      <4>1. Entered(s) /\ plug[s] \in visited
        BY <1>2 DEF Known
      <4> QED BY <1>6, <4>1 DEF Chain
    <3> QED BY <3>1, <3>2, ReachedLeast
  <2>2. A[h] \subseteq visited /\ Cardinality(A[h]) <= MaxDepth + 1
    BY <1>6 DEF Chain
  <2> HIDE DEF above
  <2>3. IsFiniteSet(A[h]) /\ Cardinality(A[h]) \in Nat
    BY <1>1, <2>2, FS_Subset, FS_CardinalityType, DevicesAssumption
  <2>4. Cardinality(above) \in Nat /\ Cardinality(above) <= Cardinality(A[h])
    BY <2>1, <2>3, FS_Subset, FS_CardinalityType
  <2>5. Depth(h) = Cardinality(above) - 1
    BY DEF Depth, above
  <2> QED BY <2>2, <2>3, <2>4, <2>5, MaxDepthAssumption
<1>8. IsTree
  <2>1. Behind \subseteq Socket
    BY DEF Behind
  <2> QED BY <1>4, <1>5, <1>7, <2>1, RootAssumption DEF IsTree, Known
<1> QED BY <1>5, <1>8

\* What is known of a walk that nothing disturbs.
Undisturbed == Fixed => /\ Looked /\ Known /\ Found /\ Chains
                        /\ step = "raised" => ~IsTree

LEMMA UndisturbedStep == ASSUME Recursion, Values, Undisturbed, [Next]_vars PROVE Undisturbed'
<1> SUFFICES ASSUME Fixed'
             PROVE  Looked' /\ Known' /\ Found' /\ Chains' /\ (step' = "raised" => ~IsTree')
  BY DEF Undisturbed
<1>1. Fixed => Looked /\ Known /\ Found /\ Chains /\ (step = "raised" => ~IsTree)
  BY DEF Undisturbed
<1>2. Looked' /\ Known' /\ Found' /\ Chains' /\ Fixed /\ plug' = plug
  BY <1>1, FixedStep, KnownStep, FoundStep, ChainsStep
<1>3. step' = "raised" => step = "raised" \/ Met
  BY <1>1, FixedStep DEF Push, Back, BackTo
<1>4. step' = "raised" => ~IsTree
  BY <1>1, <1>2, <1>3, TurnedBack
<1> QED BY <1>2, <1>4, ReachedStays

LEMMA AlwaysUndisturbed == Spec => []Undisturbed
<1>1. Init => Undisturbed
  BY RootAssumption DEF Init, Undisturbed, Looked, Known, Found, Chains, Entered, Passed
<1> QED BY <1>1, UndisturbedStep, AlwaysRecursion, AlwaysValues, PTL DEF Spec

\* While nothing changes and no ioctl fails, the walk succeeds exactly on a tree
\* of hubs no deeper than the limit, and finds each reader in it once.
THEOREM WalkFindsTrees == Spec => []WalkIsExact
<1>1. Recursion /\ Values /\ Once /\ Undisturbed => WalkIsExact
  <2> SUFFICES ASSUME Recursion, Values, Once, Undisturbed, Fixed
               PROVE  /\ step = "raised" => ~IsTree
                      /\ step = "done" =>
                           /\ IsTree
                           /\ \A r \in Readers : Cardinality(Hits(r)) = Cardinality({s \in Behind : plug[s] = r})
                           /\ \A i \in DOMAIN result : result[i].conn = result[i].key
    BY DEF WalkIsExact, Fixed
  <2>1. Looked /\ Known /\ Found /\ Chains /\ (step = "raised" => ~IsTree)
    BY DEF Undisturbed
  <2>2. ASSUME step = "done", NEW r \in Readers
        PROVE  Cardinality(Hits(r)) = Cardinality({s \in Behind : plug[s] = r})
    <3> DEFINE ports == {s \in Behind : plug[s] = r}
    <3>1. Behind \subseteq Socket /\ \A s \in Socket : s \in Behind <=> Entered(s)
      BY <2>1, <2>2, DoneIsTree DEF Behind
    <3>2. \A s, t \in ports : s = t
      BY <2>1, <3>1 DEF Once, Looked
    <3>3. \A i, j \in Hits(r) : i = j
      BY <2>1 DEF Once, Looked
    <3>4. Hits(r) # {} <=> ports # {}
      BY <2>1, <3>1 DEF Once, Looked, Found
    <3>5. CASE ports = {}
      BY <3>4, <3>5
    <3>6. CASE ports # {}
      <4>1. PICK s, i : ports = {s} /\ Hits(r) = {i}
        BY <3>2, <3>3, <3>4, <3>6
      <4> QED BY <4>1, FS_Singleton
    <3> QED BY <3>5, <3>6
  <2> QED BY <2>1, <2>2, DoneIsTree DEF Found
<1> QED BY <1>1, AlwaysRecursion, AlwaysValues, AlwaysOnce, AlwaysUndisturbed, PTL

-----------------------------------------------------------------------------
(* The walk ends: what is ahead of it shrinks with every ioctl. *)

\* The ports not yet gone past or into, the hubs not yet visited, and the ioctls
\* still to come for the hub or port looked at.
Coming == {s \in Socket : ~Entered(s)}
Left == Cardinality(Coming) + Cardinality(Hubs \ visited)
Stage(ioctl) == CASE ioctl = "root" -> 5
                  [] ioctl = "node" -> 4
                  [] ioctl = "port" -> 3
                  [] ioctl = "header" -> 2
                  [] ioctl = "data" -> 1
                  [] OTHER -> 0
Ahead == 4 * Left + Stage(step)

\* A hub visited, or a port gone past.
Onward == (\E hub : Push(hub)) \/ (step \in Looking /\ Back /\ UNCHANGED visited)

LEMMA ComingIs ==
  ASSUME Recursion
  PROVE  /\ IsFiniteSet(Coming) /\ IsFiniteSet(Hubs \ visited)
         /\ Cardinality(Coming) \in Nat /\ Cardinality(Hubs \ visited) \in Nat
         /\ Cardinality(Coming) <= Cardinality(Hubs) * Ports
         /\ Cardinality(Hubs \ visited) <= Cardinality(Hubs)
<1>1. IsFiniteSet(1..Ports) /\ Cardinality(1..Ports) = Ports
  BY PortsAssumption, FS_Interval
<1>2. IsFiniteSet(Socket) /\ Cardinality(Socket) = Cardinality(Hubs) * Ports
  BY <1>1, DevicesAssumption, FS_Product DEF Socket
<1>3. Coming \in SUBSET Socket /\ Hubs \ visited \in SUBSET Hubs
  BY DEF Coming
<1>4. /\ IsFiniteSet(Coming) /\ Cardinality(Coming) <= Cardinality(Socket)
      /\ IsFiniteSet(Hubs \ visited) /\ Cardinality(Hubs \ visited) <= Cardinality(Hubs)
  BY <1>2, <1>3, DevicesAssumption, FS_Subset
<1> QED BY <1>2, <1>4, FS_CardinalityType

\* Ports and hubs never come back, and those dealt with are different ones.
LEMMA LeftStep ==
  ASSUME Recursion, [Next]_vars
  PROVE  Left \in Nat /\ Left' \in Nat /\ Left' <= Left /\ (Onward => Left' < Left)
<1>1. /\ IsFiniteSet(Coming) /\ IsFiniteSet(Hubs \ visited)
      /\ Cardinality(Coming) \in Nat /\ Cardinality(Hubs \ visited) \in Nat
  BY ComingIs
<1>2. Coming' \in SUBSET Coming
  BY EnteredGrows DEF Coming
<1>3. Hubs \ visited' \in SUBSET (Hubs \ visited)
  <2>1. visited \subseteq visited'
    BY StepIs DEF Quiet, Push
  <2> QED BY <2>1
<1>4. Cardinality(Coming') \in Nat /\ Cardinality(Hubs \ visited') \in Nat
  BY <1>1, <1>2, <1>3, FS_Subset, FS_CardinalityType
<1>5. /\ Cardinality(Coming') <= Cardinality(Coming)
      /\ Cardinality(Hubs \ visited') <= Cardinality(Hubs \ visited)
      /\ Cardinality(Coming') = Cardinality(Coming) => Coming' = Coming
      /\ Cardinality(Hubs \ visited') = Cardinality(Hubs \ visited) => Hubs \ visited' = Hubs \ visited
  BY <1>1, <1>2, <1>3, FS_Subset
<1>6. Onward => Coming' # Coming \/ Hubs \ visited' # Hubs \ visited
  <2>1. ASSUME NEW hub, Push(hub) PROVE Hubs \ visited' # Hubs \ visited
    BY <2>1 DEF Push
  <2>2. CASE step \in Looking /\ Back /\ UNCHANGED visited
    <3>1. Top \in Socket /\ ~Entered(Top)
      BY <2>2, TopNotEntered DEF Recursion
    <3>2. PICK s \in Socket : s = Top
      BY <3>1
    <3>3. s \in Coming /\ s \notin Coming'
      BY <2>2, <3>1, <3>2, EnteredGrows DEF Coming
    <3> QED BY <3>3
  <2> QED BY <2>1, <2>2 DEF Onward
<1>7. Left = Cardinality(Coming) + Cardinality(Hubs \ visited)
  BY DEF Left
<1>8. Left' = Cardinality(Coming') + Cardinality(Hubs \ visited')
  BY DEF Left
<1> HIDE DEF Coming, Left
<1> QED BY <1>1, <1>4, <1>5, <1>6, <1>7, <1>8

\* An ioctl that is not the last for its hub or port leaves fewer for it.
LEMMA StageStep ==
  ASSUME Recursion, Walk \/ Refused
  PROVE  Onward \/ Stage(step') < Stage(step)
<1>1. CASE RootHub
  <2>1. step = "root" /\ Len(stack) = 0 /\ visited = {}
    BY <1>1 DEF RootHub, Recursion
  <2>2. ~(Visited(Root) \/ TooDeep)
    BY <2>1, MaxDepthAssumption DEF Visited, TooDeep
  <2>3. Push(Root)
    BY <1>1, <2>1, <2>2, MaxDepthAssumption, RootAssumption DEF RootHub, Visit, Push
  <2> QED BY <2>3 DEF Onward
<1>2. CASE Node \/ NameLength
  BY <1>2 DEF Node, NameLength, Stage
<1>3. CASE Connection
  <2>1. CASE Held = None
    BY <1>3, <2>1, NextPortIs DEF Connection, Onward, Looking
  <2>2. CASE Held # None
    BY <1>3, <2>2 DEF Connection, Stage
  <2> QED BY <2>1, <2>2
<1>4. CASE HubName
  <2>1. CASE Held \notin Hubs \/ Visited(Held) \/ TooDeep
    <3>1. step = "data" /\ step' = "raised"
      BY <1>4, <2>1 DEF HubName, Visit
    <3> QED BY <3>1 DEF Stage
  <2>2. CASE ~(Held \notin Hubs \/ Visited(Held) \/ TooDeep)
    <3>1. Push(Held)
      BY <1>4, <2>2, StackIs, MaxDepthAssumption DEF HubName, Visit, Visited, TooDeep, Push
    <3> QED BY <3>1 DEF Onward
  <2> QED BY <2>1, <2>2
<1>5. CASE DriverKey
  <2>1. CASE step' = "raised"
    <3>1. step = "data"
      BY <1>5 DEF DriverKey
    <3> QED BY <2>1, <3>1 DEF Stage
  <2>2. CASE NextPort
    BY <1>5, <2>2, NextPortIs DEF DriverKey, Onward, Looking
  <2> QED BY <1>5, <2>1, <2>2 DEF DriverKey
<1>6. CASE Refused
  BY <1>6 DEF Refused, Recursion, Looking, Stage
<1> QED BY <1>1, <1>2, <1>3, <1>4, <1>5, <1>6 DEF Walk

LEMMA StageIs == ASSUME Recursion PROVE Stage(step) \in 0..5
BY DEF Recursion, Looking, Stage

LEMMA AheadStep ==
  ASSUME Recursion, [Next]_vars
  PROVE  /\ Ahead' <= Ahead
         /\ Walk \/ Refused => Ahead' < Ahead
<1>1. Left \in Nat /\ Left' \in Nat /\ Left' <= Left /\ (Onward => Left' < Left)
  BY LeftStep
<1>2. Stage(step) \in 0..5 /\ Stage(step') \in 0..5
  <2>1. Recursion'
    BY RecursionStep
  <2>2. Stage(step') \in 0..5
    BY <2>1 DEF Recursion, Looking, Stage
  <2> QED BY <2>2, StageIs
<1>3. Ahead = 4 * Left + Stage(step) /\ Ahead' = 4 * Left' + Stage(step')
  BY DEF Ahead
<1>4. CASE Walk \/ Refused
  <2>1. CASE Onward
    <3>1. step' \in {"node", "port", "done"}
      BY <2>1 DEF Onward, Push, Back, BackTo
    <3>2. Stage(step') <= 4
      BY <3>1 DEF Stage
    <3>3. Stage(step) >= 1
      BY <1>4 DEF Walk, RootHub, Node, Connection, NameLength, HubName, DriverKey, Refused, Recursion, Looking, Stage
    <3>4. Left' <= Left - 1
      BY <1>1, <2>1
    <3> QED BY <1>1, <1>2, <1>3, <3>2, <3>3, <3>4
  <2>2. CASE ~Onward
    <3>1. Stage(step') < Stage(step)
      BY <1>4, <2>2, StageStep
    <3> QED BY <1>1, <1>2, <1>3, <3>1
  <2> QED BY <2>1, <2>2
<1>5. CASE ~(Walk \/ Refused)
  <2>1. step' = step
    BY <1>5 DEF Next, Change, vars
  <2> QED BY <1>1, <1>2, <1>3, <1>5, <2>1
<1> QED BY <1>4, <1>5

\* Whatever the hubs say of each other and however devices are moved meanwhile,
\* connections() makes at most four ioctls for each hub and for each port, and
\* five more: each of its steps, and a refusal, leaves less ahead, and no change
\* of the devices gives it more to do.
THEOREM WalkIsBounded ==
  Spec => /\ [](Ahead \in 0..(4 * Cardinality(Hubs) * (Ports + 1) + 5))
          /\ [][Ahead' <= Ahead /\ (Walk \/ Refused => Ahead' < Ahead)]_vars
<1>1. Recursion => Ahead \in 0..(4 * Cardinality(Hubs) * (Ports + 1) + 5)
  <2> SUFFICES ASSUME Recursion PROVE Ahead \in 0..(4 * Cardinality(Hubs) * (Ports + 1) + 5)
    OBVIOUS
  <2>1. /\ Cardinality(Coming) \in Nat /\ Cardinality(Hubs \ visited) \in Nat
        /\ Cardinality(Coming) <= Cardinality(Hubs) * Ports
        /\ Cardinality(Hubs \ visited) <= Cardinality(Hubs)
    BY ComingIs
  <2>2. Stage(step) \in 0..5
    BY StageIs
  <2>3. Cardinality(Hubs) \in Nat /\ Ports \in Nat
    BY DevicesAssumption, PortsAssumption, FS_CardinalityType
  <2>4. PICK a \in Nat, b \in Nat, c \in Nat, n \in Nat, p \in Nat :
          /\ a = Cardinality(Coming) /\ b = Cardinality(Hubs \ visited) /\ c = Stage(step)
          /\ n = Cardinality(Hubs) /\ p = n * Ports /\ c <= 5 /\ a <= p /\ b <= n
    BY <2>1, <2>2, <2>3
  <2>5. 4 * n * (Ports + 1) + 5 = 4 * p + 4 * n + 5
    BY <2>3, <2>4
  <2>6. Ahead = 4 * (a + b) + c
    BY <2>4 DEF Ahead, Left
  <2>7. 4 * (a + b) + c \in 0..(4 * p + 4 * n + 5)
    BY <2>4
  <2> QED BY <2>4, <2>5, <2>6, <2>7
<1>2. Recursion /\ [Next]_vars => [Ahead' <= Ahead /\ (Walk \/ Refused => Ahead' < Ahead)]_vars
  BY AheadStep
<1> QED BY <1>1, <1>2, AlwaysRecursion, PTL DEF Spec

=============================================================================
