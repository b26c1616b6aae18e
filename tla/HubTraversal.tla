---------------------------- MODULE HubTraversal ----------------------------
(* HubEnumerator.connections() (tools/goodix_windows.py): the walk over the USB
   hubs behind one USBPcap interface. Every ioctl is a step, and devices may be
   moved or unplugged between any two of them. What Windows says of a hub is
   taken as it comes: a port may name any hub, the hub itself or an ancestor. *)
EXTENDS Naturals, Sequences, FiniteSets

CONSTANTS Hubs, Root,   \* hub paths, case folded, and the one of the interface
          Readers,      \* 27c6:55a2 devices
          Ports,        \* number of ports of a hub
          MaxDepth,     \* 6 in the code
          MaxChanges    \* bound on devices moved or unplugged during the walk

ASSUME RootAssumption == Root \in Hubs
ASSUME PortsAssumption == Ports \in Nat \ {0}
ASSUME MaxDepthAssumption == MaxDepth \in Nat
ASSUME MaxChangesAssumption == MaxChanges \in Nat

None == "none"          \* an empty port, or a device that is neither

ASSUME DevicesAssumption ==
  IsFiniteSet(Hubs) /\ Hubs \cap Readers = {} /\ None \notin Hubs \cup Readers

Item == {None} \cup Hubs \cup Readers
Socket == Hubs \X (1..Ports)

VARIABLES plug,         \* what each port of each hub holds
          moved,        \* history: readers moved or unplugged
          changes,
          step,         \* the ioctl to come next, or how the walk ended
          stack,        \* the active calls of visit(): hub and port, innermost last
          visited,
          conn,         \* the connection just decoded
          result, failed

worldVars == <<plug, moved, changes>>
vars == <<worldVars, step, stack, visited, conn, result, failed>>

Top  == stack[Len(stack)]
Held == plug[Top]       \* what the port looked at holds now

-----------------------------------------------------------------------------
\* `depth > 6` in the call about to be made, whose depth is Len(stack).
TooDeepOffByOne == Len(stack) >= MaxDepth
TooDeepLate == Len(stack) > MaxDepth + 1
TooDeep == Len(stack) > MaxDepth

\* A hub met before, not only one that is being visited.
BeingVisited(hub) == \E i \in DOMAIN stack : stack[i][1] = hub
Visited(hub) == hub \in visited

\* visit(): its guard, then the hub is noted and asked for its ports.
Visit(hub) ==
  IF Visited(hub) \/ TooDeep
  THEN step' = "raised" /\ UNCHANGED <<stack, visited>>
  ELSE /\ visited' = visited \cup {hub}
       /\ stack' = Append(stack, <<hub, 1>>) /\ step' = "node"

\* The loop goes on to the next port; hubs whose last port this was are left.
Open == {i \in DOMAIN stack : stack[i][2] < Ports}
NextPort ==
  IF Open = {} THEN stack' = <<>> /\ step' = "done"
  ELSE LET i == CHOOSE n \in Open : \A m \in Open : m <= n
       IN  /\ stack' = [SubSeq(stack, 1, i) EXCEPT ![i][2] = @ + 1]
           /\ step' = "port"

RootHub ==
  /\ step = "root" /\ Visit(Root)
  /\ UNCHANGED <<worldVars, conn, result, failed>>

Node ==
  /\ step = "node" /\ step' = "port"
  /\ UNCHANGED <<worldVars, stack, visited, conn, result, failed>>

ConnectionAgain ==
  /\ step = "port" /\ conn' = Held
  /\ step' = IF Held = None THEN "port" ELSE "header"
  /\ UNCHANGED <<worldVars, stack, visited, result, failed>>

\* decode_connection() of the port, and which name is asked for next.
Connection ==
  /\ step = "port" /\ conn' = Held
  /\ IF Held = None THEN NextPort ELSE step' = "header" /\ UNCHANGED stack
  /\ UNCHANGED <<worldVars, visited, result, failed>>

\* _name(): the length, then the name, of what the port holds by then. Only a
\* hub has a connection name; every device has a driver key, so that a port whose
\* reader has left either answers for another device in its place, or refuses.
NameLength ==
  /\ step = "header"
  /\ \/ step' = "data" /\ (conn \in Hubs => Held \in Hubs)
     \/ step' = "raised" /\ (Held = None \/ (conn \in Hubs /\ Held \notin Hubs))
  /\ UNCHANGED <<worldVars, stack, visited, conn, result, failed>>

HubName ==
  /\ step = "data" /\ conn \in Hubs
  /\ IF Held \in Hubs THEN Visit(Held) ELSE step' = "raised" /\ UNCHANGED <<stack, visited>>
  /\ UNCHANGED <<worldVars, conn, result, failed>>

DriverKey ==
  /\ step = "data" /\ conn \in Readers
  /\ \/ Held = None /\ step' = "raised" /\ UNCHANGED <<stack, result>>
     \/ result' = Append(result, [conn |-> conn, key |-> Held]) /\ NextPort
  /\ UNCHANGED <<worldVars, visited, conn, failed>>

\* An ioctl fails or its answer is refused: invalid hub information, unhealthy
\* port, malformed or truncated name. Nothing in the walk catches it.
Refused ==
  /\ step \notin {"raised", "done"}
  /\ step' = "raised" /\ failed' = TRUE
  /\ UNCHANGED <<worldVars, stack, visited, conn, result>>

\* A device with all that hangs on it goes to an empty port, or away. It keeps
\* its name and key.
Change ==
  /\ step \notin {"raised", "done"} /\ changes < MaxChanges
  /\ changes' = changes + 1
  /\ \E from \in Socket :
       /\ plug[from] # None
       /\ moved' = moved \cup ({plug[from]} \cap Readers)
       /\ \/ plug' = [plug EXCEPT ![from] = None]
          \/ \E to \in Socket : /\ plug[to] = None
                                /\ plug' = [plug EXCEPT ![to] = plug[from], ![from] = None]
  /\ UNCHANGED <<step, stack, visited, conn, result, failed>>

Init ==
  /\ plug \in [Socket -> Item]
  /\ \A r \in Readers, s, t \in Socket : plug[s] = r /\ plug[t] = r => s = t
  /\ moved = {} /\ changes = 0
  /\ step = "root" /\ stack = <<>> /\ visited = {} /\ conn = None /\ result = <<>>
  /\ failed = FALSE

Walk == RootHub \/ Node \/ Connection \/ NameLength \/ HubName \/ DriverKey
Next == Walk \/ Refused \/ Change

\* The ioctls are synchronous calls of Windows and are taken to return.
Spec == Init /\ [][Next]_vars /\ WF_vars(Walk)
-----------------------------------------------------------------------------
TypeOK ==
  /\ plug \in [Socket -> Item] /\ moved \subseteq Readers /\ changes \in 0..MaxChanges
  /\ step \in {"root", "node", "port", "header", "data", "done", "raised"}
  /\ stack \in Seq(Socket) /\ Len(stack) <= MaxDepth + 1
  /\ visited \subseteq Hubs /\ conn \in Item /\ failed \in BOOLEAN
  /\ result \in Seq([conn : Readers, key : Item])

\* Reference: the hubs reached from one, as the least set closed under "is in a
\* port of", and a topology without sharing, cycle or too long a chain.
ClosedUnder(S) == \A s \in Socket : s[1] \in S /\ plug[s] \in Hubs => plug[s] \in S
Reached(hub) == {g \in Hubs : \A S \in SUBSET Hubs : hub \in S /\ ClosedUnder(S) => g \in S}
Behind == {s \in Socket : s[1] \in Reached(Root)}
Depth(hub) == Cardinality({g \in Reached(Root) : hub \in Reached(g)}) - 1
IsTree == /\ \A s, t \in Behind : plug[s] \in Hubs /\ plug[s] = plug[t] => s = t
          /\ \A s \in Behind : plug[s] # Root
          /\ \A hub \in Reached(Root) : Depth(hub) <= MaxDepth

Hits(r) == {i \in DOMAIN result : result[i].key = r}

\* While nothing changes and no ioctl fails, the walk succeeds exactly on a tree
\* of hubs, and then every reader behind the interface is found, once, with the
\* address and the driver key of one device.
WalkIsExact ==
  changes = 0 /\ ~failed =>
    /\ step = "raised" => ~IsTree
    /\ step = "done" =>
         /\ IsTree
         /\ \A r \in Readers : Cardinality(Hits(r)) = Cardinality({s \in Behind : plug[s] = r})
         /\ \A i \in DOMAIN result : result[i].conn = result[i].key

\* A reader that nobody touches is not found twice, although the hub it is on
\* is moved ahead of the walk: discover() would refuse it as ambiguous.
CountedOnce == \A r \in Readers \ moved : Cardinality(Hits(r)) <= 1

\* The walk ends, whatever the hubs say of each other.
WalkEnds == <>(step \in {"done", "raised"})
=============================================================================
