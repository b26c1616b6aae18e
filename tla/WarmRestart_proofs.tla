------------------------- MODULE WarmRestart_proofs -------------------------
(* warm_restart(), for any number of devices, changes, faults and interrupts: it
   asks Windows to disable or enable one device only, the reader its preflight
   discovered and its caller asked for, and does not leave that reader disabled without saying so. *)
EXTENDS WarmRestart, FiniteSetTheorems, TLAPS

Discovered == {r.id : r \in current}

\* Before `try` Windows has been asked nothing, and only the caller's reader gets
\* past the preflight. The script's device ($d) is the discovered reader from the
\* moment the script has verified it.
Chosen ==
  /\ part \in Parts
  /\ part = "pre" => acts = {} /\ target = {}
  /\ part = "pre" => step \in {"pnp", "map", "recheck", "confirm", "emit"}
  /\ part = "pre" /\ step \in {"confirm", "emit"} => current # {}
  /\ part \in {"off", "on"} => current # {}
  /\ (part = "pre" /\ step = "emit") \/ part \in {"off", "on"} => reader.id = given
  /\ target \subseteq Discovered \cap {given}
  /\ \A a \in acts : a[1] \in Discovered \cap {given}

\* warm_restart() never turns to another reader, and never goes back to before
\* its `try`.
LEMMA RaisedKeeps ==
  ASSUME Chosen, Error
  PROVE  /\ part' \in {"on", "end"} /\ current' = current
         /\ part' = "on" => part # "pre"
<1>1. /\ part = "pre" => Go("end", "done")
      /\ part # "pre" => part' = "on"
  BY Zenon DEF Error, Raised, Go
<1> QED BY <1>1 DEF Go, Error

\* A step that goes on in the same part.
LEMMA OnKeeps ==
  ASSUME NEW s \in Steps, On(s)
  PROVE  part' = part /\ step' = s /\ current' = current
BY DEF On, Go

LEMMA GivenKept == [Next]_vars => given' = given
BY DEF Next, Program, Discover, Preflight, SetEnabled, Disabled, Restore, Report, Fault, Interrupt,
       World, Quiet, vars, progVars

LEMMA SameReader == current' = current => reader' = reader
BY DEF reader

LEMMA DiscoverKeeps == Chosen /\ Discover => Chosen'
<1> SUFFICES ASSUME Chosen, Discover PROVE Chosen'
  OBVIOUS
<1>1. target' = target /\ acts' = acts /\ given' = given
  BY DEF Discover, DiscoverPnp, DiscoverMap, DiscoverRecheck, Quiet
<1>2. part \in {"pre", "off"}
  BY DEF Discover
<1>3. CASE Error
  BY <1>1, <1>2, <1>3, RaisedKeeps, SameReader DEF Chosen, Parts, Discovered
<1>4. CASE On("map") \/ On("recheck") \/ (part = "off" /\ On("same"))
  <2>1. part' = part /\ current' = current /\ step' \in {"map", "recheck", "same"}
        /\ (part = "pre" => step' \in {"map", "recheck"})
    BY <1>4 DEF On, Go
  <2> QED BY <1>1, <1>2, <2>1, SameReader DEF Chosen, Discovered
<1>5. CASE /\ part = "pre" /\ Go("pre", "confirm")
           /\ current' = {v.reader : v \in verified} /\ verified # {}
  BY <1>1, <1>5 DEF Chosen, Go, Parts, Discovered
<1> QED BY <1>2, <1>3, <1>4, <1>5 DEF Discover, DiscoverPnp, DiscoverMap, DiscoverRecheck

LEMMA ScriptKeeps == Chosen /\ SetEnabled => Chosen'
<1> SUFFICES ASSUME Chosen, SetEnabled PROVE Chosen'
  OBVIOUS
<1>1. part \in {"off", "on"} /\ reader \in current /\ reader.id = given /\ given' = given
  BY DEF SetEnabled, Chosen, reader, Quiet
<1>2. part' \in {"off", "on", "end"} /\ current' = current
  <2>1. Error \/ \E s \in Steps : On(s)
    BY DEF SetEnabled, ScriptCheck, ScriptAct, ScriptPoll, Steps
  <2> QED BY <1>1, <2>1, RaisedKeeps, OnKeeps
<1>3. target' \subseteq Discovered \cap {given}
  <2>1. CASE target' = target
    BY <2>1 DEF Chosen
  <2>2. CASE target' \subseteq VerifiedDevice(reader)
    BY <1>1, <2>2 DEF VerifiedDevice, Discovered
  <2> QED BY <2>1, <2>2 DEF SetEnabled, ScriptCheck, ScriptAct, backendVars
<1>4. acts' = acts \/ \E w \in {"ok", "disabled"} : acts' = acts \cup (target \X {w})
  BY DEF SetEnabled, ScriptAct, wanted
<1>5. \A a \in acts' : a[1] \in Discovered \cap {given}
  BY <1>4 DEF Chosen
<1> QED BY <1>2, <1>3, <1>5, <1>1, SameReader DEF Chosen, Parts, Discovered

LEMMA ChosenStep == Chosen /\ [Next]_vars => Chosen'
<1> SUFFICES ASSUME Chosen, [Next]_vars PROVE Chosen'
  OBVIOUS
<1>g. given' = given
  BY GivenKept
<1>1. CASE Discover
  BY <1>1, DiscoverKeeps
<1>2. CASE Preflight
  <2>1. target' = target /\ acts' = acts /\ part = "pre"
    BY <1>2 DEF Preflight, backendVars
  <2>2. CASE Error
    BY <1>g, <2>1, <2>2, RaisedKeeps, SameReader DEF Chosen, Parts, Discovered
  <2>3. CASE On("emit") /\ step = "confirm" /\ reader.id = given
    BY <1>g, <2>1, <2>3, SameReader DEF On, Go, Chosen, Discovered
  <2>4. CASE Go("off", "state") /\ step = "emit" /\ current' = current
    BY <1>g, <2>1, <2>4, SameReader DEF Go, Chosen, Parts, Discovered
  <2> QED BY <1>2, <2>2, <2>3, <2>4 DEF Preflight
<1>3. CASE SetEnabled
  BY <1>3, ScriptKeeps
<1>4. CASE Disabled
  BY <1>g, <1>4, SameReader DEF Disabled, backendVars, On, Go, Chosen, Parts, Discovered
<1>5. CASE Restore
  <2>1. target' = target /\ acts' = acts /\ part = "on"
    BY <1>5 DEF Restore, backendVars
  <2>2. part' \in {"on", "end"} /\ current' = current
    <3>1. CASE Error
      BY <3>1, RaisedKeeps
    <3> QED BY <1>5, <3>1 DEF Restore, Go
  <2> QED BY <1>g, <2>1, <2>2, SameReader DEF Chosen, Parts, Discovered
<1>6. CASE Report
  BY <1>g, <1>6, SameReader DEF Report, backendVars, Go, Chosen, Parts, Discovered
<1>7. CASE Fault
  BY <1>g, <1>7, RaisedKeeps, SameReader DEF Fault, Chosen, Parts, Discovered
<1>8. CASE Interrupt
  BY <1>g, <1>8, SameReader DEF Interrupt, backendVars, Go, Chosen, Parts, Discovered
<1>9. CASE World
  BY <1>g, <1>9, SameReader DEF World, Settle, Change, backendVars, progVars, Chosen, Discovered
<1>10. CASE UNCHANGED vars
  BY <1>g, <1>10, SameReader DEF vars, progVars, backendVars, Chosen, Discovered
<1> QED BY <1>1, <1>2, <1>3, <1>4, <1>5, <1>6, <1>7, <1>8, <1>9, <1>10 DEF Next, Program

\* set_enabled() looks its device up again at each call (goodix_windows.py:326):
\* whatever was plugged in, unplugged or re-keyed in between, Windows is only ever
\* asked for the reader the preflight discovered, which is the caller's.
THEOREM ChangesOnlyTheReader == Spec => []OnlyTheDiscovered
<1>1. Init => Chosen
  BY DEF Init, BackendInit, Chosen, Parts, Discovered
<1>2. Chosen => OnlyTheDiscovered
  BY DEF Chosen, OnlyTheDiscovered, Discovered
<1> QED BY <1>1, <1>2, ChosenStep, PTL DEF Spec
-----------------------------------------------------------------------------
(* The type invariant. *)

\* The type invariant without its cardinalities.
Fields ==
  /\ plugged \subseteq Ids /\ state \in [Ids -> PnpStates]
  /\ key \in [Ids -> Keys] /\ map \in [Ids -> Maps]
  /\ changes \in 0..MaxChanges
  /\ pending \subseteq Ids \X {"ok", "disabled"} /\ acts \subseteq Ids \X {"ok", "disabled"}
  /\ verified \subseteq [reader : Reader, key : Keys]
  /\ found \subseteq [id : Ids, key : Keys] /\ target \subseteq Ids
  /\ current \subseteq Reader

Place ==
  /\ part \in Parts /\ step \in Steps /\ attempt \in 0..2 /\ restored \in BOOLEAN
  /\ exc \in {"none", "error", "interrupt"}
  /\ outcome \in {"-", "reenabled", "recovery failed", "error", "interrupt"}

Counts ==
  /\ faults \in 0..MaxFaults /\ interrupts \in 0..MaxInterrupts
  /\ skipped \in BOOLEAN /\ late \in BOOLEAN

Asked == given \in Ids /\ saved \subseteq [reader : Reader, key : Keys]

\* A query answers for the one reader that is plugged in, or for none.
Lone(S) == \A x, y \in S : x = y
OneReader == Lone(found) /\ Lone(verified) /\ Lone(current)

LEMMA LoneCardinality ==
  ASSUME NEW S, Lone(S)
  PROVE  Cardinality(S) <= 1
<1>1. CASE S = {}
  BY <1>1, FS_EmptySet
<1>2. CASE S # {}
  <2>1. PICK x \in S : TRUE
    BY <1>2
  <2>2. S = {x}
    BY <2>1 DEF Lone
  <2>3. Cardinality({x}) = 1
    BY FS_Singleton
  <2> QED BY <2>2, <2>3
<1> QED BY <1>1, <1>2

LEMMA ErrorPlace == Place /\ Error => Place' /\ current' = current
<1> SUFFICES ASSUME Place, Error PROVE Place' /\ current' = current
  OBVIOUS
<1>1. /\ part = "pre" => Go("end", "done") /\ exc' = "error" /\ outcome' = "error" /\ attempt' = attempt
      /\ part = "off" => Go("on", "mask") /\ exc' = "error" /\ UNCHANGED <<outcome, attempt>>
      /\ part \notin {"pre", "off"} =>
           (Go("on", "state") \/ Go("on", "unmask")) /\ attempt' = 2 /\ UNCHANGED <<exc, outcome>>
  BY Zenon DEF Error, Raised
<1>2. UNCHANGED <<current, restored>>
  BY DEF Error
<1>3. part' \in Parts /\ step' \in Steps
  BY <1>1 DEF Go, Parts, Steps
<1>5. attempt' \in 0..2
  <2>1. attempt' = attempt \/ attempt' = 2
    BY <1>1
  <2>2. attempt \in 0..2
    BY DEF Place
  <2> QED BY <2>1, <2>2
<1>4. exc' \in {exc, "error"} /\ outcome' \in {outcome, "error"}
  <2>1. CASE part = "pre"
    BY <1>1, <2>1
  <2>2. CASE part = "off"
    BY <1>1, <2>2
  <2>3. CASE part \notin {"pre", "off"}
    BY <1>1, <2>3
  <2> QED BY <2>1, <2>2, <2>3
<1> QED BY <1>2, <1>3, <1>4, <1>5 DEF Place

LEMMA OnPlace ==
  ASSUME Place, NEW s \in Steps, On(s)
  PROVE  Place' /\ current' = current
BY DEF On, Go, Place

LEMMA PlaceStep == Place /\ [Next]_vars => Place'
<1> SUFFICES ASSUME Place, [Next]_vars PROVE Place'
  OBVIOUS
<1>s. {"map", "recheck", "same", "emit", "verify", "pnp", "script", "act", "poll", "confirm", "pause"}
        \subseteq Steps
  BY DEF Steps
<1>1. CASE Error \/ \E s \in Steps : On(s)
  BY <1>1, ErrorPlace, OnPlace
<1>2. ASSUME NEW p \in Parts, NEW s \in Steps, Go(p, s),
             attempt' = attempt \/ attempt' = 1, restored' \in BOOLEAN,
             exc' \in {exc, "interrupt"},
             outcome' \in {outcome, "interrupt", Verdict, "error"}
      PROVE  Place'
  <2>1. Verdict \in {"reenabled", "recovery failed", "error", "interrupt"}
    BY DEF Verdict, Place
  <2>2. part' \in Parts /\ step' \in Steps
    BY <1>2 DEF Go
  <2>3. attempt' \in 0..2
    <3>1. attempt \in 0..2
      BY DEF Place
    <3> QED BY <1>2, <3>1
  <2> QED BY <1>2, <2>1, <2>2, <2>3 DEF Place
<1>r. restored \in BOOLEAN /\ TRUE \in BOOLEAN
  BY DEF Place
<1>3. CASE UNCHANGED <<part, step, attempt, restored, exc, outcome>>
  BY <1>3 DEF Place
<1>p. {"pre", "off", "on", "end"} = Parts /\ {"state", "mask", "unmask", "report", "done"} \subseteq Steps
  BY DEF Parts, Steps
<1>4. CASE Discover
  <2>1. Error \/ On("map") \/ On("recheck") \/ On("same")
        \/ (Go("pre", "confirm") /\ UNCHANGED <<attempt, restored, exc, outcome>>)
    BY <1>4 DEF Discover, DiscoverPnp, DiscoverMap, DiscoverRecheck
  <2> QED BY <2>1, <1>1, <1>2, <1>r, <1>p, <1>s
<1>5. CASE Preflight
  <2>1. Error \/ (\E s \in Steps : On(s))
        \/ (Go("off", "state") /\ UNCHANGED <<attempt, restored, exc, outcome>>)
    BY <1>5, <1>s DEF Preflight
  <2> QED BY <2>1, <1>1, <1>2, <1>r, <1>p
<1>6. CASE SetEnabled
  <2>1. Error \/ (\E s \in Steps : On(s))
    BY <1>6, <1>s DEF SetEnabled, ScriptCheck, ScriptAct, ScriptPoll
  <2> QED BY <2>1, <1>1
<1>7. CASE Disabled
  <2>1. (\E s \in Steps : On(s))
        \/ (Go("on", "mask") /\ UNCHANGED <<attempt, restored, exc, outcome>>)
    BY <1>7, <1>s DEF Disabled
  <2> QED BY <2>1, <1>1, <1>2, <1>r, <1>p
<1>8. CASE Restore
  <2>1. \/ Error
        \/ \E p \in Parts, s \in Steps :
              /\ Go(p, s) /\ (attempt' = attempt \/ attempt' = 1)
              /\ (restored' = restored \/ restored' = TRUE)
              /\ UNCHANGED <<exc, outcome>>
    BY <1>8, <1>p DEF Restore
  <2> QED BY <2>1, <1>1, <1>2, <1>r
<1>9. CASE Report
  <2>1. Go("end", "done") /\ UNCHANGED <<attempt, restored, exc>> /\ outcome' \in {Verdict, "error"}
    BY <1>9 DEF Report
  <2> QED BY <2>1, <1>2, <1>r, <1>p
<1>10. CASE Fault
  BY <1>10, <1>1 DEF Fault
<1>11. CASE Interrupt
  <2>1. (part = "off" => Go("on", "mask") /\ outcome' = outcome)
        /\ (part # "off" => Go("end", "done") /\ outcome' = "interrupt")
    BY <1>11, Zenon DEF Interrupt
  <2>2. exc' = "interrupt" /\ UNCHANGED <<attempt, restored>>
    BY <1>11 DEF Interrupt
  <2> QED BY <2>1, <2>2, <1>2, <1>r, <1>p
<1>12. CASE World \/ UNCHANGED vars
  BY <1>12, <1>3 DEF World, vars, progVars
<1> QED BY <1>4, <1>5, <1>6, <1>7, <1>8, <1>9, <1>10, <1>11, <1>12 DEF Next, Program

LEMMA CountsStep == Counts /\ [Next]_vars => Counts'
<1> SUFFICES ASSUME Counts, [Next]_vars PROVE Counts'
  OBVIOUS
<1> USE BackendAssumption, RestartAssumption
<1>1. CASE Discover \/ Preflight \/ SetEnabled \/ Disabled \/ Restore
  BY <1>1 DEF Discover, Preflight, SetEnabled, Disabled, Restore, Quiet, Counts
<1>2. CASE Report \/ Fault
  <2>1. faults' = faults \/ (faults < MaxFaults /\ faults' = faults + 1)
    BY <1>2 DEF Report, Fault
  <2>2. UNCHANGED <<interrupts, skipped, late>>
    BY <1>2 DEF Report, Fault, Quiet
  <2> QED BY <2>1, <2>2 DEF Counts
<1>3. CASE Interrupt
  <2>1. skipped' \in BOOLEAN
    BY <1>3, Zenon DEF Interrupt
  <2>2. UNCHANGED <<faults, late>> /\ interrupts < MaxInterrupts /\ interrupts' = interrupts + 1
    BY <1>3 DEF Interrupt
  <2> QED BY <2>1, <2>2 DEF Counts
<1>4. CASE World
  <2>1. faults' = faults
    BY <1>4 DEF World, Settle, Change
  <2>2. late' \in BOOLEAN
    BY <1>4 DEF World, Counts
  <2> QED BY <1>4, <2>1, <2>2 DEF World, Counts
<1>5. CASE UNCHANGED vars
  BY <1>5 DEF vars, Counts
<1> QED BY <1>1, <1>2, <1>3, <1>4, <1>5 DEF Next, Program

LEMMA BackendKeeps ==
  ASSUME Fields, UNCHANGED <<worldVars, pending, acts, backendVars, current>>
  PROVE  Fields'
BY DEF Fields, worldVars, backendVars

LEMMA DiscoverFields ==
  ASSUME Fields, OneReader, Discover
  PROVE  Fields' /\ OneReader'
<1>1. UNCHANGED <<worldVars, pending, acts, target>>
  BY DEF Discover, Quiet, DiscoverPnp, DiscoverMap, DiscoverRecheck
<1>2. /\ found' \subseteq [id : Ids, key : Keys] /\ Lone(found')
  <2>1. CASE found' = found
    BY <2>1 DEF Fields, OneReader
  <2>2. CASE found' = {[id |-> d, key |-> key[d]] : d \in Candidates}
    <3>1. \A d, e \in Candidates : d = e /\ d \in Ids /\ key[d] \in Keys
      BY DEF Candidates, Fields
    <3> QED BY <2>2, <3>1 DEF Lone
  <2> QED BY <2>1, <2>2 DEF Discover, DiscoverPnp, DiscoverMap, DiscoverRecheck
<1>3. /\ verified' \subseteq [reader : Reader, key : Keys] /\ Lone(verified')
  <2>1. CASE verified' = verified
    BY <2>1 DEF Fields, OneReader
  <2>2. CASE verified' = {}
    BY <2>2 DEF Lone
  <2>3. CASE verified' = {[reader |-> [id |-> f.id, map |-> map[d]], key |-> f.key] :
                            f \in found, d \in Hits}
    <3>1. \A d, e \in Hits : d = e /\ d \in Ids /\ map[d] \in Maps
      BY DEF Hits, Fields
    <3>2. \A f, g \in found : f = g /\ f.id \in Ids /\ f.key \in Keys
      BY DEF Fields, OneReader, Lone
    <3>3. verified' \subseteq [reader : Reader, key : Keys]
      BY <2>3, <3>1, <3>2 DEF Reader
    <3>4. \A v, w \in verified' : v = w
      BY <2>3, <3>1, <3>2
    <3> QED BY <3>3, <3>4 DEF Lone
  <2> QED BY <2>1, <2>2, <2>3 DEF Discover, DiscoverPnp, DiscoverMap, DiscoverRecheck
<1>4. current' \subseteq Reader /\ Lone(current')
  <2>1. CASE current' = current
    BY <2>1 DEF Fields, OneReader
  <2>2. CASE current' = {v.reader : v \in verified}
    BY <2>2 DEF Fields, OneReader, Lone
  <2>3. current' = current \/ current' = {v.reader : v \in verified}
    BY DEF Discover, DiscoverPnp, DiscoverMap, DiscoverRecheck, Error, On
  <2> QED BY <2>1, <2>2, <2>3
<1> QED BY <1>1, <1>2, <1>3, <1>4 DEF Fields, OneReader, worldVars

LEMMA WantedIsAState == wanted \in {"ok", "disabled"}
BY DEF wanted

LEMMA ScriptFields ==
  ASSUME Fields, OneReader, SetEnabled
  PROVE  Fields' /\ OneReader'
<1>1. UNCHANGED <<worldVars, verified, found, current>>
  BY DEF SetEnabled, Quiet, ScriptCheck, ScriptAct, ScriptPoll, backendVars, Error, On
<1>2. target' \subseteq Ids
  <2>1. CASE target' = target
    BY <2>1 DEF Fields
  <2>2. CASE target' \subseteq VerifiedDevice(reader)
    BY <2>2 DEF VerifiedDevice, Fields
  <2> QED BY <2>1, <2>2 DEF SetEnabled, ScriptCheck, ScriptAct, backendVars
<1>3. \/ pending' = pending /\ acts' = acts
      \/ /\ pending' = pending \cup (target \X {wanted})
         /\ acts' = acts \cup (target \X {wanted})
  BY DEF SetEnabled, ScriptAct
<1>4. target \X {wanted} \subseteq Ids \X {"ok", "disabled"}
  BY WantedIsAState DEF Fields
<1>5. /\ pending' \subseteq Ids \X {"ok", "disabled"} /\ acts' \subseteq Ids \X {"ok", "disabled"}
  BY <1>3, <1>4 DEF Fields
<1> QED BY <1>1, <1>2, <1>5 DEF Fields, OneReader, worldVars

LEMMA WorldFields ==
  ASSUME Fields, World
  PROVE  Fields' /\ UNCHANGED <<found, verified, current>>
<1>1. UNCHANGED <<acts, backendVars, current>>
  BY DEF World, Settle, Change, progVars
<1>2. CASE Settle
  <2>1. PICK p \in pending : /\ pending' = pending \ {p}
                             /\ state' = [state EXCEPT ![p[1]] = p[2]]
                             /\ UNCHANGED <<plugged, key, map, changes>>
    BY <1>2 DEF Settle
  <2>2. p[2] \in PnpStates
    BY <2>1 DEF Fields, PnpStates
  <2> QED BY <1>1, <2>1, <2>2 DEF Fields, backendVars
<1>3. CASE Change
  <2>1. changes' \in 0..MaxChanges /\ pending' = pending
    BY <1>3, BackendAssumption DEF Change, Fields
  <2>2. plugged' \subseteq Ids /\ state' \in [Ids -> PnpStates]
        /\ key' \in [Ids -> Keys] /\ map' \in [Ids -> Maps]
    <3>1. CASE plugged' \in SUBSET Ids \ {plugged} /\ UNCHANGED <<state, key, map>>
      BY <3>1 DEF Fields
    <3>2. CASE \E i \in Ids, k \in Keys \ {key[j] : j \in Ids} :
                 key' = [key EXCEPT ![i] = k] /\ UNCHANGED <<plugged, state, map>>
      BY <3>2 DEF Fields
    <3>3. CASE \E i \in Ids : \E m \in Maps \ {map[i]} :
                 map' = [map EXCEPT ![i] = m] /\ UNCHANGED <<plugged, state, key>>
      BY <3>3 DEF Fields
    <3>4. CASE \E i \in Ids : /\ state' = [state EXCEPT ![i] = "odd"]
                             /\ UNCHANGED <<plugged, key, map>>
      BY <3>4 DEF Fields, PnpStates
    <3> QED BY <1>3, <3>1, <3>2, <3>3, <3>4 DEF Change
  <2> QED BY <1>1, <2>1, <2>2 DEF Fields, backendVars
<1> QED BY <1>1, <1>2, <1>3 DEF World, backendVars

LEMMA InitHolds == Init => Chosen /\ Fields /\ OneReader /\ Place /\ Counts /\ Asked
<1> SUFFICES ASSUME Init PROVE Chosen /\ Fields /\ OneReader /\ Place /\ Counts /\ Asked
  OBVIOUS
<1>1. Chosen
  BY DEF Init, BackendInit, Chosen, Parts, Discovered
<1>2. Fields
  <2>1. plugged \subseteq Ids /\ state \in [Ids -> PnpStates]
        /\ key \in [Ids -> Keys] /\ map \in [Ids -> Maps]
    BY DEF Init, BackendInit, PnpStates
  <2> QED BY <2>1, BackendAssumption DEF Init, BackendInit, Fields
<1>3. OneReader
  BY DEF Init, BackendInit, OneReader, Lone
<1>4. Place
  <2>1. attempt \in 0..2
    BY DEF Init
  <2>2. restored \in BOOLEAN
    BY DEF Init
  <2> QED BY <2>1, <2>2 DEF Init, Place, Parts, Steps
<1>5. Counts
  <2>1. faults \in 0..MaxFaults /\ interrupts \in 0..MaxInterrupts
    BY BackendAssumption, RestartAssumption DEF Init, BackendInit
  <2>2. skipped \in BOOLEAN /\ late \in BOOLEAN
    BY DEF Init
  <2> QED BY <2>1, <2>2 DEF Counts
<1>6. Asked
  BY DEF Init, Asked
<1> QED BY <1>1, <1>2, <1>3, <1>4, <1>5, <1>6

LEMMA FieldsStep == Fields /\ OneReader /\ [Next]_vars => Fields' /\ OneReader'
<1> SUFFICES ASSUME Fields, OneReader, [Next]_vars PROVE Fields' /\ OneReader'
  OBVIOUS
<1>1. CASE Discover
  BY <1>1, DiscoverFields
<1>2. CASE SetEnabled
  BY <1>2, ScriptFields
<1>3. CASE World
  BY <1>3, WorldFields DEF OneReader
<1>4. CASE Fault
  <2>1. verified' = {} \/ verified' = verified
    BY <1>4, Zenon DEF Fault
  <2>2. UNCHANGED <<worldVars, pending, acts, found, target, current>>
    BY <1>4 DEF Fault, Quiet, Error
  <2> QED BY <2>1, <2>2 DEF Fields, OneReader, Lone, worldVars
<1>5. CASE UNCHANGED <<worldVars, pending, acts, backendVars, current>>
  BY <1>5, BackendKeeps DEF OneReader, backendVars
<1>6. CASE Preflight \/ Disabled \/ Restore \/ Report \/ Interrupt \/ UNCHANGED vars
  <2>1. current' = current
    BY <1>6 DEF Preflight, Disabled, Restore, Report, Interrupt, Error, On, vars, progVars
  <2>2. UNCHANGED <<worldVars, pending, acts, backendVars>>
    BY <1>6 DEF Preflight, Disabled, Restore, Report, Interrupt, Quiet, vars
  <2> QED BY <1>5, <2>1, <2>2
<1> QED BY <1>1, <1>2, <1>3, <1>4, <1>6 DEF Next, Program

LEMMA AskedStep == Fields /\ Asked /\ [Next]_vars => Asked'
<1> SUFFICES ASSUME Fields, Asked, [Next]_vars PROVE Asked'
  OBVIOUS
<1>1. saved' = saved \/ saved' = verified
  BY DEF Next, Program, Discover, Preflight, SetEnabled, Disabled, Restore, Report, Fault, Interrupt,
         World, vars, progVars
<1> QED BY <1>1, GivenKept DEF Asked, Fields

\* Every variable keeps its type: in particular, discovery never leaves the
\* backend with two verified devices, and the restart with two readers.
THEOREM RestartTypes == Spec => []TypeOK
<1>2. Fields /\ OneReader /\ Place /\ Counts /\ Asked => TypeOK
  <2> SUFFICES ASSUME Fields, OneReader, Place, Counts, Asked PROVE TypeOK
    OBVIOUS
  <2>1. Cardinality(verified) <= 1 /\ Cardinality(current) <= 1
    BY LoneCardinality DEF OneReader
  <2>2. BackendTypeOK
    BY <2>1 DEF Fields, Counts, BackendTypeOK
  <2>3. part \in Parts /\ step \in Steps /\ current \subseteq Reader /\ attempt \in 0..2
    BY DEF Fields, Place
  <2>4. restored \in BOOLEAN /\ exc \in {"none", "error", "interrupt"}
        /\ outcome \in {"-", "reenabled", "recovery failed", "error", "interrupt"}
    BY DEF Place
  <2> QED BY <2>1, <2>2, <2>3, <2>4 DEF TypeOK, Counts, Asked
<1> QED BY <1>2, InitHolds, FieldsStep, PlaceStep, CountsStep, AskedStep, PTL DEF Spec

-----------------------------------------------------------------------------
(* The reader this run disabled is enabled again, or the operator is told. *)

\* From the moment the restoration has seen the reader enabled, nothing but a
\* late disable can take it away again; and the only ways to the end without
\* that are the ones that asked for nothing, skipped it, or report it.
Restoration ==
  /\ part = "end" => step \in {"report", "done"}
  /\ step = "done" => part = "end"
  /\ restored => part \in {"on", "end"}
  /\ restored /\ ~late => \A r \in current : state[r.id] # "disabled"
  /\ step = "done" => acts = {} \/ skipped \/ restored \/ outcome = "recovery failed"

\* Short of the end, only the restoration can set `restored`.
LEMMA OnwardRestoration ==
  ASSUME Chosen, Restoration, UNCHANGED <<state, late>>,
         part' \in {"pre", "off", "on"}, step' # "done", part = "on" => part' = "on",
         part # "end", current' = current \/ part = "pre", restored' = restored
  PROVE  Restoration'
<1>1. part \in {"pre", "off", "on"}
  BY DEF Chosen, Parts
<1>2. restored => part = "on" /\ part' = "on" /\ current' = current
  BY <1>1 DEF Restoration
<1> QED BY <1>2 DEF Restoration

LEMMA GoesOn ==
  ASSUME NEW s, On(s)
  PROVE  part' = part /\ step' = s /\ current' = current /\ restored' = restored
BY DEF On, Go

LEMMA ErrorRestoration ==
  ASSUME Chosen, Place, Restoration, part \in {"pre", "off", "on"}, Error,
         UNCHANGED <<state, late, skipped>>, part = "pre" => acts' = acts
  PROVE  Restoration'
<1>1. /\ part = "pre" => Go("end", "done")
      /\ part = "off" => Go("on", "mask")
      /\ part = "on" => Go("on", "state") \/ Go("on", "unmask")
  BY Zenon DEF Error, Raised
<1>2. current' = current /\ restored' = restored
  BY DEF Error
<1> QED BY <1>1, <1>2 DEF Go, Restoration, Chosen

LEMMA RestorationStep ==
  Chosen /\ Fields /\ OneReader /\ Place /\ Restoration /\ [Next]_vars => Restoration'
<1> SUFFICES ASSUME Chosen, Fields, OneReader, Place, Restoration, [Next]_vars PROVE Restoration'
  OBVIOUS
<1>w. Quiet => UNCHANGED <<state, late, skipped>>
  BY DEF Quiet, worldVars
<1>1. CASE Discover
  <2>1. /\ part \in {"pre", "off"} /\ acts' = acts /\ UNCHANGED <<state, late, skipped>>
    BY <1>1, <1>w DEF Discover
  <2>2. CASE Error
    BY <2>1, <2>2, ErrorRestoration
  <2>3. CASE On("map") \/ On("recheck") \/ On("same")
    BY <2>1, <2>3, GoesOn, OnwardRestoration
  <2>4. CASE part = "pre" /\ Go("pre", "confirm") /\ restored' = restored
    BY <2>1, <2>4, OnwardRestoration DEF Go
  <2> QED BY <1>1, <2>1, <2>2, <2>3, <2>4 DEF Discover, DiscoverPnp, DiscoverMap, DiscoverRecheck
<1>2. CASE Preflight
  <2>1. part = "pre" /\ acts' = acts /\ UNCHANGED <<state, late, skipped>>
    BY <1>2, <1>w DEF Preflight
  <2>2. CASE Error
    BY <2>1, <2>2, ErrorRestoration
  <2>3. CASE On("emit") \/ (Go("off", "state") /\ UNCHANGED <<current, restored>>)
    BY <2>1, <2>3, GoesOn, OnwardRestoration DEF Go
  <2> QED BY <1>2, <2>2, <2>3 DEF Preflight
<1>3. CASE SetEnabled
  <2>1. part \in {"off", "on"} /\ UNCHANGED <<state, late, skipped>>
    BY <1>3, <1>w DEF SetEnabled
  <2>2. CASE Error
    BY <2>1, <2>2, ErrorRestoration
  <2>3. CASE \E s \in Steps \ {"done"} : On(s)
    BY <2>1, <2>3, GoesOn, OnwardRestoration
  <2>4. Error \/ \E s \in Steps \ {"done"} : On(s)
    BY <1>3 DEF SetEnabled, ScriptCheck, ScriptAct, ScriptPoll, Steps
  <2> QED BY <2>2, <2>3, <2>4
<1>4. CASE Disabled
  <2>1. part = "off" /\ UNCHANGED <<state, late, skipped>>
    BY <1>4, <1>w DEF Disabled
  <2>2. On("pause") \/ (Go("on", "mask") /\ UNCHANGED <<current, restored>>)
    BY <1>4 DEF Disabled
  <2> QED BY <2>1, <2>2, GoesOn, OnwardRestoration DEF Go
<1>5. CASE Restore
  <2>1. part = "on" /\ UNCHANGED <<state, late, skipped, acts>>
    BY <1>5, <1>w DEF Restore
  <2>2. CASE Error
    BY <2>1, <2>2, ErrorRestoration
  <2>3. CASE (Go("on", "state") \/ Go("end", "report")) /\ UNCHANGED <<current, restored>>
    BY <2>1, <2>3 DEF Go, Restoration
  <2>4. CASE IsEnabled(reader) = "ok" /\ Go("on", "unmask") /\ current' = current
    <3>1. \A r \in current : r = reader
      BY DEF OneReader, Lone, reader
    <3>2. state[reader.id] = "ok"
      BY <2>4 DEF IsEnabled
    <3> QED BY <2>1, <2>4, <3>1, <3>2 DEF Go, Restoration
  <2> QED BY <1>5, <2>2, <2>3, <2>4 DEF Restore
<1>6. CASE Report
  <2>1. part = "end" /\ Go("end", "done") /\ UNCHANGED <<state, late, skipped, current, restored>>
    BY <1>6, <1>w DEF Report
  <2>2. restored' \/ outcome' = "recovery failed"
    <3>1. ~restored => Verdict = "recovery failed"
      BY Zenon DEF Verdict
    <3>2. outcome' = Verdict \/ restored
      BY <1>6, Zenon DEF Report
    <3> QED BY <2>1, <3>1, <3>2
  <2> QED BY <2>1, <2>2 DEF Go, Restoration
<1>7. CASE Fault
  <2>1. part \in {"pre", "off", "on"} /\ UNCHANGED <<state, late, skipped, acts>> /\ Error
    BY <1>7, <1>w DEF Fault
  <2> QED BY <2>1, ErrorRestoration
<1>8. CASE Interrupt
  <2>1. UNCHANGED <<state, late, acts, current, restored>>
    BY <1>8 DEF Interrupt, worldVars
  <2>2. CASE part = "off"
    <3>1. Go("on", "mask") /\ (skipped => skipped')
      BY <1>8, <2>2 DEF Interrupt
    <3> QED BY <2>1, <2>2, <3>1 DEF Go, Restoration
  <2>3. CASE part = "pre"
    <3>1. Go("end", "done")
      BY <1>8, <2>3 DEF Interrupt
    <3> QED BY <2>1, <2>3, <3>1 DEF Go, Restoration, Chosen
  <2>4. CASE part \in {"on", "end"}
    <3>1. Go("end", "done") /\ skipped'
      BY <1>8, <2>4 DEF Interrupt
    <3> QED BY <2>1, <2>4, <3>1 DEF Go, Restoration
  <2> QED BY <2>2, <2>3, <2>4 DEF Chosen, Parts
<1>9. CASE World
  <2>1. UNCHANGED <<part, step, current, restored, outcome, skipped, acts>> /\ step # "done"
    BY <1>9 DEF World, Settle, Change, progVars
  <2>2. restored /\ ~late' => \A r \in current : state'[r.id] # "disabled"
    <3> SUFFICES ASSUME restored, ~late', NEW r \in current PROVE state'[r.id] # "disabled"
      OBVIOUS
    <3>1. part \in {"on", "end"}
      BY DEF Restoration
    <3>2. ~late
      BY <1>9 DEF World
    <3>3. state[r.id] # "disabled" /\ r.id \in Ids
      BY <3>2 DEF Restoration, Fields, Reader
    <3>4. CASE Settle
      <4>1. PICK p \in pending : /\ pending' = pending \ {p}
                                 /\ state' = [state EXCEPT ![p[1]] = p[2]]
        BY <3>4 DEF Settle
      <4>2. p[2] # "disabled"
        <5>1. CASE late' = (late \/ (part \in {"on", "end"} /\ \E q \in pending \ pending' : q[2] = "disabled"))
          <6>1. p \in pending \ pending'
            BY <4>1
          <6> QED BY <3>1, <5>1, <6>1
        <5>2. CASE Change
          <6>1. pending' = pending
            BY <5>2 DEF Change
          <6> QED BY <4>1, <6>1
        <5> QED BY <1>9, <5>1, <5>2 DEF World
      <4> QED BY <3>3, <4>1, <4>2 DEF Fields
    <3>5. CASE Change
      <4>1. state' = state \/ \E i \in Ids : state' = [state EXCEPT ![i] = "odd"]
        BY <3>5 DEF Change
      <4> QED BY <3>3, <4>1 DEF Fields
    <3> QED BY <1>9, <3>4, <3>5 DEF World
  <2> QED BY <2>1, <2>2 DEF Restoration
<1>10. CASE UNCHANGED vars
  BY <1>10 DEF vars, progVars, worldVars, Restoration
<1> QED BY <1>1, <1>2, <1>3, <1>4, <1>5, <1>6, <1>7, <1>8, <1>9, <1>10 DEF Next, Program

\* Whatever fails, changes or is interrupted, and however late Windows carries
\* an enable out: a reader warm_restart() has disabled is either enabled when it
\* returns, or the operator is told that recovery failed (goodix_capture_core.py:280),
\* save for a Ctrl-C in the unmasked part of `finally` and a late disable.
THEOREM NotLeftDisabled == Spec => []NeverLeftDisabled
<1>1. Init => Restoration
  <2>1. Init => part = "pre" /\ step = "pnp" /\ restored = FALSE
    BY DEF Init
  <2> QED BY <2>1 DEF Restoration
<1>2. Restoration => NeverLeftDisabled
  BY DEF Restoration, NeverLeftDisabled
<1> QED BY <1>1, <1>2, InitHolds, ChosenStep, FieldsStep, PlaceStep, RestorationStep, PTL DEF Spec
=============================================================================
