--------------------------- MODULE WindowsBackend ---------------------------
(* WindowsBackend (tools/goodix_windows.py) and the PowerShell scripts it runs,
   over the plug-and-play devices of the machine. Each call to Windows is one
   step; the devices may change between any two of them. *)
EXTENDS Naturals, FiniteSets

CONSTANTS Ids,        \* PnP instance ids of 27c6:55a2 readers
          Keys,       \* PnP driver keys
          Maps,       \* interface, bus, address and driver version of a Reader
          MaxFaults,  \* bound on calls to Windows that fail
          MaxChanges  \* bound on changes to the devices nobody asked for

VARIABLES plugged,    \* the readers present
          state,      \* their PnP state: healthy, disabled (22), anything else
          key, map,   \* their driver key and USB mapping
          pending,    \* accepted by Windows and not yet in effect
          acts,       \* history: every enable and disable Windows carried out
          verified,   \* backend._verified, at most one
          found,      \* discover()'s device between its calls
          target,     \* the script's $d
          faults, changes

ASSUME BackendAssumption == MaxFaults \in Nat /\ MaxChanges \in Nat

worldVars   == <<plugged, state, key, map, changes>>
backendVars == <<verified, found, target>>

PnpStates == {"ok", "disabled", "odd"}
Reader    == [id : Ids, map : Maps]

BackendTypeOK ==
  /\ plugged \subseteq Ids /\ state \in [Ids -> PnpStates]
  /\ key \in [Ids -> Keys] /\ map \in [Ids -> Maps]
  /\ pending \subseteq Ids \X {"ok", "disabled"}
  /\ acts \subseteq Ids \X {"ok", "disabled"}
  /\ verified \subseteq [reader : Reader, key : Keys] /\ Cardinality(verified) <= 1
  /\ found \subseteq [id : Ids, key : Keys] /\ target \subseteq Ids
  /\ faults \in 0..MaxFaults /\ changes \in 0..MaxChanges

BackendInit ==
  /\ plugged \in (SUBSET Ids) \ {{}}
  /\ state = [i \in Ids |-> "ok"]
  /\ key \in [Ids -> Keys] /\ \A i, j \in Ids : key[i] = key[j] => i = j
  /\ map \in [Ids -> Maps]
  /\ pending = {} /\ acts = {}
  /\ verified = {} /\ found = {} /\ target = {}
  /\ faults = 0 /\ changes = 0

-----------------------------------------------------------------------------
(* What the backend's queries answer. *)

\* is_enabled(): the PnP state, "refused" where it raises before asking for one.
\* Only "ok" and "disabled" are answers; "odd" raises too.
IsEnabled(reader) ==
  IF \E v \in verified : v.reader = reader /\ plugged = {reader.id} /\ key[reader.id] = v.key
  THEN state[reader.id] ELSE "refused"

\* The devices discover()'s PnP query leaves it: one, and healthy.
Candidates == {d \in plugged : plugged = {d} /\ state[d] = "ok"}

\* The USB hits whose driver key is that of the PnP device.
HitsOfAnyDriver == plugged
Hits == {d \in plugged : plugged = {d} /\ \E f \in found : key[d] = f.key}

\* The script's VerifiedDevice: the one present reader, if it is the verified one.
VerifiedDeviceAny(reader) == {d \in plugged : plugged = {d}}
VerifiedDevice(reader) ==
  {d \in plugged : plugged = {d} /\ d = reader.id
                   /\ \E v \in verified : v.reader = reader /\ v.key = key[d]}

-----------------------------------------------------------------------------
(* discover(): a PnP query, the USB traversal, a second PnP query. `ok` is
   the step to go on with, `Raise` what the caller makes of an exception. *)

DiscoverPnp(Ok, Raise) ==
  /\ verified' = {}
  /\ found' = {[id |-> d, key |-> key[d]] : d \in Candidates}
  /\ IF found' # {} THEN Ok ELSE Raise
  /\ UNCHANGED target

DiscoverMap(Ok, Raise) ==
  /\ verified' = {[reader |-> [id |-> f.id, map |-> map[d]], key |-> f.key] : f \in found, d \in Hits}
  /\ IF verified' # {} THEN Ok ELSE Raise
  /\ UNCHANGED <<found, target>>

DiscoverRecheck(Ok, Raise) ==
  /\ IF \E v \in verified : IsEnabled(v.reader) = "ok"
     THEN Ok /\ UNCHANGED verified
     ELSE Raise /\ verified' = {}
  /\ UNCHANGED <<found, target>>

-----------------------------------------------------------------------------
(* _PS_SET: verify the device and its state, act, poll for the new state. *)

ScriptCheck(reader, wanted, Ok, Raise) ==
  /\ target' = {d \in VerifiedDevice(reader) :
                  state[d] = (IF wanted = "ok" THEN "disabled" ELSE "ok")}
  /\ IF target' # {} THEN Ok ELSE Raise
  /\ UNCHANGED <<verified, found>>

\* Windows accepts the action for a device that is still there.
ScriptAct(wanted, Ok, Raise) ==
  /\ IF target \subseteq plugged
     THEN /\ pending' = pending \cup (target \X {wanted})
          /\ acts' = acts \cup (target \X {wanted})
          /\ Ok
     ELSE Raise /\ UNCHANGED <<pending, acts>>

\* 40 polls of 250 ms: seen, or given up.
ScriptPoll(reader, wanted, Ok, Raise) ==
  IF \E d \in VerifiedDevice(reader) : state[d] = wanted THEN Ok ELSE Raise

-----------------------------------------------------------------------------
(* The machine. *)

\* An accepted action takes effect.
Settle ==
  \E p \in pending :
    /\ pending' = pending \ {p}
    /\ state' = [state EXCEPT ![p[1]] = p[2]]
    /\ UNCHANGED <<plugged, key, map, changes, acts, backendVars, faults>>

\* Readers plugged and unplugged, a driver replaced, an address reassigned, a
\* device in trouble.
Change ==
  /\ changes < MaxChanges /\ changes' = changes + 1
  /\ \/ plugged' \in SUBSET Ids \ {plugged} /\ UNCHANGED <<state, key, map>>
     \/ \E i \in Ids, k \in Keys \ {key[j] : j \in Ids} :
          key' = [key EXCEPT ![i] = k] /\ UNCHANGED <<plugged, state, map>>
     \/ \E i \in Ids : \E m \in Maps \ {map[i]} :
          map' = [map EXCEPT ![i] = m] /\ UNCHANGED <<plugged, state, key>>
     \/ \E i \in Ids :
          state[i] = "ok" /\ state' = [state EXCEPT ![i] = "odd"] /\ UNCHANGED <<plugged, key, map>>
  /\ UNCHANGED <<pending, acts, backendVars, faults>>
=============================================================================
