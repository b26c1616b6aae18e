---------------------------- MODULE WarmRestart ----------------------------
(* warm_restart() (tools/goodix_capture_core.py) over WindowsBackend: disable
   the reader, wait, and enable it again, whatever fails in between, with
   Ctrl-C at any step outside the masked part. *)
EXTENDS WindowsBackend

CONSTANT MaxInterrupts   \* bound on Ctrl-C in one restart

ASSUME RestartAssumption == MaxInterrupts \in Nat

VARIABLES part, step,    \* pre: before `try`; off: its body; on: its `finally`
          given,         \* the reader the caller asks for (an instance id)
          current,       \* the reader discovered, {} before
          saved,         \* set_enabled()'s `verified`
          attempt,       \* of the two restoration attempts
          restored, exc, \* the local, and the exception on its way out
          outcome,       \* how warm_restart() ended
          interrupts,
          skipped,       \* history: Ctrl-C in `finally`, outside its masked part
          late           \* history: a disable took effect once `finally` was entered

progVars == <<part, step, given, current, saved, attempt, restored, exc, outcome>>
vars == <<progVars, worldVars, pending, acts, backendVars, faults, interrupts, skipped, late>>

Parts == {"pre", "off", "on", "end"}
Steps == {"state", "pnp", "map", "recheck", "same", "script", "act", "poll", "verify",
          "confirm", "emit", "pause", "mask", "unmask", "report", "done"}

Go(p, s) == part' = p /\ step' = s

\* An exception where the program is: out, to `finally`, or to the next attempt.
Raised(e) ==
  CASE part = "pre" -> Go("end", "done") /\ exc' = e /\ outcome' = e /\ UNCHANGED attempt
    [] part = "off" -> Go("on", "mask") /\ exc' = e /\ UNCHANGED <<outcome, attempt>>
    [] OTHER -> /\ IF attempt = 1 THEN Go("on", "state") ELSE Go("on", "unmask")
                /\ attempt' = 2 /\ UNCHANGED <<exc, outcome>>

Error == Raised("error") /\ UNCHANGED <<current, restored>>
On(s) == Go(part, s) /\ UNCHANGED <<current, attempt, restored, exc, outcome>>

wanted == IF part = "off" THEN "disabled" ELSE "ok"
reader == CHOOSE r \in current : TRUE

Quiet == UNCHANGED <<worldVars, given, interrupts, skipped, late>>

Discover ==
  /\ part \in {"pre", "off"}
  /\ \/ step = "pnp" /\ DiscoverPnp(On("map"), Error)
     \/ step = "map" /\ DiscoverMap(On("recheck"), Error)
     \/ /\ step = "recheck"
        /\ DiscoverRecheck(
             IF part = "off" THEN On("same")
             ELSE /\ Go("pre", "confirm")
                  /\ current' = {v.reader : v \in verified}
                  /\ UNCHANGED <<attempt, restored, exc, outcome>>,
             Error)
  /\ Quiet /\ UNCHANGED <<pending, acts, faults, saved>>

\* The reader found must be the caller's, and enabled; an event is written, and
\* `try` entered.
Preflight ==
  /\ part = "pre"
  /\ \/ /\ step = "confirm"
        /\ IF reader.id = given /\ IsEnabled(reader) = "ok" THEN On("emit") ELSE Error
     \/ /\ step = "emit"
        /\ Go("off", "state") /\ UNCHANGED <<current, attempt, restored, exc, outcome>>
  /\ Quiet /\ UNCHANGED <<pending, acts, backendVars, faults, saved>>

\* set_enabled(): nothing to do, or (disabling) a fresh discovery that must find
\* the same mapping and driver key, the script, and a last look.
SetEnabled ==
  /\ part \in {"off", "on"}
  /\ \/ /\ step = "state"
        /\ IF IsEnabled(reader) \notin {"ok", "disabled"} THEN Error
           ELSE IF IsEnabled(reader) = wanted THEN On("verify")
           ELSE On(IF part = "off" THEN "pnp" ELSE "script")
        /\ saved' = verified
        /\ UNCHANGED <<pending, acts, backendVars>>
     \/ /\ step = "same"
        /\ IF verified = saved THEN On("script") ELSE Error
        /\ UNCHANGED <<pending, acts, backendVars, saved>>
     \/ /\ step = "script"
        /\ ScriptCheck(reader, wanted, On("act"), Error)
        /\ UNCHANGED <<pending, acts, saved>>
     \/ /\ step = "act"
        /\ ScriptAct(wanted, On("poll"), Error)
        /\ UNCHANGED <<backendVars, saved>>
     \/ /\ step = "poll"
        /\ ScriptPoll(reader, wanted, On("verify"), Error)
        /\ UNCHANGED <<pending, acts, backendVars, saved>>
     \/ /\ step = "verify"
        /\ IF IsEnabled(reader) # wanted THEN Error
           ELSE On(IF part = "off" THEN "emit" ELSE "confirm")
        /\ UNCHANGED <<pending, acts, backendVars, saved>>
  /\ Quiet /\ UNCHANGED faults

Disabled ==
  /\ part = "off"
  /\ \/ step = "emit" /\ On("pause")
     \/ step = "pause" /\ Go("on", "mask") /\ UNCHANGED <<current, attempt, restored, exc, outcome>>
  /\ Quiet /\ UNCHANGED <<pending, acts, backendVars, faults, saved>>

\* The two attempts of the loop: an exception goes on to the next one, and so
\* does a reader that is still not enabled.
Restore ==
  /\ part = "on"
  /\ \/ /\ step = "mask" /\ Go("on", "state") /\ attempt' = 1
        /\ UNCHANGED <<current, restored, exc, outcome>>
     \/ /\ step = "confirm"
        /\ IF IsEnabled(reader) = "ok"
           THEN /\ restored' = TRUE
                /\ Go("on", "unmask") /\ UNCHANGED <<current, attempt, exc, outcome>>
           ELSE Error
     \/ /\ step = "unmask" /\ Go("end", "report")
        /\ UNCHANGED <<current, attempt, restored, exc, outcome>>
  /\ Quiet /\ UNCHANGED <<pending, acts, backendVars, faults, saved>>

\* READER RECOVERY FAILED replaces whatever was on its way out.
ReportTheFirst == IF exc # "none" THEN exc ELSE IF restored THEN "reenabled" ELSE "recovery failed"
Verdict == IF ~restored THEN "recovery failed" ELSE IF exc = "none" THEN "reenabled" ELSE exc

\* The event after a restoration may fail to be written.
Report ==
  /\ part = "end" /\ step = "report"
  /\ \/ outcome' = Verdict /\ UNCHANGED faults
     \/ restored /\ faults < MaxFaults /\ faults' = faults + 1 /\ outcome' = "error"
  /\ Go("end", "done") /\ UNCHANGED <<current, attempt, restored, exc>>
  /\ Quiet /\ UNCHANGED <<pending, acts, backendVars, saved>>

\* A command that fails or times out, or an event that cannot be written.
Fault ==
  /\ faults < MaxFaults /\ faults' = faults + 1
  /\ part \in {"pre", "off", "on"} /\ step \notin {"same", "pause", "mask", "unmask"}
  /\ Error
  /\ verified' = IF step \in {"pnp", "map", "recheck"} THEN {} ELSE verified
  /\ Quiet /\ UNCHANGED <<pending, acts, found, target, saved>>

\* The masked part of `finally`: signal(SIGINT, SIG_IGN) until it is put back.
Masked == part = "on" /\ step # "mask"

Interrupt ==
  /\ step # "done" /\ ~Masked /\ interrupts < MaxInterrupts
  /\ interrupts' = interrupts + 1
  /\ IF part = "off" THEN Go("on", "mask") /\ UNCHANGED outcome
                     ELSE Go("end", "done") /\ outcome' = "interrupt"
  /\ exc' = "interrupt"
  /\ skipped' = (skipped \/ part \in {"on", "end"})
  /\ UNCHANGED <<given, current, saved, attempt, restored, worldVars, pending, acts, backendVars,
                 faults, late>>

World ==
  /\ step # "done"
  /\ \/ Settle /\ late' = (late \/ (part \in {"on", "end"} /\ \E p \in pending \ pending' : p[2] = "disabled"))
     \/ Change /\ UNCHANGED late
  /\ UNCHANGED <<progVars, interrupts, skipped>>

Init ==
  /\ BackendInit
  /\ part = "pre" /\ step = "pnp" /\ given \in Ids /\ current = {} /\ saved = {} /\ attempt = 0
  /\ restored = FALSE /\ exc = "none" /\ outcome = "-"
  /\ interrupts = 0 /\ skipped = FALSE /\ late = FALSE

Program == Discover \/ Preflight \/ SetEnabled \/ Disabled \/ Restore \/ Report \/ Fault
Next == Program \/ Interrupt \/ World
Spec == Init /\ [][Next]_vars
-----------------------------------------------------------------------------
TypeOK ==
  /\ BackendTypeOK
  /\ part \in Parts /\ step \in Steps
  /\ given \in Ids /\ current \subseteq Reader /\ Cardinality(current) <= 1
  /\ saved \subseteq [reader : Reader, key : Keys]
  /\ attempt \in 0..2 /\ restored \in BOOLEAN
  /\ exc \in {"none", "error", "interrupt"}
  /\ outcome \in {"-", "reenabled", "recovery failed", "error", "interrupt"}
  /\ interrupts \in 0..MaxInterrupts /\ skipped \in BOOLEAN /\ late \in BOOLEAN

\* Whatever is plugged, unplugged or re-keyed between two calls, Windows is only
\* ever asked to disable or enable the reader this run discovered, and that one is
\* the reader the caller asked for.
OnlyTheDiscovered == \A a \in acts : a[1] = given /\ \E r \in current : a[1] = r.id

\* A reader this run disabled is not left disabled when warm_restart() ends
\* without the operator being told that recovery failed, whatever failed or
\* changed in between. Excepted are a Ctrl-C that falls into `finally` outside
\* its masked part, and a disable that takes effect once `finally` was entered.
NeverLeftDisabled ==
  step = "done" /\ ~skipped /\ ~late =>
    \A r \in current : <<r.id, "disabled">> \in acts
      => state[r.id] # "disabled" \/ outcome = "recovery failed"

\* "Do not let logging failures or a second Ctrl+C prevent restoration."
\* (goodix_capture_core.py:261): a disable is always followed by an attempt.
AlwaysAttempted ==
  step = "done" /\ (\E a \in acts : a[2] = "disabled") => attempt > 0

\* READER RECOVERY FAILED tells the operator to re-enable the reader: it is
\* not raised over a reader nobody has disabled and nothing has happened to.
AlarmIsReal ==
  outcome = "recovery failed" =>
    changes > 0 \/ \E a \in acts : a[2] = "disabled"
=============================================================================
