---------------------------- MODULE MCCaptureFile ----------------------------
(* Requests of a short window: a command and its reply around a large TLS
   record; a control transfer among bare envelopes and commands; another device
   of the hub whose transfers look like the reader's, and an OUT transfer that
   snaplen cuts. *)
EXTENDS CaptureFile

Bulk(ep, length, framed) ==
  [bulk |-> TRUE, ours |-> TRUE, ep |-> ep, framed |-> framed, length |-> length]
Control == [bulk |-> FALSE, ours |-> TRUE, ep |-> 0, framed |-> FALSE, length |-> 0]

Command == Bulk(OutData, 5, TRUE)
Reply == Bulk(InData, 5, TRUE)
Others(request) == [request EXCEPT !.ours = FALSE]
ThreeWindows == {<<Command, Bulk(InData, 200, FALSE), Reply>>,
                 <<Bulk(OutData, 4, FALSE), Control, Command>>,
                 <<Bulk(OutData, 300, FALSE), Others(Command), Others(Reply)>>}

\* One pointer is as good as another.
Pointers == Permutations(Irps)
=============================================================================
