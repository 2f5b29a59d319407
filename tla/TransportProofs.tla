-------------------------- MODULE TransportProofs --------------------------
(***************************************************************************)
(* What ProfileTransport promises of the loaded profile and of the order   *)
(* of the reports, for any set of interpreters, any backlog and limits,    *)
(* and any number of checkpoints, stalled sends and failed file            *)
(* operations.                                                             *)
(***************************************************************************)
EXTENDS ProfileTransport, FiniteSetTheorems, TLAPS

Pcs == {"off", "idle", "join", "send", "open", "replace", "exit"}
PubState == [pc : Pcs, doc : Reports \cup {NoReport}]
InterpState == [life : {"unborn", "up", "leaving", "down", "dead"}, stop : BOOLEAN,
                errors : 0..1, done : 0..MaxCheckpoints, heard : BOOLEAN]
Messages == [pid : Pids, doc : Reports, whole : BOOLEAN]
CollectorState == [pc : {"top", "store", "ended"}, msg : Seq(Messages), messages : Nat,
                   errors : Nat, accepted : SUBSET Pids, dropped : SUBSET Pids, cut : BOOLEAN]

Active == {"send", "open", "replace"}

\* The main thread registers, and later sets stop_event and publishes the final
\* report; the daemon thread starts after the registration, and publishes the
\* checkpoint counted last.
LifeInv(p) ==
  /\ interp[p].life \in {"unborn", "down", "dead"} => \A t \in Threads : pub[p][t].pc = "off"
  /\ interp[p].life = "unborn" => /\ interp[p].done = 0 /\ ~interp[p].stop
                                  /\ ~interp[p].heard
  /\ interp[p].life = "up" => ~interp[p].stop /\ pub[p]["main"].pc \in Active \cup {"idle"}
  /\ interp[p].life = "leaving" => /\ interp[p].stop
                                   /\ pub[p]["main"].pc \in Active \cup {"join", "exit"}

MainInv(p) ==
  /\ pub[p]["main"].pc \in Active =>
       /\ interp[p].life = "up" => pub[p]["main"].doc.kind = "registration"
       /\ interp[p].life = "leaving" => pub[p]["main"].doc.kind = "final"
       /\ pub[p]["main"].doc.kind = "registration" =>
            pub[p]["sampler"].pc = "off" /\ pub[p]["main"].doc.at = 0
       /\ pub[p]["main"].doc.kind = "final" =>
            /\ pub[p]["sampler"].pc \in Active \cup {"idle"}
            /\ pub[p]["main"].doc.at = MaxCheckpoints + 1
            /\ pub[p]["main"].doc.clean => pub[p]["sampler"].pc = "idle"
  /\ pub[p]["main"].pc \in {"idle", "join", "exit"} =>
       pub[p]["sampler"].pc \in Active \cup {"idle"}

SamplerInv(p) ==
  pub[p]["sampler"].pc \in Active =>
    pub[p]["sampler"].doc.kind = "checkpoint" /\ pub[p]["sampler"].doc.at = interp[p].done

DocInv(p) ==
  \A t \in Threads :
    /\ pub[p][t].pc \in Active => pub[p][t].doc \in Reports
    /\ pub[p][t].pc \in {"open", "replace"} => pub[p][t].doc.fallback
    /\ pub[p][t].pc = "send" => ~pub[p][t].doc.fallback

ThreadInv(p) == MainInv(p) /\ SamplerInv(p) /\ DocInv(p)

\* A thread that created the temporary file still has it, or the other thread has
\* unlinked it and will not create another.
NameInv(p) ==
  /\ pub[p]["main"].pc = "replace" =>
       tmp[p] = "main" \/ (tmp[p] = "none" /\ pub[p]["sampler"].pc \in {"idle", "off"})
  /\ pub[p]["sampler"].pc = "replace" =>
       tmp[p] = "sampler" \/ (tmp[p] = "none" /\ pub[p]["main"].pc = "exit")
  /\ files[p] # Torn

Before(d, e) == d.clean => e.at >= d.at

\* Whatever p has still to send is not before d.
Behind(p, d) ==
  /\ \A t \in Threads : pub[p][t].pc = "send" => Before(d, pub[p][t].doc)
  /\ interp[p].life \in {"unborn", "up", "leaving"} /\ d.clean =>
       d.at <= interp[p].done \/ (interp[p].stop /\ pub[p]["sampler"].pc = "idle")

\* The reports of one interpreter that came through the socket are in order: the
\* one stored, the one about to be stored, those that wait, those being sent.
OrderInv ==
  /\ \A i \in DOMAIN queue :
       /\ ~queue[i].doc.fallback /\ Behind(queue[i].pid, queue[i].doc)
       /\ \A j \in DOMAIN queue :
            i < j /\ queue[i].pid = queue[j].pid => Before(queue[i].doc, queue[j].doc)
  /\ collector.pc = "store" =>
       /\ ~collector.msg[1].doc.fallback /\ Behind(collector.msg[1].pid, collector.msg[1].doc)
       /\ \A j \in DOMAIN queue : collector.msg[1].pid = queue[j].pid =>
                                    Before(collector.msg[1].doc, queue[j].doc)
  /\ \A p \in Pids : ~files[p].fallback =>
       /\ Behind(p, files[p])
       /\ collector.pc = "store" /\ collector.msg[1].pid = p =>
            Before(files[p], collector.msg[1].doc)
       /\ \A j \in DOMAIN queue : queue[j].pid = p => Before(files[p], queue[j].doc)

\* What an interpreter believes published is stored or on its way, or the loader
\* will know that something is missing.
Known(p) ==
  \/ files[p] # NoReport
  \/ collector.dropped # {} \/ collector.errors > 0 \/ control.hurried
OnItsWay(p) ==
  \/ collector.pc = "store" /\ collector.msg[1].pid = p
  \/ \E i \in DOMAIN queue : queue[i].pid = p /\ queue[i].whole
Kept(p) == Known(p) \/ (collector.pc # "ended" /\ OnItsWay(p))
HeardInv == \A p \in Pids : interp[p].heard => Kept(p)

\* The collector and the controller.
ControlInv ==
  /\ collector.pc = "ended" /\ listener = "open" => Stopping
  /\ listener = "absent" => collector.pc = "ended"
  /\ control.pc \in {"capture", "join"} => ~control.hurried
  /\ control.pc \in {"close", "rejoin", "load"} => control.hurried \/ collector.pc = "ended"
  /\ control.pc = "join" => listener # "absent"
  /\ control.pc # "loaded" => control.result = <<>>
  /\ collector.pc = "store" => Len(collector.msg) = 1

\* The types, with the records and the sequences as such.
Typed ==
  /\ TypeOK
  /\ queue \in Seq(Messages)
  /\ collector \in CollectorState /\ IsFiniteSet(collector.accepted)
  /\ control = [pc |-> control.pc, hurried |-> control.hurried, result |-> control.result]
  /\ control.hurried \in BOOLEAN
  /\ limit \in Nat \ {0}

IInv ==
  /\ Typed
  /\ \A p \in Pids : LifeInv(p) /\ ThreadInv(p) /\ NameInv(p)
  /\ OrderInv /\ HeardInv /\ ControlInv /\ CompleteIsFinal

-----------------------------------------------------------------------------
(* What a step does to an interpreter and to its two threads.              *)

PubOK == pub \in [Pids -> [Threads -> PubState]]
InterpOK == interp \in [Pids -> InterpState]

\* The other interpreters stay as they are.
Alone(p) ==
  /\ PubOK' /\ InterpOK'
  /\ \A q \in Pids : q # p => interp'[q] = interp[q] /\ pub'[q] = pub[q]

Keeps(p) ==
  /\ interp'[p].life = interp[p].life
  /\ interp'[p].stop = interp[p].stop
  /\ interp'[p].done = interp[p].done

Elsewhere == <<tmp, files, queue, listener, collector, control, limit, faults>>

LEMMA SettingMain ==
  ASSUME PubOK, NEW p \in Pids, NEW new \in PubState, pub' = [pub EXCEPT ![p]["main"] = new]
  PROVE  /\ PubOK'
         /\ \A q \in Pids : q # p => pub'[q] = pub[q]
         /\ pub'[p]["main"] = new /\ pub'[p]["sampler"] = pub[p]["sampler"]
  <1> DEFINE both == [pub[p] EXCEPT !["main"] = new]
  <1>1. both \in [Threads -> PubState] /\ both["main"] = new /\ both["sampler"] = pub[p]["sampler"]
    BY DEF PubOK, Threads
  <1>2. pub' = [pub EXCEPT ![p] = both]
    OBVIOUS
  <1> HIDE DEF both
  <1>3. pub'[p] = both /\ PubOK' /\ \A q \in Pids : q # p => pub'[q] = pub[q]
    BY <1>1, <1>2 DEF PubOK
  <1> QED
    BY <1>1, <1>3

LEMMA SettingSampler ==
  ASSUME PubOK, NEW p \in Pids, NEW new \in PubState, pub' = [pub EXCEPT ![p]["sampler"] = new]
  PROVE  /\ PubOK'
         /\ \A q \in Pids : q # p => pub'[q] = pub[q]
         /\ pub'[p]["sampler"] = new /\ pub'[p]["main"] = pub[p]["main"]
  <1> DEFINE both == [pub[p] EXCEPT !["sampler"] = new]
  <1>1. both \in [Threads -> PubState] /\ both["sampler"] = new /\ both["main"] = pub[p]["main"]
    BY DEF PubOK, Threads
  <1>2. pub' = [pub EXCEPT ![p] = both]
    OBVIOUS
  <1> HIDE DEF both
  <1>3. pub'[p] = both /\ PubOK' /\ \A q \in Pids : q # p => pub'[q] = pub[q]
    BY <1>1, <1>2 DEF PubOK
  <1> QED
    BY <1>1, <1>3

LEMMA SettingBoth ==
  ASSUME PubOK, NEW p \in Pids, NEW new \in PubState,
         pub' = [pub EXCEPT ![p] = [u \in Threads |-> new]]
  PROVE  /\ PubOK'
         /\ \A q \in Pids : q # p => pub'[q] = pub[q]
         /\ \A u \in Threads : pub'[p][u] = new
  BY DEF PubOK

LEMMA Renewing ==
  ASSUME InterpOK, NEW p \in Pids, NEW new \in InterpState,
         interp' = [interp EXCEPT ![p] = new]
  PROVE  /\ InterpOK' /\ interp'[p] = new
         /\ \A q \in Pids : q # p => interp'[q] = interp[q]
  BY DEF InterpOK

LEMMA ReportTyped ==
  ASSUME NEW kind \in Kinds, NEW at \in 0..MaxCheckpoints + 1, NEW clean \in BOOLEAN
  PROVE  /\ Report(kind, at, clean) \in Reports
         /\ Report(kind, at, clean).kind = kind /\ Report(kind, at, clean).at = at
         /\ Report(kind, at, clean).clean = clean /\ ~Report(kind, at, clean).fallback
  BY DEF Report, Reports

\* A thread with something to send.
LEMMA Sending ==
  ASSUME NEW doc \in Reports
  PROVE  /\ [pc |-> "send", doc |-> doc] \in PubState
         /\ [pc |-> "send", doc |-> doc].pc = "send"
         /\ [pc |-> "send", doc |-> doc].doc = doc
  BY DEF PubState, Pcs

LEMMA IdleTyped ==
  ASSUME NEW pc \in Pcs
  PROVE  [pc |-> pc, doc |-> NoReport] \in PubState /\ [pc |-> pc, doc |-> NoReport].pc = pc
  BY DEF PubState

LEMMA Starting ==
  ASSUME PubOK, InterpOK, NEW p \in Pids, Start(p)
  PROVE  /\ Alone(p) /\ UNCHANGED Elsewhere
         /\ interp[p].life = "unborn" /\ interp'[p].life = "up"
         /\ interp'[p].stop = interp[p].stop /\ interp'[p].done = interp[p].done
         /\ interp'[p].heard = interp[p].heard
         /\ pub'[p]["main"].pc = "send" /\ pub'[p]["main"].doc \in Reports
         /\ pub'[p]["main"].doc.kind = "registration" /\ pub'[p]["main"].doc.at = 0
         /\ ~pub'[p]["main"].doc.fallback
         /\ pub'[p]["sampler"] = pub[p]["sampler"]
  <1> DEFINE new == [interp[p] EXCEPT !.life = "up"]
             one == [pc |-> "send", doc |-> Registration]
  <1>1. /\ new \in InterpState /\ new.life = "up" /\ new.stop = interp[p].stop
        /\ new.done = interp[p].done /\ new.heard = interp[p].heard
    BY DEF InterpOK, InterpState
  <1>2. /\ Registration \in Reports /\ Registration.kind = "registration"
        /\ Registration.at = 0 /\ ~Registration.fallback
    <2>1. 0 \in 0..MaxCheckpoints + 1 /\ "registration" \in Kinds
      BY TransportAssumption DEF Kinds
    <2> QED
      BY <2>1, ReportTyped DEF Registration
  <1>3. one \in PubState /\ one.pc = "send" /\ one.doc = Registration
    BY <1>2, Sending
  <1>4. /\ interp' = [interp EXCEPT ![p] = new] /\ pub' = [pub EXCEPT ![p]["main"] = one]
        /\ interp[p].life = "unborn" /\ UNCHANGED Elsewhere
    BY DEF Start, Elsewhere
  <1> HIDE DEF new, one
  <1>6. /\ InterpOK' /\ interp'[p] = new /\ \A q \in Pids : q # p => interp'[q] = interp[q]
    BY <1>1, <1>4, Renewing
  <1>7. /\ PubOK' /\ pub'[p]["main"] = one /\ pub'[p]["sampler"] = pub[p]["sampler"]
        /\ \A q \in Pids : q # p => pub'[q] = pub[q]
    BY <1>3, <1>4, SettingMain
  <1> QED
    BY <1>1, <1>2, <1>3, <1>4, <1>6, <1>7 DEF Alone

LEMMA Checkpointing ==
  ASSUME PubOK, InterpOK, NEW p \in Pids, Checkpoint(p)
  PROVE  /\ Alone(p) /\ UNCHANGED Elsewhere
         /\ pub[p]["sampler"].pc = "idle" /\ ~interp[p].stop
         /\ interp'[p].life = interp[p].life /\ interp'[p].stop = interp[p].stop
         /\ interp'[p].heard = interp[p].heard
         /\ interp[p].done \in Nat /\ interp'[p].done = interp[p].done + 1
         /\ pub'[p]["sampler"].pc = "send" /\ pub'[p]["sampler"].doc \in Reports
         /\ pub'[p]["sampler"].doc.kind = "checkpoint"
         /\ pub'[p]["sampler"].doc.at = interp[p].done + 1
         /\ ~pub'[p]["sampler"].doc.fallback
         /\ pub'[p]["main"] = pub[p]["main"]
  <1> DEFINE doc == Report("checkpoint", interp[p].done + 1, interp[p].errors = 0)
             new == [interp[p] EXCEPT !.done = interp[p].done + 1]
             one == [pc |-> "send", doc |-> doc]
  <1>0. /\ pub[p]["sampler"].pc = "idle" /\ ~interp[p].stop
        /\ interp[p].done < MaxCheckpoints
        /\ interp' = [interp EXCEPT ![p] = new] /\ pub' = [pub EXCEPT ![p]["sampler"] = one]
        /\ UNCHANGED Elsewhere
    BY DEF Checkpoint, Elsewhere
  <1>1. /\ interp[p].done \in Nat /\ interp[p].done + 1 \in 0..MaxCheckpoints
        /\ interp[p].done + 1 \in 0..MaxCheckpoints + 1
    <2>1. interp[p].done \in 0..MaxCheckpoints /\ MaxCheckpoints \in Nat
      BY TransportAssumption DEF InterpOK, InterpState
    <2> QED
      BY <1>0, <2>1
  <1>2. /\ new \in InterpState /\ new.life = interp[p].life /\ new.stop = interp[p].stop
        /\ new.done = interp[p].done + 1 /\ new.heard = interp[p].heard
    BY <1>1 DEF InterpOK, InterpState
  <1>3. doc \in Reports /\ doc.kind = "checkpoint" /\ doc.at = interp[p].done + 1 /\ ~doc.fallback
    <2>1. "checkpoint" \in Kinds /\ (interp[p].errors = 0) \in BOOLEAN
      BY DEF Kinds
    <2> QED
      BY <1>1, <2>1, ReportTyped
  <1> HIDE DEF doc, new
  <1>4. one \in PubState /\ one.pc = "send" /\ one.doc = doc
    BY <1>3, Sending
  <1> HIDE DEF one
  <1>6. InterpOK' /\ interp'[p] = new /\ \A q \in Pids : q # p => interp'[q] = interp[q]
    BY <1>0, <1>2, Renewing
  <1>7. /\ PubOK' /\ pub'[p]["sampler"] = one /\ pub'[p]["main"] = pub[p]["main"]
        /\ \A q \in Pids : q # p => pub'[q] = pub[q]
    BY <1>0, <1>4, SettingSampler
  <1> QED
    BY <1>0, <1>1, <1>2, <1>3, <1>4, <1>6, <1>7 DEF Alone

LEMMA Leaving ==
  ASSUME PubOK, InterpOK, NEW p \in Pids, Leave(p)
  PROVE  /\ Alone(p) /\ UNCHANGED Elsewhere
         /\ interp[p].life = "up" /\ pub[p]["main"].pc = "idle"
         /\ interp'[p].life = "leaving" /\ interp'[p].stop
         /\ interp'[p].done = interp[p].done /\ interp'[p].heard = interp[p].heard
         /\ pub'[p]["main"].pc = "join"
         /\ pub'[p]["sampler"] = pub[p]["sampler"]
  <1> DEFINE new == [interp[p] EXCEPT !.life = "leaving", !.stop = TRUE]
             one == [pub[p]["main"] EXCEPT !.pc = "join"]
  <1>1. /\ new \in InterpState /\ new.life = "leaving" /\ new.stop
        /\ new.done = interp[p].done /\ new.heard = interp[p].heard
    BY DEF InterpOK, InterpState
  <1>2. pub[p]["main"] \in PubState
    BY DEF PubOK, Threads
  <1>3. one \in PubState /\ one.pc = "join"
    BY <1>2 DEF PubState, Pcs
  <1>4. /\ interp' = [interp EXCEPT ![p] = new] /\ pub' = [pub EXCEPT ![p]["main"] = one]
        /\ interp[p].life = "up" /\ pub[p]["main"].pc = "idle" /\ UNCHANGED Elsewhere
    BY DEF Leave, Elsewhere
  <1> HIDE DEF new, one
  <1>5. InterpOK' /\ interp'[p] = new /\ \A q \in Pids : q # p => interp'[q] = interp[q]
    BY <1>1, <1>4, Renewing
  <1>6. /\ PubOK' /\ pub'[p]["main"] = one /\ pub'[p]["sampler"] = pub[p]["sampler"]
        /\ \A q \in Pids : q # p => pub'[q] = pub[q]
    BY <1>3, <1>4, SettingMain
  <1> QED
    BY <1>1, <1>3, <1>4, <1>5, <1>6 DEF Alone

LEMMA Joining ==
  ASSUME PubOK, InterpOK, NEW p \in Pids, JoinSampler(p)
  PROVE  /\ Alone(p) /\ UNCHANGED Elsewhere
         /\ pub[p]["main"].pc = "join"
         /\ Keeps(p) /\ interp'[p].heard = interp[p].heard
         /\ pub'[p]["main"].pc = "send" /\ pub'[p]["main"].doc \in Reports
         /\ pub'[p]["main"].doc.kind = "final"
         /\ pub'[p]["main"].doc.at = MaxCheckpoints + 1
         /\ ~pub'[p]["main"].doc.fallback
         /\ pub'[p]["main"].doc.clean => pub[p]["sampler"].pc = "idle"
         /\ pub'[p]["sampler"] = pub[p]["sampler"]
  <1> DEFINE new == [interp[p] EXCEPT !.errors = 1]
             final(clean) == Report("final", MaxCheckpoints + 1, clean)
  <1>1. /\ pub[p]["main"].pc = "join" /\ UNCHANGED Elsewhere
        /\ \/ /\ pub[p]["sampler"].pc = "idle" /\ PublishFinal(p, interp[p].errors = 0)
              /\ UNCHANGED interp
           \/ PublishFinal(p, FALSE) /\ interp' = [interp EXCEPT ![p] = new]
    BY DEF JoinSampler, Elsewhere
  <1>2. /\ new \in InterpState /\ new.life = interp[p].life /\ new.stop = interp[p].stop
        /\ new.done = interp[p].done /\ new.heard = interp[p].heard
    BY DEF InterpOK, InterpState
  <1> HIDE DEF new
  <1>3. /\ Keeps(p) /\ interp'[p].heard = interp[p].heard /\ InterpOK'
        /\ \A q \in Pids : q # p => interp'[q] = interp[q]
    <2>1. CASE UNCHANGED interp
      BY <2>1 DEF Keeps, InterpOK
    <2>2. CASE interp' = [interp EXCEPT ![p] = new]
      <3>1. InterpOK' /\ interp'[p] = new /\ \A q \in Pids : q # p => interp'[q] = interp[q]
        BY <1>2, <2>2, Renewing
      <3> QED
        BY <1>2, <3>1 DEF Keeps
    <2> QED
      BY <1>1, <2>1, <2>2
  <1>4. PICK clean \in BOOLEAN :
          PublishFinal(p, clean) /\ (clean => pub[p]["sampler"].pc = "idle")
    <2>1. FALSE \in BOOLEAN /\ (interp[p].errors = 0) \in BOOLEAN
      OBVIOUS
    <2> QED
      BY <1>1, <2>1
  <1>5. /\ final(clean) \in Reports /\ final(clean).kind = "final"
        /\ final(clean).at = MaxCheckpoints + 1 /\ final(clean).clean = clean
        /\ ~final(clean).fallback
    <2>1. "final" \in Kinds /\ MaxCheckpoints + 1 \in 0..MaxCheckpoints + 1
      BY TransportAssumption DEF Kinds
    <2> QED
      BY <2>1, ReportTyped
  <1>6. pub' = [pub EXCEPT ![p]["main"] = [pc |-> "send", doc |-> final(clean)]]
    BY <1>4 DEF PublishFinal
  <1> HIDE DEF final
  <1>7. /\ PubOK' /\ \A q \in Pids : q # p => pub'[q] = pub[q]
        /\ pub'[p]["main"].pc = "send" /\ pub'[p]["main"].doc = final(clean)
        /\ pub'[p]["sampler"] = pub[p]["sampler"]
    <2> DEFINE one == [pc |-> "send", doc |-> final(clean)]
    <2>1. one \in PubState /\ one.pc = "send" /\ one.doc = final(clean)
      BY <1>5, Sending
    <2>2. pub' = [pub EXCEPT ![p]["main"] = one]
      BY <1>6
    <2> HIDE DEF one
    <2> QED
      BY <2>1, <2>2, SettingMain
  <1> QED
    BY <1>1, <1>3, <1>4, <1>5, <1>7 DEF Alone

LEMMA Ending ==
  ASSUME PubOK, InterpOK, NEW p \in Pids, Exit(p) \/ Killed(p)
  PROVE  /\ Alone(p) /\ UNCHANGED Elsewhere
         /\ interp'[p].life \in {"down", "dead"} /\ interp'[p].heard = interp[p].heard
         /\ pub'[p]["main"].pc = "off" /\ pub'[p]["sampler"].pc = "off"
  <1>1. PICK life \in {"down", "dead"} :
          /\ interp' = [interp EXCEPT ![p] = Remains(p, life)]
          /\ pub' = [pub EXCEPT ![p] = [t \in Threads |-> Gone]]
          /\ UNCHANGED Elsewhere
    BY DEF Exit, Killed, Elsewhere
  <1>2. /\ Remains(p, life) \in InterpState /\ Remains(p, life).life = life
        /\ Remains(p, life).heard = interp[p].heard
    <2>1. interp[p].heard \in BOOLEAN /\ 0 \in 0..MaxCheckpoints /\ 0 \in 0..1
      BY TransportAssumption DEF InterpOK, InterpState
    <2> QED
      BY <2>1 DEF Remains, Unborn, InterpState
  <1>3. Gone \in PubState /\ Gone.pc = "off"
    BY IdleTyped DEF Gone, Pcs
  <1> HIDE DEF Remains, Gone
  <1>4. /\ InterpOK' /\ interp'[p] = Remains(p, life)
        /\ \A q \in Pids : q # p => interp'[q] = interp[q]
    BY <1>1, <1>2, Renewing
  <1>5. /\ PubOK' /\ \A q \in Pids : q # p => pub'[q] = pub[q]
        /\ \A u \in Threads : pub'[p][u] = Gone
    BY <1>1, <1>3, SettingBoth
  <1> QED
    BY <1>1, <1>2, <1>3, <1>4, <1>5 DEF Alone, Threads

\* A publication that has been answered.
Answers(p, t, ok) ==
  /\ Alone(p) /\ Keeps(p)
  /\ interp'[p].heard = (interp[p].heard \/ (ok /\ ~Stopping))
  /\ pub[p][t].doc.kind = "final" =>
       /\ pub'[p][t].pc = "exit"
       /\ t = "main" => pub'[p]["sampler"] = pub[p]["sampler"]
  /\ pub[p][t].doc.kind = "registration" =>
       pub'[p]["main"].pc = "idle" /\ pub'[p]["sampler"].pc = "idle"
  /\ pub[p][t].doc.kind = "checkpoint" =>
       /\ pub'[p][t].pc = "idle"
       /\ t = "sampler" => pub'[p]["main"] = pub[p]["main"]

LEMMA Answering ==
  ASSUME PubOK, InterpOK, NEW p \in Pids, NEW t \in Threads, NEW ok \in BOOLEAN,
         Published(p, t, ok)
  PROVE  Answers(p, t, ok)
  <1> DEFINE heard == interp[p].heard \/ (ok /\ ~Stopping)
             errors == IF ok THEN interp[p].errors ELSE 1
             new == [interp[p] EXCEPT !.errors = errors, !.heard = heard]
             to(pc) == [pc |-> pc, doc |-> NoReport]
             kind == pub[p][t].doc.kind
  <1>1. interp[p] \in InterpState /\ errors \in 0..1 /\ heard \in BOOLEAN
    BY DEF InterpOK, InterpState
  <1>2. interp' = [interp EXCEPT ![p] = new]
    BY DEF Published
  <1>3. /\ kind = "final" => pub' = [pub EXCEPT ![p][t] = to("exit")]
        /\ kind = "registration" => pub' = [pub EXCEPT ![p] = [u \in Threads |-> to("idle")]]
        /\ kind = "checkpoint" => pub' = [pub EXCEPT ![p][t] = to("idle")]
        /\ \/ pub' = [pub EXCEPT ![p][t] = to("exit")]
           \/ pub' = [pub EXCEPT ![p] = [u \in Threads |-> to("idle")]]
           \/ pub' = [pub EXCEPT ![p][t] = to("idle")]
    BY DEF Published
  <1> HIDE DEF heard, errors
  <1>4. /\ new \in InterpState /\ new.life = interp[p].life /\ new.stop = interp[p].stop
        /\ new.done = interp[p].done /\ new.heard = heard
    BY <1>1 DEF InterpState
  <1>5. /\ to("exit") \in PubState /\ to("exit").pc = "exit"
        /\ to("idle") \in PubState /\ to("idle").pc = "idle"
    BY IdleTyped DEF Pcs
  <1> HIDE DEF new, to, kind
  <1>6. InterpOK' /\ interp'[p] = new /\ \A q \in Pids : q # p => interp'[q] = interp[q]
    BY <1>2, <1>4, Renewing
  <1>7. ASSUME NEW pc \in {"exit", "idle"}, pub' = [pub EXCEPT ![p][t] = to(pc)]
        PROVE  /\ PubOK' /\ \A q \in Pids : q # p => pub'[q] = pub[q]
               /\ pub'[p][t] = to(pc)
               /\ t = "main" => pub'[p]["sampler"] = pub[p]["sampler"]
               /\ t = "sampler" => pub'[p]["main"] = pub[p]["main"]
    <2>0. to(pc) \in PubState
      BY <1>5
    <2>1. CASE t = "main"
      <3>1. pub' = [pub EXCEPT ![p]["main"] = to(pc)]
        BY <1>7, <2>1
      <3>2. /\ PubOK' /\ \A q \in Pids : q # p => pub'[q] = pub[q]
            /\ pub'[p]["main"] = to(pc) /\ pub'[p]["sampler"] = pub[p]["sampler"]
        BY <2>0, <3>1, SettingMain
      <3> QED
        BY <2>1, <3>2
    <2>2. CASE t = "sampler"
      <3>1. pub' = [pub EXCEPT ![p]["sampler"] = to(pc)]
        BY <1>7, <2>2
      <3>2. /\ PubOK' /\ \A q \in Pids : q # p => pub'[q] = pub[q]
            /\ pub'[p]["sampler"] = to(pc) /\ pub'[p]["main"] = pub[p]["main"]
        BY <2>0, <3>1, SettingSampler
      <3> QED
        BY <2>2, <3>2
    <2> QED
      BY <2>1, <2>2 DEF Threads
  <1>8. ASSUME pub' = [pub EXCEPT ![p] = [u \in Threads |-> to("idle")]]
        PROVE  /\ PubOK' /\ \A q \in Pids : q # p => pub'[q] = pub[q]
               /\ pub'[p]["main"].pc = "idle" /\ pub'[p]["sampler"].pc = "idle"
    BY <1>5, <1>8, SettingBoth DEF Threads
  <1>9. PubOK' /\ \A q \in Pids : q # p => pub'[q] = pub[q]
    BY <1>3, <1>7, <1>8
  <1>10. Alone(p) /\ Keeps(p) /\ interp'[p].heard = heard
    BY <1>4, <1>6, <1>9 DEF Alone, Keeps
  <1>11. kind = "final" => /\ pub'[p][t].pc = "exit"
                           /\ t = "main" => pub'[p]["sampler"] = pub[p]["sampler"]
    BY <1>3, <1>5, <1>7
  <1>12. kind = "checkpoint" => /\ pub'[p][t].pc = "idle"
                                /\ t = "sampler" => pub'[p]["main"] = pub[p]["main"]
    BY <1>3, <1>5, <1>7
  <1>13. kind = "registration" =>
           pub'[p]["main"].pc = "idle" /\ pub'[p]["sampler"].pc = "idle"
    BY <1>3, <1>8
  <1> QED
    BY <1>10, <1>11, <1>12, <1>13 DEF Answers, heard, kind

\* A thread that goes on with the same report, marked as one that fell back if mark.
Goes(p, t, pc, mark) ==
  /\ PubOK' /\ \A q \in Pids : q # p => pub'[q] = pub[q]
  /\ t = "main" => pub'[p]["sampler"] = pub[p]["sampler"]
  /\ t = "sampler" => pub'[p]["main"] = pub[p]["main"]
  /\ pub'[p][t].pc = pc
  /\ pub'[p][t].doc \in Reports
  /\ pub'[p][t].doc.kind = pub[p][t].doc.kind
  /\ pub'[p][t].doc.at = pub[p][t].doc.at
  /\ pub'[p][t].doc.clean = pub[p][t].doc.clean
  /\ pub'[p][t].doc.fallback = (mark \/ pub[p][t].doc.fallback)

LEMMA Going ==
  ASSUME PubOK, NEW p \in Pids, NEW t \in Threads, NEW one \in PubState, NEW mark \in BOOLEAN,
         one.doc \in Reports, one.doc.kind = pub[p][t].doc.kind,
         one.doc.at = pub[p][t].doc.at, one.doc.clean = pub[p][t].doc.clean,
         one.doc.fallback = (mark \/ pub[p][t].doc.fallback),
         pub' = [pub EXCEPT ![p][t] = one]
  PROVE  Goes(p, t, one.pc, mark)
  <1>1. CASE t = "main"
    <2>1. pub' = [pub EXCEPT ![p]["main"] = one]
      BY <1>1
    <2>2. /\ PubOK' /\ \A q \in Pids : q # p => pub'[q] = pub[q]
          /\ pub'[p]["main"] = one /\ pub'[p]["sampler"] = pub[p]["sampler"]
      BY <2>1, SettingMain
    <2> QED
      BY <1>1, <2>2 DEF Goes
  <1>2. CASE t = "sampler"
    <2>1. pub' = [pub EXCEPT ![p]["sampler"] = one]
      BY <1>2
    <2>2. /\ PubOK' /\ \A q \in Pids : q # p => pub'[q] = pub[q]
          /\ pub'[p]["sampler"] = one /\ pub'[p]["main"] = pub[p]["main"]
      BY <2>1, SettingSampler
    <2> QED
      BY <1>2, <2>2 DEF Goes
  <1> QED
    BY <1>1, <1>2 DEF Threads

LEMMA FallingBack ==
  ASSUME PubOK, NEW p \in Pids, NEW t \in Threads, pub[p][t].doc \in Reports, FallBack(p, t)
  PROVE  Goes(p, t, "open", TRUE)
  <1> DEFINE doc == [pub[p][t].doc EXCEPT !.fallback = TRUE]
             one == [pc |-> "open", doc |-> doc]
  <1>1. pub' = [pub EXCEPT ![p][t] = one]
    BY DEF FallBack
  <1>2. /\ doc \in Reports /\ doc.kind = pub[p][t].doc.kind /\ doc.at = pub[p][t].doc.at
        /\ doc.clean = pub[p][t].doc.clean
        /\ doc.fallback = (TRUE \/ pub[p][t].doc.fallback)
    BY DEF Reports
  <1> HIDE DEF doc
  <1>3. one \in PubState /\ one.pc = "open" /\ one.doc = doc
    BY <1>2 DEF PubState, Pcs
  <1> HIDE DEF one
  <1>4. Goes(p, t, one.pc, TRUE)
    BY <1>1, <1>2, <1>3, Going
  <1> QED
    BY <1>3, <1>4

\* A thread that has created the temporary file.
LEMMA Opening ==
  ASSUME PubOK, NEW p \in Pids, NEW t \in Threads, pub[p][t].doc \in Reports,
         pub' = [pub EXCEPT ![p][t].pc = "replace"]
  PROVE  Goes(p, t, "replace", FALSE)
  <1> DEFINE one == [pub[p][t] EXCEPT !.pc = "replace"]
  <1>1. pub' = [pub EXCEPT ![p][t] = one]
    OBVIOUS
  <1>2. pub[p][t] \in PubState /\ pub[p][t].doc.fallback \in BOOLEAN
    BY DEF PubOK, Reports
  <1>3. one \in PubState /\ one.pc = "replace" /\ one.doc = pub[p][t].doc
    BY <1>2 DEF PubState, Pcs
  <1> HIDE DEF one
  <1>4. one.doc.fallback = (FALSE \/ pub[p][t].doc.fallback)
    BY <1>2, <1>3
  <1>5. Goes(p, t, one.pc, FALSE)
    BY <1>1, <1>3, <1>4, Going
  <1> QED
    BY <1>3, <1>5

-----------------------------------------------------------------------------
(* The two threads of one interpreter.                                     *)

LocalInv(p) == LifeInv(p) /\ ThreadInv(p) /\ NameInv(p)

LEMMA LocalSame ==
  ASSUME NEW p, LocalInv(p), interp'[p] = interp[p], pub'[p] = pub[p], tmp'[p] = tmp[p],
         files'[p] = files[p]
  PROVE  LocalInv(p)'
  BY DEF LocalInv, LifeInv, ThreadInv, MainInv, SamplerInv, DocInv, NameInv

\* Reports that the main thread and the daemon thread of p still publish.
LEMMA KindOf ==
  ASSUME InterpOK, NEW p \in Pids, NEW t \in Threads, LocalInv(p), pub[p][t].pc \in Active
  PROVE  /\ pub[p][t].doc \in Reports
         /\ t = "main" => pub[p][t].doc.kind \in {"registration", "final"}
         /\ t = "sampler" => pub[p][t].doc.kind = "checkpoint"
         /\ interp[p].life \in {"up", "leaving"}
  <1>1. interp[p].life \in {"up", "leaving"}
    <2>1. interp[p].life \in {"unborn", "up", "leaving", "down", "dead"}
      BY DEF InterpOK, InterpState
    <2> QED
      BY <2>1 DEF LocalInv, LifeInv, Active
  <1>2. t = "main" => pub[p][t].doc.kind \in {"registration", "final"}
    BY <1>1 DEF LocalInv, ThreadInv, MainInv, SamplerInv, DocInv
  <1>3. pub[p][t].doc \in Reports /\ (t = "sampler" => pub[p][t].doc.kind = "checkpoint")
    BY DEF LocalInv, ThreadInv, MainInv, SamplerInv, DocInv
  <1> QED
    BY <1>1, <1>2, <1>3

LEMMA StartLocal ==
  ASSUME PubOK, InterpOK, NEW p \in Pids, LocalInv(p), Start(p)
  PROVE  LocalInv(p)'
  <1>1. /\ UNCHANGED <<tmp, files>> /\ interp[p].life = "unborn" /\ interp'[p].life = "up"
        /\ interp'[p].stop = interp[p].stop /\ interp'[p].done = interp[p].done
        /\ pub'[p]["main"].pc = "send" /\ pub'[p]["main"].doc \in Reports
        /\ pub'[p]["main"].doc.kind = "registration" /\ pub'[p]["main"].doc.at = 0
        /\ ~pub'[p]["main"].doc.fallback /\ pub'[p]["sampler"] = pub[p]["sampler"]
    BY Starting DEF Elsewhere
  <1>2. pub[p]["sampler"].pc = "off" /\ ~interp[p].stop /\ files[p] # Torn
    BY <1>1 DEF LocalInv, LifeInv, NameInv, Threads
  <1> QED
    BY <1>1, <1>2
    DEF LocalInv, LifeInv, ThreadInv, MainInv, SamplerInv, DocInv, NameInv, Threads, Active

LEMMA CheckpointLocal ==
  ASSUME PubOK, InterpOK, NEW p \in Pids, LocalInv(p), Checkpoint(p)
  PROVE  LocalInv(p)'
  <1>1. /\ UNCHANGED <<tmp, files>> /\ pub[p]["sampler"].pc = "idle" /\ ~interp[p].stop
        /\ interp'[p].life = interp[p].life /\ interp'[p].stop = interp[p].stop
        /\ interp'[p].done = interp[p].done + 1
        /\ pub'[p]["sampler"].pc = "send" /\ pub'[p]["sampler"].doc \in Reports
        /\ pub'[p]["sampler"].doc.kind = "checkpoint"
        /\ pub'[p]["sampler"].doc.at = interp[p].done + 1
        /\ ~pub'[p]["sampler"].doc.fallback /\ pub'[p]["main"] = pub[p]["main"]
    BY Checkpointing DEF Elsewhere
  <1>2. interp[p].life = "up" /\ pub[p]["main"].pc = "idle" /\ files[p] # Torn
    <2>1. interp[p].life \in {"unborn", "up", "leaving", "down", "dead"}
      BY DEF InterpOK, InterpState
    <2>2. interp[p].life = "up"
      BY <1>1, <2>1 DEF LocalInv, LifeInv, Threads
    <2>3. pub[p]["main"].pc = "idle"
      BY <1>1, <2>2 DEF LocalInv, LifeInv, ThreadInv, MainInv, SamplerInv, DocInv
    <2> QED
      BY <2>2, <2>3 DEF LocalInv, NameInv
  <1> QED
    BY <1>1, <1>2
    DEF LocalInv, LifeInv, ThreadInv, MainInv, SamplerInv, DocInv, NameInv, Threads, Active

LEMMA LeaveLocal ==
  ASSUME PubOK, InterpOK, NEW p \in Pids, LocalInv(p), Leave(p)
  PROVE  LocalInv(p)'
  <1>1. /\ UNCHANGED <<tmp, files>> /\ pub[p]["main"].pc = "idle"
        /\ interp'[p].life = "leaving" /\ interp'[p].stop /\ interp'[p].done = interp[p].done
        /\ pub'[p]["main"].pc = "join" /\ pub'[p]["sampler"] = pub[p]["sampler"]
    BY Leaving DEF Elsewhere
  <1> QED
    BY <1>1
    DEF LocalInv, LifeInv, ThreadInv, MainInv, SamplerInv, DocInv, NameInv, Threads, Active

LEMMA JoinLocal ==
  ASSUME PubOK, InterpOK, NEW p \in Pids, LocalInv(p), JoinSampler(p)
  PROVE  LocalInv(p)'
  <1>1. /\ UNCHANGED <<tmp, files>> /\ pub[p]["main"].pc = "join" /\ Keeps(p)
        /\ pub'[p]["main"].pc = "send" /\ pub'[p]["main"].doc \in Reports
        /\ pub'[p]["main"].doc.kind = "final"
        /\ pub'[p]["main"].doc.at = MaxCheckpoints + 1
        /\ ~pub'[p]["main"].doc.fallback
        /\ pub'[p]["main"].doc.clean => pub[p]["sampler"].pc = "idle"
        /\ pub'[p]["sampler"] = pub[p]["sampler"]
    BY Joining DEF Elsewhere
  <1>2. interp[p].life = "leaving"
    <2>1. interp[p].life \in {"unborn", "up", "leaving", "down", "dead"}
      BY DEF InterpOK, InterpState
    <2> QED
      BY <1>1, <2>1 DEF LocalInv, LifeInv, Threads, Active
  <1> QED
    BY <1>1, <1>2
    DEF LocalInv, LifeInv, ThreadInv, MainInv, SamplerInv, DocInv, NameInv, Threads, Active,
        Keeps

LEMMA EndLocal ==
  ASSUME PubOK, InterpOK, NEW p \in Pids, LocalInv(p), Exit(p) \/ Killed(p)
  PROVE  LocalInv(p)'
  <1>1. /\ UNCHANGED <<tmp, files>> /\ interp'[p].life \in {"down", "dead"}
        /\ pub'[p]["main"].pc = "off" /\ pub'[p]["sampler"].pc = "off"
    BY Ending DEF Elsewhere
  <1> QED
    BY <1>1
    DEF LocalInv, LifeInv, ThreadInv, MainInv, SamplerInv, DocInv, NameInv, Threads, Active

\* The answer to a publication by t, with the temporary file gone or still another's.
LEMMA AnswerLocal ==
  ASSUME PubOK, InterpOK, NEW p \in Pids, NEW t \in Threads, NEW ok, LocalInv(p),
         pub[p][t].pc \in Active, Answers(p, t, ok), files'[p] # Torn,
         \/ tmp'[p] = tmp[p] /\ pub[p][t].pc = "send"
         \/ tmp'[p] = "none"
  PROVE  LocalInv(p)'
  <1>0. Keeps(p) /\ files[p] # Torn
    BY DEF Answers, LocalInv, NameInv
  <1>1. CASE t = "main" /\ pub[p][t].doc.kind = "final"
    <2>1. pub'[p]["main"].pc = "exit" /\ pub'[p]["sampler"] = pub[p]["sampler"]
      BY <1>1 DEF Answers
    <2>2. LifeInv(p)' /\ ThreadInv(p)'
      BY <1>0, <1>1, <2>1
      DEF LocalInv, LifeInv, ThreadInv, MainInv, SamplerInv, DocInv, Threads, Active, Keeps
    <2>3. NameInv(p)'
      BY <1>1, <2>1 DEF LocalInv, NameInv
    <2> QED
      BY <2>2, <2>3 DEF LocalInv
  <1>2. CASE t = "main" /\ pub[p][t].doc.kind = "registration"
    <2>1. pub'[p]["main"].pc = "idle" /\ pub'[p]["sampler"].pc = "idle"
      BY <1>2 DEF Answers
    <2> QED
      BY <1>0, <1>2, <2>1
      DEF LocalInv, LifeInv, ThreadInv, MainInv, SamplerInv, DocInv, NameInv, Threads, Active,
          Keeps
  <1>3. CASE t = "sampler"
    <2>1. pub'[p]["sampler"].pc = "idle" /\ pub'[p]["main"] = pub[p]["main"]
      BY <1>3, KindOf DEF Answers
    <2>2. LifeInv(p)' /\ ThreadInv(p)'
      BY <1>0, <1>3, <2>1
      DEF LocalInv, LifeInv, ThreadInv, MainInv, SamplerInv, DocInv, Threads, Active, Keeps
    <2>3. NameInv(p)'
      BY <1>3, <2>1 DEF LocalInv, NameInv
    <2> QED
      BY <2>2, <2>3 DEF LocalInv
  <1> QED
    BY <1>1, <1>2, <1>3, KindOf DEF Threads

LEMMA FallBackLocal ==
  ASSUME PubOK, InterpOK, NEW p \in Pids, NEW t \in Threads, LocalInv(p),
         pub[p][t].pc = "send", FallBack(p, t), UNCHANGED <<interp, tmp, files>>
  PROVE  LocalInv(p)'
  <1>1. pub[p][t].doc \in Reports
    BY KindOf DEF Active
  <1>2. /\ t = "main" => pub'[p]["sampler"] = pub[p]["sampler"]
        /\ t = "sampler" => pub'[p]["main"] = pub[p]["main"]
        /\ pub'[p][t].pc = "open" /\ pub'[p][t].doc \in Reports /\ pub'[p][t].doc.fallback
        /\ pub'[p][t].doc.kind = pub[p][t].doc.kind /\ pub'[p][t].doc.at = pub[p][t].doc.at
        /\ pub'[p][t].doc.clean = pub[p][t].doc.clean
    BY <1>1, FallingBack DEF Goes
  <1>3. CASE t = "main"
    <2>1. LifeInv(p)'
      BY <1>2, <1>3 DEF LocalInv, LifeInv, Threads, Active
    <2>2. ThreadInv(p)'
      BY <1>2, <1>3 DEF LocalInv, ThreadInv, MainInv, SamplerInv, DocInv, Threads, Active
    <2>3. NameInv(p)'
      BY <1>2, <1>3 DEF LocalInv, NameInv
    <2> QED
      BY <2>1, <2>2, <2>3 DEF LocalInv
  <1>4. CASE t = "sampler"
    <2>1. LifeInv(p)'
      BY <1>2, <1>4 DEF LocalInv, LifeInv, Threads, Active
    <2>2. ThreadInv(p)'
      BY <1>2, <1>4 DEF LocalInv, ThreadInv, MainInv, SamplerInv, DocInv, Threads, Active
    <2>3. NameInv(p)'
      BY <1>2, <1>4 DEF LocalInv, NameInv
    <2> QED
      BY <2>1, <2>2, <2>3 DEF LocalInv
  <1> QED
    BY <1>3, <1>4 DEF Threads

LEMMA OpenLocal ==
  ASSUME PubOK, InterpOK, TypeOK, NEW p \in Pids, NEW t \in Threads, LocalInv(p),
         OpenTemporary(p, t)
  PROVE  LocalInv(p)'
  <1>0. pub[p][t].pc = "open" /\ pub[p][t].doc \in Reports /\ UNCHANGED files
    BY KindOf DEF OpenTemporary, Active
  <1>1. CASE /\ tmp[p] = "none" /\ tmp' = [tmp EXCEPT ![p] = t] /\ UNCHANGED interp
             /\ pub' = [pub EXCEPT ![p][t].pc = "replace"]
    <2>1. /\ t = "main" => pub'[p]["sampler"] = pub[p]["sampler"]
          /\ t = "sampler" => pub'[p]["main"] = pub[p]["main"]
          /\ pub'[p][t].pc = "replace" /\ pub'[p][t].doc \in Reports
          /\ pub'[p][t].doc.kind = pub[p][t].doc.kind /\ pub'[p][t].doc.at = pub[p][t].doc.at
          /\ pub'[p][t].doc.clean = pub[p][t].doc.clean
          /\ pub'[p][t].doc.fallback = (FALSE \/ pub[p][t].doc.fallback)
      BY <1>0, <1>1, Opening DEF Goes
    <2>2. tmp'[p] = t /\ pub[p][t].doc.fallback /\ files[p] # Torn
      BY <1>0, <1>1 DEF TypeOK, LocalInv, ThreadInv, MainInv, SamplerInv, DocInv, NameInv
    <2>3. CASE t = "main"
      <3>1. pub[p]["sampler"].pc # "replace"
        BY <1>0, <1>1, <2>3 DEF LocalInv, NameInv
      <3>2. LifeInv(p)'
        BY <1>0, <1>1, <2>1, <2>3 DEF LocalInv, LifeInv, Threads, Active
      <3>3. ThreadInv(p)'
        <4>1. /\ pub[p]["main"].pc = "open" /\ pub[p]["main"].doc.fallback
              /\ pub'[p]["sampler"] = pub[p]["sampler"] /\ pub'[p]["main"].pc = "replace"
              /\ pub'[p]["main"].doc \in Reports /\ pub'[p]["main"].doc.fallback
              /\ pub'[p]["main"].doc.kind = pub[p]["main"].doc.kind
              /\ pub'[p]["main"].doc.at = pub[p]["main"].doc.at
              /\ pub'[p]["main"].doc.clean = pub[p]["main"].doc.clean
          BY <1>0, <2>1, <2>2, <2>3
        <4>2. MainInv(p)' /\ SamplerInv(p)'
          BY <1>1, <4>1 DEF LocalInv, ThreadInv, MainInv, SamplerInv, Active
        <4>3. DocInv(p)'
          BY <4>1 DEF LocalInv, ThreadInv, DocInv, Threads, Active
        <4> QED
          BY <4>2, <4>3 DEF ThreadInv
      <3>4. NameInv(p)'
        BY <1>0, <2>1, <2>2, <2>3, <3>1 DEF LocalInv, NameInv
      <3> QED
        BY <3>2, <3>3, <3>4 DEF LocalInv
    <2>4. CASE t = "sampler"
      <3>1. pub[p]["main"].pc # "replace"
        BY <1>0, <1>1, <2>4 DEF LocalInv, NameInv
      <3>2. LifeInv(p)'
        BY <1>0, <1>1, <2>1, <2>4 DEF LocalInv, LifeInv, Threads, Active
      <3>3. ThreadInv(p)'
        <4>1. /\ pub[p]["sampler"].pc = "open" /\ pub[p]["sampler"].doc.fallback
              /\ pub'[p]["main"] = pub[p]["main"] /\ pub'[p]["sampler"].pc = "replace"
              /\ pub'[p]["sampler"].doc \in Reports /\ pub'[p]["sampler"].doc.fallback
              /\ pub'[p]["sampler"].doc.kind = pub[p]["sampler"].doc.kind
              /\ pub'[p]["sampler"].doc.at = pub[p]["sampler"].doc.at
              /\ pub'[p]["sampler"].doc.clean = pub[p]["sampler"].doc.clean
          BY <1>0, <2>1, <2>2, <2>4
        <4>2. MainInv(p)' /\ SamplerInv(p)'
          BY <1>1, <4>1 DEF LocalInv, ThreadInv, MainInv, SamplerInv, Active
        <4>3. DocInv(p)'
          BY <4>1 DEF LocalInv, ThreadInv, DocInv, Threads, Active
        <4> QED
          BY <4>2, <4>3 DEF ThreadInv
      <3>4. NameInv(p)'
        BY <1>0, <2>1, <2>2, <2>4, <3>1 DEF LocalInv, NameInv
      <3> QED
        BY <3>2, <3>3, <3>4 DEF LocalInv
    <2> QED
      BY <2>3, <2>4 DEF Threads
  <1>2. CASE tmp' = [tmp EXCEPT ![p] = "none"] /\ Published(p, t, FALSE)
    <2>1. Answers(p, t, FALSE) /\ tmp'[p] = "none" /\ files'[p] # Torn
      BY <1>0, <1>2, Answering DEF TypeOK, LocalInv, NameInv
    <2> QED
      BY <1>0, <2>1, AnswerLocal DEF Active
  <1> QED
    BY <1>1, <1>2 DEF OpenTemporary

LEMMA ReplaceLocal ==
  ASSUME PubOK, InterpOK, TypeOK, NEW p \in Pids, NEW t \in Threads, LocalInv(p),
         ReplaceFile(p, t)
  PROVE  LocalInv(p)' /\ files'[p] \in Reports \cup {files[p]}
  <1>0. pub[p][t].pc = "replace" /\ pub[p][t].doc \in Reports /\ Torn \notin Reports
    BY KindOf DEF ReplaceFile, Active, Reports, Torn, Report, Kinds
  <1>1. tmp[p] = t \/ tmp[p] = "none"
    BY <1>0 DEF LocalInv, NameInv, Threads
  <1>2. files'[p] = IF tmp[p] = "none" THEN files[p] ELSE pub[p][t].doc
    BY <1>1 DEF ReplaceFile, TypeOK, Threads
  <1>3. Answers(p, t, tmp[p] # "none") /\ tmp'[p] = "none"
    BY Answering DEF ReplaceFile, TypeOK
  <1>4. files'[p] # Torn
    BY <1>0, <1>2 DEF LocalInv, NameInv
  <1> QED
    BY <1>0, <1>2, <1>3, <1>4, AnswerLocal DEF Active

-----------------------------------------------------------------------------
(* What a step does to the interpreters: it is one of them, or none.       *)

\* Only p is affected, in its threads and its files.
Only(p) ==
  /\ Alone(p)
  /\ \A q \in Pids : q # p => tmp'[q] = tmp[q] /\ files'[q] = files[q]

LEMMA OnlyLocal ==
  ASSUME NEW p \in Pids, Only(p), LocalInv(p)', \A q \in Pids : LocalInv(q)
  PROVE  \A q \in Pids : LocalInv(q)'
  <1>1. ASSUME NEW q \in Pids, q # p
        PROVE  LocalInv(q)'
    BY <1>1, LocalSame DEF Only, Alone
  <1> QED
    BY <1>1

LEMMA TypesOfAll ==
  ASSUME TypeOK
  PROVE  PubOK /\ InterpOK
  BY DEF TypeOK, PubOK, InterpOK, PubState, InterpState, Pcs

\* A thread of p whose report is accepted by the socket.
LEMMA Sent ==
  ASSUME TypeOK, NEW p \in Pids, NEW t \in Threads, LocalInv(p), SendSucceeds(p, t)
  PROVE  /\ pub[p][t].pc = "send" /\ listener = "open" /\ Len(queue) < Backlog
         /\ Answers(p, t, TRUE)
         /\ Message(p, t, TRUE) \in Messages /\ Message(p, t, TRUE).pid = p
         /\ Message(p, t, TRUE).doc = pub[p][t].doc /\ Message(p, t, TRUE).whole
         /\ queue' = Append(queue, Message(p, t, TRUE))
         /\ UNCHANGED <<tmp, files, listener, collector, control, limit, faults>>
         /\ LocalInv(p)' /\ Only(p)
  <1>1. /\ pub[p][t].pc = "send" /\ listener = "open" /\ Len(queue) < Backlog
        /\ queue' = Append(queue, Message(p, t, TRUE)) /\ Published(p, t, TRUE)
        /\ UNCHANGED <<tmp, files, listener, collector, control, limit, faults>>
    BY DEF SendSucceeds
  <1>2. PubOK /\ InterpOK
    BY TypesOfAll
  <1>3. pub[p][t].doc \in Reports
    BY <1>1, <1>2, KindOf DEF Active
  <1>4. Answers(p, t, TRUE)
    BY <1>1, <1>2, Answering
  <1>5. /\ Message(p, t, TRUE) \in Messages /\ Message(p, t, TRUE).pid = p
        /\ Message(p, t, TRUE).doc = pub[p][t].doc /\ Message(p, t, TRUE).whole
    BY <1>3 DEF Message, Messages
  <1>6. LocalInv(p)'
    <2>1. files'[p] # Torn /\ tmp'[p] = tmp[p] /\ pub[p][t].pc \in Active
      BY <1>1 DEF LocalInv, NameInv, Active
    <2> QED
      BY <1>1, <1>2, <1>4, <2>1, AnswerLocal
  <1>7. Only(p)
    BY <1>1, <1>4 DEF Only, Answers
  <1> QED
    BY <1>1, <1>4, <1>5, <1>6, <1>7

\* A thread of p whose report the socket does not take.
LEMMA Refused ==
  ASSUME TypeOK, NEW p \in Pids, NEW t \in Threads, LocalInv(p),
         SendStalls(p, t) \/ SendRefused(p, t)
  PROVE  /\ pub[p][t].pc = "send"
         /\ Goes(p, t, "open", TRUE)
         /\ UNCHANGED <<interp, tmp, files, listener, collector, control, limit>>
         /\ faults' \in 0..MaxFaults
         /\ \/ UNCHANGED queue
            \/ /\ Message(p, t, FALSE) \in Messages /\ Message(p, t, FALSE).pid = p
               /\ Message(p, t, FALSE).doc = pub[p][t].doc
               /\ Len(queue) < Backlog /\ queue' = Append(queue, Message(p, t, FALSE))
         /\ LocalInv(p)' /\ Only(p)
  <1>1. /\ pub[p][t].pc = "send" /\ FallBack(p, t)
        /\ UNCHANGED <<interp, tmp, files, listener, collector, control, limit>>
        /\ \/ UNCHANGED queue
           \/ Len(queue) < Backlog /\ queue' = Append(queue, Message(p, t, FALSE))
    BY DEF SendStalls, SendRefused
  <1>2. PubOK /\ InterpOK
    BY TypesOfAll
  <1>3. pub[p][t].doc \in Reports
    BY <1>1, <1>2, KindOf DEF Active
  <1>4. Goes(p, t, "open", TRUE)
    BY <1>1, <1>2, <1>3, FallingBack
  <1>5. /\ Message(p, t, FALSE) \in Messages /\ Message(p, t, FALSE).pid = p
        /\ Message(p, t, FALSE).doc = pub[p][t].doc
    BY <1>3 DEF Message, Messages
  <1>6. LocalInv(p)'
    BY <1>1, <1>2, FallBackLocal
  <1>7. Only(p)
    BY <1>1, <1>2, <1>4 DEF Only, Alone, Goes, InterpOK
  <1>8. faults' \in 0..MaxFaults
    <2>1. faults \in 0..MaxFaults /\ MaxFaults \in Nat
      BY TransportAssumption DEF TypeOK
    <2>2. faults' = faults \/ (faults < MaxFaults /\ faults' = faults + 1)
      BY DEF SendStalls, SendRefused, Fault
    <2> QED
      BY <2>1, <2>2
  <1> QED
    BY <1>1, <1>4, <1>5, <1>6, <1>7, <1>8

\* A thread of p that tries to create the temporary file.
LEMMA Opened ==
  ASSUME TypeOK, NEW p \in Pids, NEW t \in Threads, LocalInv(p), OpenTemporary(p, t)
  PROVE  /\ pub[p][t].pc = "open"
         /\ \/ Goes(p, t, "replace", FALSE) /\ UNCHANGED interp
            \/ Answers(p, t, FALSE)
         /\ tmp' \in [Pids -> Threads \cup {"none"}] /\ faults' \in 0..MaxFaults
         /\ UNCHANGED <<files, queue, listener, collector, control, limit>>
         /\ LocalInv(p)' /\ Only(p)
  <1>1. PubOK /\ InterpOK
    BY TypesOfAll
  <1>2. /\ pub[p][t].pc = "open"
        /\ UNCHANGED <<files, queue, listener, collector, control, limit>>
    BY DEF OpenTemporary
  <1>3. pub[p][t].doc \in Reports
    BY <1>1, <1>2, KindOf DEF Active
  <1>4. \/ Goes(p, t, "replace", FALSE) /\ UNCHANGED interp
        \/ Answers(p, t, FALSE)
    BY <1>1, <1>3, Opening, Answering DEF OpenTemporary
  <1>5. LocalInv(p)'
    BY <1>1, OpenLocal
  <1>6. Alone(p)
    BY <1>1, <1>4 DEF Alone, Goes, Answers, InterpOK
  <1>7. tmp' \in [Pids -> Threads \cup {"none"}] /\ \A q \in Pids : q # p => tmp'[q] = tmp[q]
    <2>1. tmp' = [tmp EXCEPT ![p] = t] \/ tmp' = [tmp EXCEPT ![p] = "none"]
      BY DEF OpenTemporary
    <2>2. tmp \in [Pids -> Threads \cup {"none"}]
      BY DEF TypeOK
    <2> QED
      BY <2>1, <2>2
  <1>8. faults' \in 0..MaxFaults
    <2>1. faults \in 0..MaxFaults /\ MaxFaults \in Nat
      BY TransportAssumption DEF TypeOK
    <2>2. faults' = faults \/ (faults < MaxFaults /\ faults' = faults + 1)
      BY DEF OpenTemporary
    <2> QED
      BY <2>1, <2>2
  <1> QED
    BY <1>2, <1>4, <1>5, <1>6, <1>7, <1>8 DEF Only

\* A thread of p that replaces the file.
LEMMA Replaced ==
  ASSUME TypeOK, NEW p \in Pids, NEW t \in Threads, LocalInv(p), ReplaceFile(p, t)
  PROVE  /\ pub[p][t].pc = "replace"
         /\ Answers(p, t, tmp[p] # "none")
         /\ tmp' \in [Pids -> Threads \cup {"none"}]
         /\ files' \in [Pids -> Reports \cup {NoReport, Torn}]
         /\ files'[p] = files[p] \/ (files'[p] \in Reports /\ files'[p].fallback)
         /\ tmp[p] # "none" => files'[p] \in Reports
         /\ UNCHANGED <<queue, listener, collector, control, limit, faults>>
         /\ LocalInv(p)' /\ Only(p)
  <1>1. PubOK /\ InterpOK
    BY TypesOfAll
  <1>2. /\ pub[p][t].pc = "replace"
        /\ tmp' = [tmp EXCEPT ![p] = "none"] /\ Published(p, t, tmp[p] # "none")
        /\ files' = IF tmp[p] = "none" THEN files
                    ELSE [files EXCEPT ![p] = IF tmp[p] = t THEN pub[p][t].doc ELSE Torn]
        /\ UNCHANGED <<queue, listener, collector, control, limit, faults>>
    BY DEF ReplaceFile
  <1>3. pub[p][t].doc \in Reports /\ pub[p][t].doc.fallback
    BY <1>1, <1>2, KindOf DEF Active, LocalInv, ThreadInv, DocInv
  <1>4. Answers(p, t, tmp[p] # "none")
    BY <1>1, <1>2, Answering
  <1>5. tmp[p] = t \/ tmp[p] = "none"
    BY <1>2 DEF LocalInv, NameInv, Threads
  <1>6. /\ files' \in [Pids -> Reports \cup {NoReport, Torn}]
        /\ files'[p] = IF tmp[p] = "none" THEN files[p] ELSE pub[p][t].doc
        /\ \A q \in Pids : q # p => files'[q] = files[q]
    BY <1>2, <1>3, <1>5 DEF TypeOK
  <1>7. /\ tmp' \in [Pids -> Threads \cup {"none"}]
        /\ \A q \in Pids : q # p => tmp'[q] = tmp[q]
    BY <1>2 DEF TypeOK
  <1>8. LocalInv(p)'
    BY <1>1, ReplaceLocal
  <1>9. Only(p)
    BY <1>4, <1>6, <1>7 DEF Only, Answers
  <1> QED
    BY <1>2, <1>3, <1>4, <1>6, <1>7, <1>8, <1>9

\* A step of the interpreter p itself.
Inside(p) ==
  Start(p) \/ Checkpoint(p) \/ Leave(p) \/ JoinSampler(p) \/ Exit(p) \/ Killed(p)

LEMMA Insides ==
  ASSUME TypeOK, NEW p \in Pids, LocalInv(p), Inside(p)
  PROVE  /\ Only(p) /\ UNCHANGED Elsewhere /\ LocalInv(p)'
         /\ interp'[p].heard = interp[p].heard
  <1>0. PubOK /\ InterpOK
    BY TypesOfAll
  <1>1. CASE Start(p)
    BY <1>0, <1>1, Starting, StartLocal DEF Only, Elsewhere
  <1>2. CASE Checkpoint(p)
    BY <1>0, <1>2, Checkpointing, CheckpointLocal DEF Only, Elsewhere
  <1>3. CASE Leave(p)
    BY <1>0, <1>3, Leaving, LeaveLocal DEF Only, Elsewhere
  <1>4. CASE JoinSampler(p)
    BY <1>0, <1>4, Joining, JoinLocal DEF Only, Elsewhere
  <1>5. CASE Exit(p) \/ Killed(p)
    BY <1>0, <1>5, Ending, EndLocal DEF Only, Elsewhere
  <1> QED
    BY <1>1, <1>2, <1>3, <1>4, <1>5 DEF Inside

LEMMA Steps ==
  ASSUME [Next]_vars
  PROVE  \/ \E p \in Pids : Inside(p)
         \/ \E p \in Pids, t \in Threads : SendSucceeds(p, t)
         \/ \E p \in Pids, t \in Threads : SendStalls(p, t) \/ SendRefused(p, t)
         \/ \E p \in Pids, t \in Threads : OpenTemporary(p, t)
         \/ \E p \in Pids, t \in Threads : ReplaceFile(p, t)
         \/ CollectorStep /\ UNCHANGED <<interp, pub, tmp>>
         \/ ControlStep /\ UNCHANGED <<interp, pub, tmp, files>>
         \/ UNCHANGED vars
  <1>1. CASE Next
    <2>1. CASE CollectorStep
      BY <2>1 DEF CollectorStep, LimitReached, AcceptEnds, Receive, Store
    <2>2. CASE ControlStep
      BY <2>2 DEF ControlStep, StopCollection, JoinCollector, CloseListener, RejoinCollector,
                  LoadProfile
    <2>3. ASSUME NEW p \in Pids, NEW t \in Threads, PublishStep(p, t)
          PROVE  \/ SendSucceeds(p, t) \/ SendRefused(p, t)
                 \/ OpenTemporary(p, t) \/ ReplaceFile(p, t)
      BY <2>3 DEF PublishStep
    <2> QED
      BY <1>1, <2>1, <2>2, <2>3 DEF Next, Inside
  <1> QED
    BY <1>1

LEMMA BackTyped ==
  ASSUME NEW c \in CollectorState, NEW d, d = [c EXCEPT !.pc = "top", !.msg = <<>>]
  PROVE  /\ d \in CollectorState /\ d.pc = "top" /\ d.accepted = c.accepted
         /\ d.dropped = c.dropped /\ d.messages = c.messages /\ d.errors = c.errors
  <1>1. <<>> \in Seq(Messages)
    OBVIOUS
  <1> DEFINE none == <<>>
  <1>2. d = [c EXCEPT !.pc = "top", !.msg = none] /\ none \in Seq(Messages)
    BY <1>1
  <1> HIDE DEF none
  <1> QED
    BY <1>2 DEF CollectorState

LEMMA ErrorTyped ==
  ASSUME NEW c \in CollectorState, NEW d, d = ReceiveError(c)
  PROVE  /\ d \in CollectorState /\ d.pc = c.pc /\ d.msg = c.msg
         /\ d.accepted = c.accepted /\ d.dropped = c.dropped /\ d.messages = c.messages
         /\ d.errors = c.errors + 1
  <1> DEFINE errors == c.errors + 1
  <1>1. d = [c EXCEPT !.errors = errors]
    BY DEF ReceiveError
  <1>2. errors \in Nat
    BY DEF CollectorState
  <1> HIDE DEF errors
  <1>3. /\ d \in CollectorState /\ d.pc = c.pc /\ d.msg = c.msg
        /\ d.accepted = c.accepted /\ d.dropped = c.dropped /\ d.messages = c.messages
        /\ d.errors = errors
    BY <1>1, <1>2 DEF CollectorState
  <1> QED
    BY <1>3 DEF errors

\* What the collector stores is a report.
LEMMA Stored ==
  ASSUME Typed, ControlInv, Store
  PROVE  /\ collector.pc = "store" /\ collector.msg[1] \in Messages
         /\ collector' \in CollectorState /\ collector'.pc = "top"
         /\ collector'.accepted = collector.accepted /\ collector'.dropped = collector.dropped
         /\ collector'.messages = collector.messages
         /\ files' \in [Pids -> Reports \cup {NoReport, Torn}]
         /\ \A q \in Pids : q # collector.msg[1].pid => files'[q] = files[q]
         /\ \/ /\ files'[collector.msg[1].pid] = collector.msg[1].doc
               /\ collector'.errors = collector.errors /\ UNCHANGED faults
            \/ /\ files' = files /\ collector'.errors = collector.errors + 1
               /\ faults' \in 0..MaxFaults
         /\ UNCHANGED <<interp, pub, tmp, queue, listener, control, limit>>
  <1> DEFINE m == collector.msg[1]
             one == [collector EXCEPT !.pc = "top", !.msg = <<>>]
             two == [ReceiveError(collector) EXCEPT !.pc = "top", !.msg = <<>>]
  <1>1. /\ collector.pc = "store" /\ UNCHANGED <<interp, pub, tmp, queue, listener, control, limit>>
        /\ \/ /\ files' = [files EXCEPT ![m.pid] = m.doc]
              /\ collector' = one /\ UNCHANGED faults
           \/ Fault /\ collector' = two /\ UNCHANGED files
    BY DEF Store, BackToTop
  <1>2. collector \in CollectorState /\ collector.errors \in Nat
    BY DEF Typed, CollectorState
  <1>3. m \in Messages
    BY <1>1 DEF Typed, CollectorState, ControlInv
  <1>4. /\ one \in CollectorState /\ one.pc = "top" /\ one.accepted = collector.accepted
        /\ one.dropped = collector.dropped /\ one.messages = collector.messages
        /\ one.errors = collector.errors
    BY <1>2, BackTyped
  <1>5. /\ two \in CollectorState /\ two.pc = "top" /\ two.accepted = collector.accepted
        /\ two.dropped = collector.dropped /\ two.messages = collector.messages
        /\ two.errors = collector.errors + 1
    <2> DEFINE c == ReceiveError(collector)
    <2>1. /\ c \in CollectorState /\ c.accepted = collector.accepted
          /\ c.dropped = collector.dropped /\ c.messages = collector.messages
          /\ c.errors = collector.errors + 1
      BY <1>2, ErrorTyped
    <2>2. two = [c EXCEPT !.pc = "top", !.msg = <<>>]
      OBVIOUS
    <2> HIDE DEF c, two
    <2> QED
      BY <2>1, <2>2, BackTyped
  <1>6. files \in [Pids -> Reports \cup {NoReport, Torn}]
    BY DEF Typed, TypeOK
  <1>7. Fault => faults' \in 0..MaxFaults
    <2>1. faults \in 0..MaxFaults /\ MaxFaults \in Nat
      BY TransportAssumption DEF Typed, TypeOK
    <2> QED
      BY <2>1 DEF Fault
  <1>8. m.pid \in Pids /\ m.doc \in Reports
    BY <1>3 DEF Messages
  <1> HIDE DEF m, one, two
  <1>9. CASE files' = [files EXCEPT ![m.pid] = m.doc] /\ collector' = one /\ UNCHANGED faults
    <2>1. /\ files' \in [Pids -> Reports \cup {NoReport, Torn}]
          /\ files'[m.pid] = m.doc /\ \A q \in Pids : q # m.pid => files'[q] = files[q]
      BY <1>6, <1>8, <1>9
    <2> QED
      BY <1>1, <1>3, <1>4, <1>9, <2>1 DEF m
  <1>10. CASE Fault /\ collector' = two /\ UNCHANGED files
    BY <1>1, <1>3, <1>5, <1>6, <1>7, <1>10 DEF m
  <1> QED
    BY <1>1, <1>9, <1>10

LEMMA LocalStep ==
  ASSUME Typed, ControlInv, \A p \in Pids : LocalInv(p), [Next]_vars
  PROVE  \A p \in Pids : LocalInv(p)'
  <1>0. TypeOK
    BY DEF Typed
  <1>1. ASSUME NEW p \in Pids, Inside(p)
        PROVE  \A q \in Pids : LocalInv(q)'
    BY <1>0, <1>1, Insides, OnlyLocal
  <1>2. ASSUME NEW p \in Pids, NEW t \in Threads, SendSucceeds(p, t)
        PROVE  \A q \in Pids : LocalInv(q)'
    BY <1>0, <1>2, Sent, OnlyLocal
  <1>3. ASSUME NEW p \in Pids, NEW t \in Threads, SendStalls(p, t) \/ SendRefused(p, t)
        PROVE  \A q \in Pids : LocalInv(q)'
    BY <1>0, <1>3, Refused, OnlyLocal
  <1>4. ASSUME NEW p \in Pids, NEW t \in Threads, OpenTemporary(p, t)
        PROVE  \A q \in Pids : LocalInv(q)'
    BY <1>0, <1>4, Opened, OnlyLocal
  <1>5. ASSUME NEW p \in Pids, NEW t \in Threads, ReplaceFile(p, t)
        PROVE  \A q \in Pids : LocalInv(q)'
    BY <1>0, <1>5, Replaced, OnlyLocal
  <1>6. CASE UNCHANGED <<interp, pub, tmp, files>>
    BY <1>6, LocalSame
  <1>7. CASE Store
    <2>1. \A q \in Pids : files'[q] # Torn
      <3>1. collector.msg[1].doc # Torn
        BY <1>7, Stored DEF Messages, Reports, Torn, Report, Kinds
      <3>2. \A q \in Pids : files[q] # Torn
        BY DEF LocalInv, NameInv
      <3> QED
        BY <1>7, <3>1, <3>2, Stored
    <2>2. UNCHANGED <<interp, pub, tmp>>
      BY <1>7, Stored
    <2>3. \A q \in Pids : LifeInv(q)' /\ ThreadInv(q)'
      BY <2>2 DEF LocalInv, LifeInv, ThreadInv, MainInv, SamplerInv, DocInv
    <2>4. \A q \in Pids : NameInv(q)'
      BY <2>1, <2>2 DEF LocalInv, NameInv
    <2> QED
      BY <2>3, <2>4 DEF LocalInv
  <1>8. CASE CollectorStep
    BY <1>6, <1>7, <1>8 DEF CollectorStep, LimitReached, AcceptEnds, Receive
  <1> QED
    BY <1>1, <1>2, <1>3, <1>4, <1>5, <1>6, <1>8, Steps DEF vars

-----------------------------------------------------------------------------
(* What an interpreter has still to send comes after what it has sent.     *)

\* Behind(p, d), after the step.
StaysBehind(p, d) ==
  /\ \A t \in Threads : pub'[p][t].pc = "send" => Before(d, pub'[p][t].doc)
  /\ interp'[p].life \in {"unborn", "up", "leaving"} /\ d.clean =>
       d.at <= interp'[p].done \/ (interp'[p].stop /\ pub'[p]["sampler"].pc = "idle")

LEMMA BehindSame ==
  ASSUME NEW p, NEW d, Behind(p, d), interp'[p] = interp[p], pub'[p] = pub[p]
  PROVE  StaysBehind(p, d)
  BY DEF Behind, StaysBehind

LEMMA InsideBehind ==
  ASSUME TypeOK, NEW p \in Pids, LocalInv(p), NEW d, d.at \in 0..MaxCheckpoints + 1,
         Behind(p, d), Inside(p)
  PROVE  StaysBehind(p, d)
  <1>0. PubOK /\ InterpOK /\ d.at \in Nat /\ d.at <= MaxCheckpoints + 1
    BY TypesOfAll, TransportAssumption
  <1>1. CASE Start(p)
    <2>1. /\ interp[p].life = "unborn" /\ interp'[p].stop = interp[p].stop
          /\ interp'[p].done = interp[p].done /\ pub'[p]["sampler"] = pub[p]["sampler"]
          /\ pub'[p]["main"].doc.at = 0
      BY <1>0, <1>1, Starting
    <2>2. interp[p].done = 0 /\ ~interp[p].stop /\ pub[p]["sampler"].pc = "off"
      BY <2>1 DEF LocalInv, LifeInv, Threads
    <2>3. d.clean => d.at = 0
      BY <1>0, <2>1, <2>2 DEF Behind
    <2> QED
      BY <2>1, <2>2, <2>3 DEF StaysBehind, Before, Threads
  <1>2. CASE Checkpoint(p)
    <2>1. /\ ~interp[p].stop /\ interp'[p].life = interp[p].life
          /\ interp[p].done \in Nat /\ interp'[p].done = interp[p].done + 1
          /\ pub[p]["sampler"].pc = "idle"
          /\ pub'[p]["sampler"].doc.at = interp[p].done + 1 /\ pub'[p]["main"] = pub[p]["main"]
      BY <1>0, <1>2, Checkpointing
    <2>2. interp[p].life \in {"unborn", "up", "leaving"}
      <3>1. interp[p].life \in {"unborn", "up", "leaving", "down", "dead"}
        BY <1>0 DEF InterpOK, InterpState
      <3> QED
        BY <2>1, <3>1 DEF LocalInv, LifeInv, Threads
    <2>3. d.clean => d.at <= interp[p].done
      BY <2>1, <2>2 DEF Behind
    <2>4. d.clean => d.at <= interp[p].done + 1
      BY <1>0, <2>1, <2>3
    <2> QED
      BY <2>1, <2>4 DEF Behind, StaysBehind, Before, Threads
  <1>3. CASE Leave(p)
    <2>1. /\ interp[p].life = "up" /\ interp'[p].done = interp[p].done /\ interp'[p].stop
          /\ pub'[p]["main"].pc = "join" /\ pub'[p]["sampler"] = pub[p]["sampler"]
      BY <1>0, <1>3, Leaving
    <2> QED
      BY <2>1 DEF Behind, StaysBehind, Threads
  <1>4. CASE JoinSampler(p)
    <2>1. /\ Keeps(p) /\ pub'[p]["main"].doc.at = MaxCheckpoints + 1
          /\ pub'[p]["sampler"] = pub[p]["sampler"]
      BY <1>0, <1>4, Joining
    <2> QED
      BY <1>0, <2>1 DEF Behind, StaysBehind, Before, Threads, Keeps
  <1>5. CASE Exit(p) \/ Killed(p)
    <2>1. /\ interp'[p].life \in {"down", "dead"}
          /\ pub'[p]["main"].pc = "off" /\ pub'[p]["sampler"].pc = "off"
      BY <1>0, <1>5, Ending
    <2> QED
      BY <2>1 DEF StaysBehind, Threads
  <1> QED
    BY <1>1, <1>2, <1>3, <1>4, <1>5 DEF Inside

\* After an answer, or a fallback, one thread less has something to send.
LEMMA FewerSends ==
  ASSUME TypeOK, NEW p \in Pids, LocalInv(p), NEW t \in Threads, pub[p][t].pc \in Active,
         NEW ok, NEW pc \in {"open", "replace"}, NEW mark,
         Answers(p, t, ok) \/ (Goes(p, t, pc, mark) /\ UNCHANGED interp)
  PROVE  /\ Keeps(p)
         /\ \A u \in Threads : pub'[p][u].pc = "send" => u # t /\ pub'[p][u] = pub[p][u]
         /\ interp[p].stop /\ pub[p]["sampler"].pc = "idle" => pub'[p]["sampler"].pc = "idle"
         /\ t = "sampler" => pub'[p]["main"] = pub[p]["main"]
         /\ t = "main" /\ interp[p].stop => pub'[p]["sampler"] = pub[p]["sampler"]
  <1>0. PubOK /\ InterpOK
    BY TypesOfAll
  <1>1. CASE Goes(p, t, pc, mark) /\ UNCHANGED interp
    BY <1>1 DEF Goes, Keeps, Active, Threads
  <1>2. CASE Answers(p, t, ok) /\ t = "sampler"
    <2>1. pub'[p]["sampler"].pc = "idle" /\ pub'[p]["main"] = pub[p]["main"]
      BY <1>0, <1>2, KindOf DEF Answers
    <2> QED
      BY <1>2, <2>1 DEF Answers, Threads
  <1>3. CASE Answers(p, t, ok) /\ t = "main"
    <2>1. CASE pub[p][t].doc.kind = "final"
      <3>1. pub'[p]["main"].pc = "exit" /\ pub'[p]["sampler"] = pub[p]["sampler"]
        BY <1>3, <2>1 DEF Answers
      <3> QED
        BY <1>3, <3>1 DEF Answers, Threads
    <2>2. CASE pub[p][t].doc.kind = "registration"
      <3>1. pub'[p]["main"].pc = "idle" /\ pub'[p]["sampler"].pc = "idle"
        BY <1>3, <2>2 DEF Answers
      <3>2. ~interp[p].stop
        <4>1. interp[p].life \in {"up", "leaving"}
          BY <1>0, KindOf
        <4> QED
          BY <1>3, <2>2, <4>1 DEF LocalInv, LifeInv, ThreadInv, MainInv
      <3> QED
        BY <1>3, <3>1, <3>2 DEF Answers, Threads
    <2> QED
      BY <1>0, <1>3, <2>1, <2>2, KindOf
  <1> QED
    BY <1>1, <1>2, <1>3 DEF Threads

LEMMA AnswerBehind ==
  ASSUME TypeOK, NEW p \in Pids, LocalInv(p), NEW t \in Threads, pub[p][t].pc \in Active,
         NEW ok, NEW pc \in {"open", "replace"}, NEW mark,
         Answers(p, t, ok) \/ (Goes(p, t, pc, mark) /\ UNCHANGED interp),
         NEW d, Behind(p, d)
  PROVE  StaysBehind(p, d)
  <1>1. /\ Keeps(p)
        /\ \A u \in Threads : pub'[p][u].pc = "send" => u # t /\ pub'[p][u] = pub[p][u]
        /\ interp[p].stop /\ pub[p]["sampler"].pc = "idle" => pub'[p]["sampler"].pc = "idle"
    BY FewerSends
  <1> QED
    BY <1>1 DEF Behind, StaysBehind, Keeps

\* So it is with the report that has just been sent.
LEMMA SentBehind ==
  ASSUME TypeOK, NEW p \in Pids, LocalInv(p), NEW t \in Threads, pub[p][t].pc = "send",
         NEW ok, NEW pc \in {"open", "replace"}, NEW mark,
         Answers(p, t, ok) \/ (Goes(p, t, pc, mark) /\ UNCHANGED interp)
  PROVE  StaysBehind(p, pub[p][t].doc)
  <1>0. /\ PubOK /\ InterpOK /\ pub[p][t].pc \in Active
    BY TypesOfAll DEF Active
  <1>1. /\ Keeps(p)
        /\ \A u \in Threads : pub'[p][u].pc = "send" => u # t /\ pub'[p][u] = pub[p][u]
        /\ t = "main" /\ interp[p].stop => pub'[p]["sampler"] = pub[p]["sampler"]
    BY <1>0, FewerSends
  <1>2. /\ interp[p].done \in Nat /\ MaxCheckpoints \in Nat
        /\ interp[p].done <= MaxCheckpoints + 1
    <2>1. interp[p].done \in 0..MaxCheckpoints /\ MaxCheckpoints \in Nat
      BY <1>0, TransportAssumption DEF InterpOK, InterpState
    <2> QED
      BY <2>1
  <1>3. CASE t = "sampler"
    <2>1. pub[p][t].doc.at = interp[p].done
      BY <1>0, <1>3 DEF LocalInv, ThreadInv, SamplerInv
    <2>2. pub'[p]["main"].pc = "send" => pub'[p]["main"].doc.at = MaxCheckpoints + 1
      <3>1. SUFFICES ASSUME pub'[p]["main"].pc = "send"
                     PROVE  pub'[p]["main"].doc.at = MaxCheckpoints + 1
        OBVIOUS
      <3>2. pub'[p]["main"] = pub[p]["main"]
        BY <1>1, <3>1 DEF Threads
      <3>3. pub[p]["main"].pc \in Active
        BY <3>1, <3>2 DEF Active
      <3>4. pub[p]["main"].doc.kind \in {"registration", "final"}
        BY <1>0, <3>3, KindOf DEF Threads
      <3>5. pub[p]["main"].doc.kind = "final"
        BY <1>3, <3>3, <3>4 DEF LocalInv, ThreadInv, MainInv
      <3> QED
        BY <3>2, <3>3, <3>5 DEF LocalInv, ThreadInv, MainInv
    <2>3. \A u \in Threads : pub'[p][u].pc = "send" =>
            pub'[p][u].doc.at >= pub[p][t].doc.at
      BY <1>1, <1>2, <1>3, <2>1, <2>2 DEF Threads
    <2> QED
      BY <1>1, <1>2, <2>1, <2>3 DEF StaysBehind, Before, Keeps
  <1>4. CASE t = "main"
    <2>1. CASE pub[p][t].doc.kind = "registration"
      <3>1. pub[p]["sampler"].pc = "off" /\ pub[p][t].doc.at = 0
        BY <1>0, <1>4, <2>1 DEF LocalInv, ThreadInv, MainInv
      <3>2. \A u \in Threads : pub'[p][u].pc # "send"
        BY <1>1, <1>4, <3>1 DEF Threads
      <3>3. pub[p][t].doc.at <= interp[p].done
        BY <1>2, <3>1
      <3> QED
        BY <1>1, <3>2, <3>3 DEF StaysBehind, Keeps
    <2>2. CASE pub[p][t].doc.kind = "final"
      <3>1. interp[p].stop
        <4>1. interp[p].life \in {"up", "leaving"}
          BY <1>0, KindOf
        <4>2. interp[p].life = "leaving"
          BY <1>0, <1>4, <2>2, <4>1 DEF LocalInv, ThreadInv, MainInv
        <4> QED
          BY <4>2 DEF LocalInv, LifeInv
      <3>2. pub[p][t].doc.clean => pub[p]["sampler"].pc = "idle"
        BY <1>0, <1>4, <2>2 DEF LocalInv, ThreadInv, MainInv
      <3>3. pub'[p]["sampler"] = pub[p]["sampler"]
        BY <1>1, <1>4, <3>1
      <3>4. pub[p][t].doc.clean => \A u \in Threads : pub'[p][u].pc # "send"
        BY <1>1, <1>4, <3>2, <3>3 DEF Threads
      <3> QED
        BY <1>1, <3>1, <3>2, <3>3, <3>4 DEF StaysBehind, Before, Keeps
    <2> QED
      BY <1>0, <1>4, <2>1, <2>2, KindOf
  <1> QED
    BY <1>3, <1>4 DEF Threads

LEMMA BehindStep ==
  ASSUME TypeOK, \A p \in Pids : LocalInv(p), [Next]_vars,
         NEW p \in Pids, NEW d, d.at \in 0..MaxCheckpoints + 1, Behind(p, d)
  PROVE  StaysBehind(p, d)
  <1>1. ASSUME NEW q \in Pids, Only(q), q # p
        PROVE  StaysBehind(p, d)
    BY <1>1, BehindSame DEF Only, Alone
  <1>2. ASSUME NEW q \in Pids, Inside(q)
        PROVE  StaysBehind(p, d)
    <2>1. Only(q)
      BY <1>2, Insides
    <2>2. CASE q = p
      BY <1>2, <2>2, InsideBehind
    <2> QED
      BY <1>1, <2>1, <2>2
  <1>3. ASSUME NEW q \in Pids, NEW t \in Threads, Only(q), pub[q][t].pc \in Active,
               NEW ok, NEW pc \in {"open", "replace"}, NEW mark,
               Answers(q, t, ok) \/ (Goes(q, t, pc, mark) /\ UNCHANGED interp)
        PROVE  StaysBehind(p, d)
    <2>1. CASE q = p
      BY <1>3, <2>1, AnswerBehind
    <2> QED
      BY <1>1, <1>3, <2>1
  <1>4. ASSUME NEW q \in Pids, NEW t \in Threads, SendSucceeds(q, t)
        PROVE  StaysBehind(p, d)
    <2>1. Only(q) /\ pub[q][t].pc \in Active /\ Answers(q, t, TRUE)
      BY <1>4, Sent DEF Active
    <2> QED
      BY <1>3, <2>1
  <1>5. ASSUME NEW q \in Pids, NEW t \in Threads, SendStalls(q, t) \/ SendRefused(q, t)
        PROVE  StaysBehind(p, d)
    <2>1. Only(q) /\ pub[q][t].pc \in Active /\ Goes(q, t, "open", TRUE) /\ UNCHANGED interp
      BY <1>5, Refused DEF Active
    <2> QED
      BY <1>3, <2>1
  <1>6. ASSUME NEW q \in Pids, NEW t \in Threads, OpenTemporary(q, t)
        PROVE  StaysBehind(p, d)
    <2>1. /\ Only(q) /\ pub[q][t].pc \in Active
          /\ \/ Goes(q, t, "replace", FALSE) /\ UNCHANGED interp
             \/ Answers(q, t, FALSE)
      BY <1>6, Opened DEF Active
    <2> QED
      BY <1>3, <2>1
  <1>7. ASSUME NEW q \in Pids, NEW t \in Threads, ReplaceFile(q, t)
        PROVE  StaysBehind(p, d)
    <2>1. Only(q) /\ pub[q][t].pc \in Active /\ Answers(q, t, tmp[q] # "none")
      BY <1>7, Replaced DEF Active
    <2> QED
      BY <1>3, <2>1
  <1>8. CASE UNCHANGED <<interp, pub>>
    BY <1>8, BehindSame
  <1> QED
    BY <1>2, <1>4, <1>5, <1>6, <1>7, <1>8, Steps DEF vars

-----------------------------------------------------------------------------
(* What the collector and the controller do.                               *)

LEMMA CountedTyped ==
  ASSUME NEW c \in CollectorState, NEW d, d = [c EXCEPT !.messages = c.messages + 1]
  PROVE  /\ d \in CollectorState /\ d.pc = c.pc /\ d.msg = c.msg /\ d.errors = c.errors
         /\ d.accepted = c.accepted /\ d.dropped = c.dropped /\ d.messages = c.messages + 1
  <1> DEFINE n == c.messages + 1
  <1>1. d = [c EXCEPT !.messages = n]
    OBVIOUS
  <1>2. n \in Nat
    BY DEF CollectorState
  <1> HIDE DEF n
  <1>3. /\ d \in CollectorState /\ d.pc = c.pc /\ d.msg = c.msg /\ d.errors = c.errors
        /\ d.accepted = c.accepted /\ d.dropped = c.dropped /\ d.messages = n
    BY <1>1, <1>2 DEF CollectorState
  <1> QED
    BY <1>3 DEF n

\* The oldest message leaves the queue, and is counted as an error, ignored, dropped,
\* or about to be stored.
LEMMA Received ==
  ASSUME Typed, Receive
  PROVE  /\ collector.pc = "top" /\ queue[1] \in Messages
         /\ queue' \in Seq(Messages) /\ Len(queue) \in Nat /\ Len(queue') = Len(queue) - 1
         /\ \A j \in 1..Len(queue') : queue'[j] = queue[j + 1]
         /\ collector' \in CollectorState /\ collector'.messages <= MaxMessages
         /\ collector'.errors >= collector.errors /\ collector.dropped \subseteq collector'.dropped
         /\ IsFiniteSet(collector'.accepted) /\ Cardinality(collector'.accepted) <= limit
         /\ collector'.accepted \cap collector'.dropped = {}
         /\ \/ /\ collector'.pc = "store" /\ Len(collector'.msg) = 1
               /\ collector'.msg[1] = queue[1]
            \/ /\ collector'.pc = "top"
               /\ queue[1].whole => collector'.dropped # {} \/ collector'.errors > 0
         /\ UNCHANGED <<interp, pub, tmp, files, listener, control, limit, faults>>
  <1> DEFINE m == queue[1]
             p == m.pid
             counted == [collector EXCEPT !.messages = collector.messages + 1]
             error == ReceiveError(collector)
             admitted == [counted EXCEPT !.pc = "store", !.msg = <<m>>,
                                         !.accepted = counted.accepted \cup {p}]
             refused == [counted EXCEPT !.dropped = counted.dropped \cup {p}]
             lost == [counted EXCEPT !.cut = TRUE]
  <1>0. /\ collector.pc = "top" /\ collector.messages < MaxMessages
        /\ queue # <<>> /\ queue' = Tail(queue)
        /\ UNCHANGED <<interp, pub, tmp, files, listener, control, limit, faults>>
        /\ collector' = IF ~m.whole THEN error
                        ELSE IF p \in collector.dropped THEN counted
                        ELSE IF p \in collector.accepted \/ ~Full THEN admitted
                        ELSE IF Cardinality(collector.dropped) < DropLimit THEN refused
                        ELSE lost
    BY DEF Receive
  <1>1. /\ collector \in CollectorState /\ queue \in Seq(Messages)
        /\ IsFiniteSet(collector.accepted) /\ Cardinality(collector.accepted) <= limit
        /\ collector.messages <= MaxMessages /\ MaxMessages \in Nat
        /\ collector.errors \in Nat /\ collector.messages \in Nat
        /\ collector.accepted \cap collector.dropped = {} /\ limit \in Nat
    BY TransportAssumption DEF Typed, TypeOK, CollectorState
  <1>2. /\ m \in Messages /\ queue' \in Seq(Messages) /\ Len(queue) \in Nat
        /\ Len(queue') = Len(queue) - 1 /\ \A j \in 1..Len(queue') : queue'[j] = queue[j + 1]
    <2>1. queue \in Seq(Messages) /\ queue # <<>> /\ queue' = Tail(queue)
      BY <1>0, <1>1
    <2> QED
      BY <2>1
  <1>3. p \in Pids /\ <<m>> \in Seq(Messages) /\ Len(<<m>>) = 1 /\ <<m>>[1] = m
    BY <1>2 DEF Messages
  <1>4. /\ counted \in CollectorState /\ counted.pc = "top" /\ counted.errors = collector.errors
        /\ counted.accepted = collector.accepted /\ counted.dropped = collector.dropped
        /\ counted.messages = collector.messages + 1
    BY <1>0, <1>1, CountedTyped
  <1>5. /\ error \in CollectorState /\ error.pc = "top" /\ error.errors = collector.errors + 1
        /\ error.accepted = collector.accepted /\ error.dropped = collector.dropped
        /\ error.messages = collector.messages
    BY <1>0, <1>1, ErrorTyped
  <1> HIDE DEF counted, error, p, m
  <1>6. /\ admitted \in CollectorState /\ admitted.pc = "store" /\ admitted.msg = <<m>>
        /\ admitted.errors = counted.errors /\ admitted.dropped = counted.dropped
        /\ admitted.accepted = counted.accepted \cup {p}
        /\ admitted.messages = counted.messages
    <2> DEFINE one == <<m>>
               more == counted.accepted \cup {p}
    <2>1. one \in Seq(Messages) /\ more \in SUBSET Pids
      BY <1>3, <1>4 DEF CollectorState
    <2>2. admitted = [counted EXCEPT !.pc = "store", !.msg = one, !.accepted = more]
      OBVIOUS
    <2> HIDE DEF one, more, admitted
    <2>3. /\ admitted \in CollectorState /\ admitted.pc = "store" /\ admitted.msg = one
          /\ admitted.errors = counted.errors /\ admitted.dropped = counted.dropped
          /\ admitted.accepted = more /\ admitted.messages = counted.messages
      BY <1>4, <2>1, <2>2 DEF CollectorState
    <2> QED
      BY <2>3 DEF one, more
  <1>7. /\ refused \in CollectorState /\ refused.pc = "top" /\ refused.errors = counted.errors
        /\ refused.accepted = counted.accepted /\ refused.dropped = counted.dropped \cup {p}
        /\ refused.messages = counted.messages
    BY <1>3, <1>4 DEF CollectorState
  <1>8. /\ lost \in CollectorState /\ lost.pc = "top" /\ lost.errors = counted.errors
        /\ lost.accepted = counted.accepted /\ lost.dropped = counted.dropped
        /\ lost.messages = counted.messages
    BY <1>4 DEF CollectorState
  <1> HIDE DEF admitted, refused, lost
  <1>9. CASE ~m.whole
    BY <1>0, <1>1, <1>2, <1>5, <1>9 DEF m
  <1>10. CASE m.whole /\ p \in collector.dropped
    BY <1>0, <1>1, <1>2, <1>4, <1>10 DEF m
  <1>11. CASE m.whole /\ p \notin collector.dropped /\ (p \in collector.accepted \/ ~Full)
    <2>1. collector' = admitted
      BY <1>0, <1>11
    <2>2. /\ IsFiniteSet(collector.accepted \cup {p})
          /\ Cardinality(collector.accepted \cup {p}) <= limit
      <3>1. CASE p \in collector.accepted
        <4>1. collector.accepted \cup {p} = collector.accepted
          BY <3>1
        <4> QED
          BY <1>1, <4>1
      <3>2. CASE p \notin collector.accepted
        <4>1. Cardinality(collector.accepted) \in Nat
          BY <1>1, FS_CardinalityType
        <4>2. Cardinality(collector.accepted) < limit
          BY <1>1, <1>11, <3>2, <4>1 DEF Full
        <4>3. /\ IsFiniteSet(collector.accepted \cup {p})
              /\ Cardinality(collector.accepted \cup {p}) = Cardinality(collector.accepted) + 1
          BY <1>1, <3>2, FS_AddElement
        <4> QED
          BY <1>1, <4>1, <4>2, <4>3
      <3> QED
        BY <3>1, <3>2
    <2>3. (collector.accepted \cup {p}) \cap collector.dropped = {}
      BY <1>1, <1>11
    <2>4. collector'.messages <= MaxMessages
      BY <1>0, <1>1, <1>4, <1>6, <2>1
    <2>5. /\ collector' \in CollectorState /\ collector'.pc = "store"
          /\ Len(collector'.msg) = 1 /\ collector'.msg[1] = queue[1]
      BY <1>3, <1>6, <2>1 DEF m
    <2>6. /\ IsFiniteSet(collector'.accepted) /\ Cardinality(collector'.accepted) <= limit
          /\ collector'.accepted \cap collector'.dropped = {}
      BY <1>4, <1>6, <2>1, <2>2, <2>3
    <2>7. collector'.errors >= collector.errors /\ collector.dropped \subseteq collector'.dropped
      BY <1>1, <1>4, <1>6, <2>1
    <2> QED
      BY <1>0, <1>2, <2>4, <2>5, <2>6, <2>7 DEF m
  <1>12. CASE /\ m.whole /\ p \notin collector.dropped /\ p \notin collector.accepted /\ Full
              /\ Cardinality(collector.dropped) < DropLimit
    <2>1. collector' = refused
      BY <1>0, <1>12
    <2>2. collector.accepted \cap (collector.dropped \cup {p}) = {}
      BY <1>1, <1>12
    <2>3. collector'.messages <= MaxMessages
      BY <1>0, <1>1, <1>4, <1>7, <2>1
    <2> QED
      BY <1>0, <1>1, <1>2, <1>4, <1>7, <2>1, <2>2, <2>3 DEF m
  <1>13. CASE /\ m.whole /\ p \notin collector.dropped /\ p \notin collector.accepted /\ Full
              /\ ~(Cardinality(collector.dropped) < DropLimit)
    <2>1. collector' = lost
      BY <1>0, <1>13
    <2>2. collector.dropped # {}
      <3>1. Cardinality({}) < DropLimit
        BY FS_EmptySet, TransportAssumption
      <3> QED
        BY <1>13, <3>1
    <2>3. collector'.messages <= MaxMessages
      BY <1>0, <1>1, <1>4, <1>8, <2>1
    <2> QED
      BY <1>0, <1>1, <1>2, <1>4, <1>8, <2>1, <2>2, <2>3 DEF m
  <1> QED
    BY <1>9, <1>10, <1>11, <1>12, <1>13

\* The service that ends at the message limit.
LEMMA Limited ==
  ASSUME Typed, LimitReached
  PROVE  /\ collector' \in CollectorState /\ collector'.pc = "ended"
         /\ collector'.errors = collector.errors + 1
         /\ collector'.accepted = collector.accepted /\ collector'.dropped = collector.dropped
         /\ collector'.messages = collector.messages
         /\ listener' = "closed" /\ queue' = <<>>
         /\ UNCHANGED <<interp, pub, tmp, files, control, limit, faults>>
  <1> DEFINE error == ReceiveError(collector)
  <1>1. collector' = [error EXCEPT !.pc = "ended"]
    BY DEF LimitReached, ReceiveError, Typed, CollectorState
  <1>2. /\ error \in CollectorState /\ error.errors = collector.errors + 1
        /\ error.accepted = collector.accepted /\ error.dropped = collector.dropped
        /\ error.messages = collector.messages
    BY ErrorTyped DEF Typed
  <1> HIDE DEF error
  <1>3. /\ collector' \in CollectorState /\ collector'.pc = "ended"
        /\ collector'.errors = error.errors /\ collector'.accepted = error.accepted
        /\ collector'.dropped = error.dropped /\ collector'.messages = error.messages
    BY <1>1, <1>2 DEF CollectorState
  <1> QED
    BY <1>2, <1>3 DEF LimitReached

LEMMA Ends ==
  ASSUME Typed, AcceptEnds
  PROVE  /\ collector' \in CollectorState /\ collector.pc = "top" /\ collector'.pc = "ended"
         /\ collector'.errors = collector.errors
         /\ collector'.accepted = collector.accepted /\ collector'.dropped = collector.dropped
         /\ collector'.messages = collector.messages
         /\ queue = <<>> /\ (Stopping \/ listener = "closed")
         /\ UNCHANGED <<interp, pub, tmp, files, queue, listener, control, limit, faults>>
  BY DEF AcceptEnds, Typed, CollectorState

\* What a step of the controller may do.
LEMMA Controlled ==
  ASSUME Typed, ControlInv, ControlStep
  PROVE  /\ collector' \in CollectorState /\ collector'.pc = collector.pc
         /\ collector'.msg = collector.msg /\ collector'.errors >= collector.errors
         /\ collector'.accepted = collector.accepted /\ collector'.dropped = collector.dropped
         /\ collector'.messages = collector.messages
         /\ \/ queue' = queue /\ listener' = listener
            \/ control.pc = "close" /\ queue' = <<>> /\ listener' = "closed"
         /\ control' = [pc |-> control'.pc, hurried |-> control'.hurried,
                        result |-> control'.result]
         /\ control.hurried => control'.hurried
         /\ control'.hurried \in BOOLEAN
         /\ control'.pc \in {"capture", "join", "close", "rejoin", "load", "loaded"}
         /\ Stopping' /\ ControlInv'
         /\ UNCHANGED <<interp, pub, tmp, files, limit, faults>>
  <1> USE DEF Typed
  <1>1. /\ control = [pc |-> control.pc, hurried |-> control.hurried, result |-> control.result]
        /\ control.hurried \in BOOLEAN /\ collector \in CollectorState
        /\ listener \in {"open", "closed", "absent"} /\ collector.errors \in Nat
    BY DEF TypeOK, CollectorState
  <1>2. CASE StopCollection
    BY <1>1, <1>2 DEF StopCollection, ControlInv, Stopping
  <1>3. CASE JoinCollector
    <2>1. /\ control.pc = "join" /\ control' = [control EXCEPT !.pc = "close", !.hurried = ~Ended]
          /\ UNCHANGED <<interp, pub, tmp, files, queue, listener, collector, limit, faults>>
      BY <1>3 DEF JoinCollector
    <2>2. /\ control'.pc = "close" /\ control'.hurried = ~Ended
          /\ control'.result = control.result
          /\ control' = [pc |-> control'.pc, hurried |-> control'.hurried,
                         result |-> control'.result]
      BY <1>1, <2>1
    <2>3. ~control.hurried /\ listener # "absent" /\ control.result = <<>>
      BY <2>1 DEF ControlInv
    <2>4. ControlInv'
      BY <2>1, <2>2, <2>3 DEF ControlInv, Stopping, Ended
    <2> QED
      BY <1>1, <2>1, <2>2, <2>3, <2>4 DEF Stopping
  <1>4. CASE CloseListener
    BY <1>1, <1>4 DEF CloseListener, ControlInv, Stopping, Ended
  <1>5. CASE RejoinCollector
    <2>1. /\ collector' \in CollectorState /\ collector'.pc = collector.pc
          /\ collector'.msg = collector.msg /\ collector'.errors >= collector.errors
          /\ collector'.accepted = collector.accepted
          /\ collector'.dropped = collector.dropped
          /\ collector'.messages = collector.messages
      <3>1. CASE collector' = collector
        BY <1>1, <3>1
      <3>2. CASE collector' = ReceiveError(collector)
        <4> DEFINE new == ReceiveError(collector)
        <4>1. /\ new \in CollectorState /\ new.pc = collector.pc /\ new.msg = collector.msg
              /\ new.accepted = collector.accepted /\ new.dropped = collector.dropped
              /\ new.messages = collector.messages /\ new.errors = collector.errors + 1
          BY <1>1, ErrorTyped
        <4> QED
          BY <1>1, <3>2, <4>1
      <3> QED
        BY <1>5, <3>1, <3>2 DEF RejoinCollector
    <2>2. /\ control' = [control EXCEPT !.pc = "load"] /\ control.pc = "rejoin"
          /\ UNCHANGED <<interp, pub, tmp, files, queue, listener, limit, faults>>
      BY <1>5 DEF RejoinCollector
    <2> QED
      BY <1>1, <2>1, <2>2 DEF ControlInv, Stopping
  <1>6. CASE LoadProfile
    <2>1. /\ control.pc = "load"
          /\ \E res : control' = [control EXCEPT !.pc = "loaded", !.result = res]
          /\ UNCHANGED <<interp, pub, tmp, files, queue, listener, collector, limit, faults>>
      BY <1>6 DEF LoadProfile
    <2>2. /\ control'.pc = "loaded" /\ control'.hurried = control.hurried
          /\ control' = [pc |-> control'.pc, hurried |-> control'.hurried,
                         result |-> control'.result]
      BY <1>1, <2>1
    <2>3. ControlInv'
      BY <2>1, <2>2 DEF ControlInv, Stopping
    <2> QED
      BY <1>1, <2>1, <2>2, <2>3 DEF Stopping
  <1> QED
    BY <1>2, <1>3, <1>4, <1>5, <1>6 DEF ControlStep

LEMMA ControlStepInv ==
  ASSUME Typed, ControlInv, \A p \in Pids : LocalInv(p), [Next]_vars
  PROVE  ControlInv'
  <1>0. TypeOK
    BY DEF Typed
  <1>1. CASE UNCHANGED <<listener, collector, control>>
    BY <1>1 DEF ControlInv, Stopping
  <1>2. CASE \E p \in Pids : Inside(p)
    BY <1>0, <1>1, <1>2, Insides DEF Elsewhere
  <1>3. CASE \E p \in Pids, t \in Threads : SendSucceeds(p, t)
    BY <1>0, <1>1, <1>3, Sent
  <1>4. CASE \E p \in Pids, t \in Threads : SendStalls(p, t) \/ SendRefused(p, t)
    BY <1>0, <1>1, <1>4, Refused
  <1>5. CASE \E p \in Pids, t \in Threads : OpenTemporary(p, t)
    BY <1>0, <1>1, <1>5, Opened
  <1>6. CASE \E p \in Pids, t \in Threads : ReplaceFile(p, t)
    BY <1>0, <1>1, <1>6, Replaced
  <1>7. CASE LimitReached
    <2>1. collector'.pc = "ended" /\ listener' = "closed" /\ UNCHANGED control
      BY <1>7, Limited
    <2>2. listener # "absent"
      BY <1>7 DEF LimitReached, ControlInv
    <2> QED
      BY <2>1, <2>2 DEF ControlInv, Stopping
  <1>8. CASE AcceptEnds
    <2>1. /\ collector'.pc = "ended" /\ UNCHANGED <<listener, control>>
          /\ Stopping \/ listener = "closed"
      BY <1>8, Ends
    <2> QED
      BY <2>1 DEF ControlInv, Stopping
  <1>9. CASE Receive
    <2>1. /\ collector.pc = "top" /\ UNCHANGED <<listener, control>>
          /\ collector'.pc = "top" \/ (collector'.pc = "store" /\ Len(collector'.msg) = 1)
      BY <1>9, Received
    <2> QED
      BY <2>1 DEF ControlInv, Stopping
  <1>10. CASE Store
    <2>1. collector.pc = "store" /\ collector'.pc = "top" /\ UNCHANGED <<listener, control>>
      BY <1>10, Stored
    <2> QED
      BY <2>1 DEF ControlInv, Stopping
  <1>11. CASE ControlStep
    BY <1>11, Controlled
  <1> QED
    BY <1>1, <1>2, <1>3, <1>4, <1>5, <1>6, <1>7, <1>8, <1>9, <1>10, <1>11, Steps
    DEF vars, CollectorStep

-----------------------------------------------------------------------------
(* The order of the reports that come through the socket.                  *)

LEMMA OrderStep ==
  ASSUME Typed, ControlInv, \A p \in Pids : LocalInv(p), OrderInv, [Next]_vars
  PROVE  OrderInv'
  <1>0. /\ TypeOK /\ queue \in Seq(Messages) /\ Len(queue) \in Nat /\ DOMAIN queue = 1..Len(queue)
    BY DEF Typed
  \* All that has been sent stays ahead of what the interpreters have still to send.
  <1>a. \A i \in DOMAIN queue : queue[i].pid \in Pids
                                /\ StaysBehind(queue[i].pid, queue[i].doc)
    <2> TAKE i \in DOMAIN queue
    <2>1. queue[i] \in Messages /\ Behind(queue[i].pid, queue[i].doc)
      BY <1>0 DEF OrderInv
    <2>2. queue[i].pid \in Pids /\ queue[i].doc.at \in 0..MaxCheckpoints + 1
      BY <2>1 DEF Messages, Reports
    <2> QED
      BY <1>0, <2>1, <2>2, BehindStep
  <1>b. collector.pc = "store" => StaysBehind(collector.msg[1].pid, collector.msg[1].doc)
    <2> SUFFICES ASSUME collector.pc = "store"
                 PROVE  StaysBehind(collector.msg[1].pid, collector.msg[1].doc)
      OBVIOUS
    <2>1. collector.msg \in Seq(Messages) /\ Len(collector.msg) = 1
      BY DEF Typed, CollectorState, ControlInv
    <2>2. collector.msg[1] \in Messages
      BY <2>1
    <2>3. collector.msg[1].pid \in Pids /\ collector.msg[1].doc.at \in 0..MaxCheckpoints + 1
      BY <2>2 DEF Messages, Reports
    <2> QED
      BY <1>0, <2>3, BehindStep DEF OrderInv
  <1>c. \A p \in Pids : ~files[p].fallback => StaysBehind(p, files[p])
    <2> SUFFICES ASSUME NEW p \in Pids, ~files[p].fallback
                 PROVE  StaysBehind(p, files[p])
      OBVIOUS
    <2>1. files[p].at \in 0..MaxCheckpoints + 1
      <3>1. files[p] \in Reports \cup {NoReport, Torn}
        BY <1>0 DEF TypeOK
      <3>2. NoReport.at = 0 /\ Torn.at = 0
        BY DEF NoReport, Torn, Report
      <3>3. 0 \in 0..MaxCheckpoints + 1
        BY TransportAssumption
      <3>4. CASE files[p] \in Reports
        BY <3>4 DEF Reports
      <3> QED
        BY <3>1, <3>2, <3>3, <3>4
    <2> QED
      BY <1>0, <2>1, BehindStep DEF OrderInv
  <1>1. ASSUME UNCHANGED queue, \A p \in Pids : files'[p] = files[p] \/ files'[p].fallback,
               collector'.pc = "store" => collector.pc = "store" /\ collector'.msg = collector.msg
        PROVE  OrderInv'
    <2>1. \A i \in DOMAIN queue' :
            /\ ~queue'[i].doc.fallback /\ StaysBehind(queue'[i].pid, queue'[i].doc)
            /\ \A j \in DOMAIN queue' : i < j /\ queue'[i].pid = queue'[j].pid =>
                                          Before(queue'[i].doc, queue'[j].doc)
      BY <1>1, <1>a DEF OrderInv
    <2>2. collector'.pc = "store" =>
            /\ ~collector'.msg[1].doc.fallback
            /\ StaysBehind(collector'.msg[1].pid, collector'.msg[1].doc)
            /\ \A j \in DOMAIN queue' : collector'.msg[1].pid = queue'[j].pid =>
                                          Before(collector'.msg[1].doc, queue'[j].doc)
      BY <1>1, <1>b DEF OrderInv
    <2>3. \A p \in Pids : ~files'[p].fallback =>
            /\ StaysBehind(p, files'[p])
            /\ collector'.pc = "store" /\ collector'.msg[1].pid = p =>
                 Before(files'[p], collector'.msg[1].doc)
            /\ \A j \in DOMAIN queue' : queue'[j].pid = p => Before(files'[p], queue'[j].doc)
      BY <1>1, <1>c DEF OrderInv
    <2> QED
      BY <2>1, <2>2, <2>3 DEF OrderInv, Behind, StaysBehind
  <1>2. ASSUME NEW p \in Pids, NEW t \in Threads, NEW m \in Messages,
               m.pid = p, m.doc = pub[p][t].doc, pub[p][t].pc = "send",
               queue' = Append(queue, m), UNCHANGED <<files, collector>>,
               StaysBehind(p, m.doc)
        PROVE  OrderInv'
    <2>1. /\ DOMAIN queue' = 1..(Len(queue) + 1) /\ queue'[Len(queue) + 1] = m
          /\ \A i \in 1..Len(queue) : queue'[i] = queue[i]
      BY <1>0, <1>2
    <2>2. ~m.doc.fallback
      BY <1>2 DEF LocalInv, ThreadInv, DocInv
    <2>3. \A i \in 1..Len(queue) : queue[i].pid = p => Before(queue[i].doc, m.doc)
      BY <1>0, <1>2 DEF OrderInv, Behind
    <2>4. /\ collector.pc = "store" /\ collector.msg[1].pid = p =>
               Before(collector.msg[1].doc, m.doc)
          /\ ~files[p].fallback => Before(files[p], m.doc)
      BY <1>2 DEF OrderInv, Behind
    <2>5. \A i \in DOMAIN queue' :
            /\ ~queue'[i].doc.fallback /\ StaysBehind(queue'[i].pid, queue'[i].doc)
            /\ \A j \in DOMAIN queue' : i < j /\ queue'[i].pid = queue'[j].pid =>
                                          Before(queue'[i].doc, queue'[j].doc)
      <3> SUFFICES ASSUME NEW i \in DOMAIN queue'
                   PROVE  /\ ~queue'[i].doc.fallback /\ StaysBehind(queue'[i].pid, queue'[i].doc)
                          /\ \A j \in DOMAIN queue' :
                               i < j /\ queue'[i].pid = queue'[j].pid =>
                                 Before(queue'[i].doc, queue'[j].doc)
        OBVIOUS
      <3>1. CASE i = Len(queue) + 1
        BY <1>0, <1>2, <2>1, <2>2, <3>1
      <3>2. CASE i \in 1..Len(queue)
        <4>1. queue'[i] = queue[i]
          BY <2>1, <3>2
        <4>2. ~queue'[i].doc.fallback /\ StaysBehind(queue'[i].pid, queue'[i].doc)
          BY <1>0, <1>a, <3>2, <4>1 DEF OrderInv
        <4>3. \A j \in 1..Len(queue) : i < j /\ queue'[i].pid = queue'[j].pid =>
                                         Before(queue'[i].doc, queue'[j].doc)
          BY <1>0, <2>1, <3>2, <4>1 DEF OrderInv
        <4>4. queue'[i].pid = p => Before(queue'[i].doc, m.doc)
          BY <2>3, <3>2, <4>1
        <4>5. \A j \in DOMAIN queue' : j \in 1..Len(queue) \/ j = Len(queue) + 1
          BY <1>0, <2>1
        <4> QED
          BY <1>2, <2>1, <4>2, <4>3, <4>4, <4>5
      <3>3. i = Len(queue) + 1 \/ i \in 1..Len(queue)
        BY <1>0, <2>1
      <3> QED
        BY <3>1, <3>2, <3>3
    <2>6. \A j \in DOMAIN queue' : queue'[j] = m \/ (j \in DOMAIN queue /\ queue'[j] = queue[j])
      BY <1>0, <2>1
    <2>7. collector'.pc = "store" =>
            /\ ~collector'.msg[1].doc.fallback
            /\ StaysBehind(collector'.msg[1].pid, collector'.msg[1].doc)
            /\ \A j \in DOMAIN queue' : collector'.msg[1].pid = queue'[j].pid =>
                                          Before(collector'.msg[1].doc, queue'[j].doc)
      BY <1>2, <1>b, <2>4, <2>6 DEF OrderInv
    <2>8. \A q \in Pids : ~files'[q].fallback =>
            /\ StaysBehind(q, files'[q])
            /\ collector'.pc = "store" /\ collector'.msg[1].pid = q =>
                 Before(files'[q], collector'.msg[1].doc)
            /\ \A j \in DOMAIN queue' : queue'[j].pid = q => Before(files'[q], queue'[j].doc)
      BY <1>2, <1>c, <2>4, <2>6 DEF OrderInv
    <2> QED
      BY <2>5, <2>7, <2>8 DEF OrderInv, Behind, StaysBehind
  <1>3. ASSUME queue' = <<>>, UNCHANGED files,
               collector'.pc = "store" => collector.pc = "store" /\ collector'.msg = collector.msg
        PROVE  OrderInv'
    <2>1. DOMAIN queue' = {}
      BY <1>3
    <2>2. collector'.pc = "store" =>
            /\ ~collector'.msg[1].doc.fallback
            /\ StaysBehind(collector'.msg[1].pid, collector'.msg[1].doc)
      BY <1>3, <1>b DEF OrderInv
    <2>3. \A p \in Pids : ~files'[p].fallback =>
            /\ StaysBehind(p, files'[p])
            /\ collector'.pc = "store" /\ collector'.msg[1].pid = p =>
                 Before(files'[p], collector'.msg[1].doc)
      BY <1>3, <1>c DEF OrderInv
    <2> QED
      BY <2>1, <2>2, <2>3 DEF OrderInv, Behind, StaysBehind
  <1>4. CASE Receive
    <2>1. /\ collector.pc = "top" /\ UNCHANGED files
          /\ Len(queue') = Len(queue) - 1 /\ queue' \in Seq(Messages)
          /\ \A j \in 1..Len(queue') : queue'[j] = queue[j + 1]
          /\ collector'.pc = "store" => collector'.msg[1] = queue[1]
      BY <1>4, Received
    <2>2. DOMAIN queue' = 1..Len(queue') /\ \A j \in DOMAIN queue' : j \in Nat
      BY <2>1
    <2>3. \A j \in DOMAIN queue' : queue'[j] = queue[j + 1] /\ j + 1 \in DOMAIN queue /\ 1 < j + 1
      BY <1>0, <2>1, <2>2
    <2>4. 1 \in DOMAIN queue
      <3>1. queue # <<>>
        BY <1>4 DEF Receive
      <3> QED
        BY <1>0, <3>1
    <2>5. \A i \in DOMAIN queue' :
            /\ ~queue'[i].doc.fallback /\ StaysBehind(queue'[i].pid, queue'[i].doc)
            /\ \A j \in DOMAIN queue' : i < j /\ queue'[i].pid = queue'[j].pid =>
                                          Before(queue'[i].doc, queue'[j].doc)
      <3>1. \A i, j \in DOMAIN queue' : i < j => i + 1 < j + 1
        BY <2>2
      <3> QED
        BY <1>a, <2>3, <3>1 DEF OrderInv
    <2>6. collector'.pc = "store" =>
            /\ ~collector'.msg[1].doc.fallback
            /\ StaysBehind(collector'.msg[1].pid, collector'.msg[1].doc)
            /\ \A j \in DOMAIN queue' : collector'.msg[1].pid = queue'[j].pid =>
                                          Before(collector'.msg[1].doc, queue'[j].doc)
      BY <1>a, <2>1, <2>3, <2>4 DEF OrderInv
    <2>7. \A p \in Pids : ~files'[p].fallback =>
            /\ StaysBehind(p, files'[p])
            /\ collector'.pc = "store" /\ collector'.msg[1].pid = p =>
                 Before(files'[p], collector'.msg[1].doc)
            /\ \A j \in DOMAIN queue' : queue'[j].pid = p => Before(files'[p], queue'[j].doc)
      BY <1>c, <2>1, <2>3, <2>4 DEF OrderInv
    <2> QED
      BY <2>5, <2>6, <2>7 DEF OrderInv, Behind, StaysBehind
  <1>5. CASE Store
    <2>1. /\ collector.pc = "store" /\ collector'.pc = "top" /\ UNCHANGED queue
          /\ \A q \in Pids : q # collector.msg[1].pid => files'[q] = files[q]
          /\ files'[collector.msg[1].pid] = collector.msg[1].doc \/ files' = files
      BY <1>5, Stored
    <2>2. \A p \in Pids : ~files'[p].fallback =>
            /\ StaysBehind(p, files'[p])
            /\ \A j \in DOMAIN queue' : queue'[j].pid = p => Before(files'[p], queue'[j].doc)
      BY <1>b, <1>c, <2>1 DEF OrderInv
    <2>3. \A i \in DOMAIN queue' :
            /\ ~queue'[i].doc.fallback /\ StaysBehind(queue'[i].pid, queue'[i].doc)
            /\ \A j \in DOMAIN queue' : i < j /\ queue'[i].pid = queue'[j].pid =>
                                          Before(queue'[i].doc, queue'[j].doc)
      BY <1>a, <2>1 DEF OrderInv
    <2> QED
      BY <2>1, <2>2, <2>3 DEF OrderInv, Behind, StaysBehind
  <1>6. ASSUME NEW p \in Pids, Inside(p)
        PROVE  OrderInv'
    BY <1>0, <1>1, <1>6, Insides DEF Elsewhere
  <1>7. ASSUME NEW p \in Pids, NEW t \in Threads, SendSucceeds(p, t)
        PROVE  OrderInv'
    <2>1. /\ pub[p][t].pc = "send" /\ Answers(p, t, TRUE) /\ UNCHANGED <<files, collector>>
          /\ Message(p, t, TRUE) \in Messages /\ Message(p, t, TRUE).pid = p
          /\ Message(p, t, TRUE).doc = pub[p][t].doc
          /\ queue' = Append(queue, Message(p, t, TRUE))
      BY <1>0, <1>7, Sent
    <2>2. StaysBehind(p, pub[p][t].doc)
      BY <1>0, <2>1, SentBehind
    <2> QED
      BY <1>2, <2>1, <2>2
  <1>8. ASSUME NEW p \in Pids, NEW t \in Threads, SendStalls(p, t) \/ SendRefused(p, t)
        PROVE  OrderInv'
    <2>1. /\ pub[p][t].pc = "send" /\ Goes(p, t, "open", TRUE)
          /\ UNCHANGED <<interp, files, collector>>
          /\ \/ UNCHANGED queue
             \/ /\ Message(p, t, FALSE) \in Messages /\ Message(p, t, FALSE).pid = p
                /\ Message(p, t, FALSE).doc = pub[p][t].doc
                /\ queue' = Append(queue, Message(p, t, FALSE))
      BY <1>0, <1>8, Refused
    <2>2. StaysBehind(p, pub[p][t].doc)
      BY <1>0, <2>1, SentBehind
    <2>3. CASE UNCHANGED queue
      BY <1>1, <2>1, <2>3
    <2> QED
      BY <1>2, <2>1, <2>2, <2>3
  <1>9. ASSUME NEW p \in Pids, NEW t \in Threads, OpenTemporary(p, t)
        PROVE  OrderInv'
    BY <1>0, <1>1, <1>9, Opened
  <1>10. ASSUME NEW p \in Pids, NEW t \in Threads, ReplaceFile(p, t)
         PROVE  OrderInv'
    <2>1. /\ UNCHANGED <<queue, collector>>
          /\ \A q \in Pids : files'[q] = files[q] \/ files'[q].fallback
      BY <1>0, <1>10, Replaced DEF Only
    <2> QED
      BY <1>1, <2>1
  <1>11. CASE LimitReached
    BY <1>3, <1>11, Limited
  <1>12. CASE AcceptEnds
    BY <1>1, <1>12, Ends
  <1>13. CASE ControlStep
    BY <1>1, <1>3, <1>13, Controlled
  <1>14. CASE UNCHANGED vars
    BY <1>1, <1>14 DEF vars
  <1> QED
    BY <1>4, <1>5, <1>6, <1>7, <1>8, <1>9, <1>10, <1>11, <1>12, <1>13, <1>14, Steps
    DEF CollectorStep

-----------------------------------------------------------------------------
(* What an interpreter believes published.                                 *)

LEMMA WhatIsAReport ==
  NoReport \notin Reports /\ Torn \notin Reports
  BY DEF Reports, NoReport, Torn, Report, Kinds

\* What the loader will know it does not forget.
LEMMA KnownSame ==
  ASSUME Typed, NEW p \in Pids, Known(p),
         files'[p] = files[p] \/ files'[p] \in Reports,
         collector'.errors \in Nat, collector'.errors >= collector.errors,
         collector.dropped \subseteq collector'.dropped,
         control.hurried => control'.hurried
  PROVE  Known(p)'
  <1>1. collector.errors \in Nat
    BY DEF Typed, CollectorState
  <1>2. CASE files[p] # NoReport
    BY <1>2, WhatIsAReport DEF Known
  <1>3. CASE collector.errors > 0
    <2>1. collector'.errors > 0
      BY <1>1, <1>3
    <2> QED
      BY <2>1 DEF Known
  <1>4. CASE collector.dropped # {} \/ control.hurried
    BY <1>4 DEF Known
  <1> QED
    BY <1>2, <1>3, <1>4 DEF Known

LEMMA KnownStays ==
  ASSUME Typed, ControlInv, \A p \in Pids : LocalInv(p), [Next]_vars, NEW p \in Pids, Known(p)
  PROVE  Known(p)'
  <1>0. /\ TypeOK /\ collector \in CollectorState /\ collector.errors \in Nat
        /\ collector.errors >= collector.errors /\ collector.errors + 1 >= collector.errors
        /\ collector.errors + 1 \in Nat
    BY DEF Typed, CollectorState
  <1>1. CASE UNCHANGED <<files, collector, control>>
    BY <1>0, <1>1, KnownSame
  <1>2. CASE \E q \in Pids : Inside(q)
    BY <1>0, <1>1, <1>2, Insides DEF Elsewhere
  <1>3. CASE \E q \in Pids, t \in Threads : SendSucceeds(q, t)
    BY <1>0, <1>1, <1>3, Sent
  <1>4. CASE \E q \in Pids, t \in Threads : SendStalls(q, t) \/ SendRefused(q, t)
    BY <1>0, <1>1, <1>4, Refused
  <1>5. CASE \E q \in Pids, t \in Threads : OpenTemporary(q, t)
    BY <1>0, <1>1, <1>5, Opened
  <1>6. ASSUME NEW q \in Pids, NEW t \in Threads, ReplaceFile(q, t)
        PROVE  Known(p)'
    <2>1. /\ files'[p] = files[p] \/ files'[p] \in Reports
          /\ UNCHANGED <<collector, control>>
      BY <1>0, <1>6, Replaced DEF Only
    <2> QED
      BY <1>0, <2>1, KnownSame
  <1>7. CASE LimitReached
    BY <1>0, <1>7, Limited, KnownSame
  <1>8. CASE AcceptEnds
    BY <1>0, <1>8, Ends, KnownSame
  <1>9. CASE Receive
    <2>1. /\ collector' \in CollectorState /\ collector'.errors >= collector.errors
          /\ collector.dropped \subseteq collector'.dropped /\ UNCHANGED <<files, control>>
      BY <1>9, Received
    <2> QED
      BY <2>1, KnownSame DEF CollectorState
  <1>10. CASE Store
    <2>1. /\ collector'.errors \in {collector.errors, collector.errors + 1}
          /\ collector'.dropped = collector.dropped /\ UNCHANGED control
          /\ files'[p] = files[p] \/ files'[p] \in Reports
      BY <1>10, Stored DEF Messages
    <2> QED
      BY <1>0, <2>1, KnownSame
  <1>11. CASE ControlStep
    <2>1. /\ collector' \in CollectorState /\ collector'.errors >= collector.errors
          /\ collector'.dropped = collector.dropped /\ UNCHANGED files
          /\ control.hurried => control'.hurried
      BY <1>11, Controlled
    <2> QED
      BY <2>1, KnownSame DEF CollectorState
  <1> QED
    BY <1>1, <1>2, <1>3, <1>4, <1>5, <1>6, <1>7, <1>8, <1>9, <1>10, <1>11, Steps
    DEF vars, CollectorStep

\* A message that waits is stored, or known to be missing, in the end.
LEMMA KeptStays ==
  ASSUME Typed, ControlInv, \A p \in Pids : LocalInv(p), [Next]_vars, NEW p \in Pids, Kept(p)
  PROVE  Kept(p)'
  <1>0. /\ TypeOK /\ collector.errors \in Nat /\ collector.errors + 1 > 0
        /\ queue \in Seq(Messages) /\ Len(queue) \in Nat /\ DOMAIN queue = 1..Len(queue)
    BY DEF Typed, CollectorState
  <1>1. CASE Known(p)
    BY <1>1, KnownStays DEF Kept
  <1> SUFFICES ASSUME collector.pc # "ended", OnItsWay(p), ~Known(p)
               PROVE  Kept(p)'
    BY <1>1 DEF Kept
  <1>2. CASE UNCHANGED <<queue, collector>>
    BY <1>2 DEF Kept, OnItsWay
  <1>3. ASSUME NEW m, queue' = Append(queue, m), UNCHANGED collector
        PROVE  Kept(p)'
    <2>1. \A i \in DOMAIN queue : i \in DOMAIN queue' /\ queue'[i] = queue[i]
      BY <1>0, <1>3
    <2> QED
      BY <1>3, <2>1 DEF Kept, OnItsWay
  <1>4. CASE \E q \in Pids : Inside(q)
    BY <1>0, <1>2, <1>4, Insides DEF Elsewhere
  <1>5. CASE \E q \in Pids, t \in Threads : SendSucceeds(q, t)
    BY <1>0, <1>3, <1>5, Sent
  <1>6. CASE \E q \in Pids, t \in Threads : SendStalls(q, t) \/ SendRefused(q, t)
    BY <1>0, <1>2, <1>3, <1>6, Refused
  <1>7. CASE \E q \in Pids, t \in Threads : OpenTemporary(q, t)
    BY <1>0, <1>2, <1>7, Opened
  <1>8. CASE \E q \in Pids, t \in Threads : ReplaceFile(q, t)
    BY <1>0, <1>2, <1>8, Replaced
  <1>9. CASE LimitReached
    BY <1>0, <1>9, Limited DEF Kept, Known
  <1>10. CASE AcceptEnds
    <2>1. collector.pc = "top" /\ queue = <<>>
      BY <1>10, Ends
    <2> QED
      BY <2>1 DEF OnItsWay
  <1>11. CASE Receive
    <2>1. /\ collector.pc = "top" /\ Len(queue') = Len(queue) - 1 /\ queue' \in Seq(Messages)
          /\ \A j \in 1..Len(queue') : queue'[j] = queue[j + 1]
          /\ \/ collector'.pc = "store" /\ collector'.msg[1] = queue[1]
             \/ /\ collector'.pc = "top"
                /\ queue[1].whole => collector'.dropped # {} \/ collector'.errors > 0
      BY <1>11, Received
    <2>2. PICK i \in DOMAIN queue : queue[i].pid = p /\ queue[i].whole
      BY <2>1 DEF OnItsWay
    <2>3. CASE i = 1
      BY <2>1, <2>2, <2>3 DEF Kept, Known, OnItsWay
    <2>4. CASE i # 1
      <3>1. i - 1 \in 1..Len(queue') /\ (i - 1) + 1 = i
        BY <1>0, <2>1, <2>2, <2>4
      <3>2. i - 1 \in DOMAIN queue' /\ queue'[i - 1] = queue[i]
        BY <2>1, <3>1
      <3> QED
        BY <2>1, <2>2, <3>2 DEF Kept, OnItsWay
    <2> QED
      BY <2>3, <2>4
  <1>12. CASE Store
    <2>1. /\ collector'.pc = "top" /\ UNCHANGED queue
          /\ \/ files'[collector.msg[1].pid] \in Reports
             \/ collector'.errors = collector.errors + 1
      BY <1>12, Stored DEF Messages
    <2>2. CASE collector.msg[1].pid = p
      BY <1>0, <2>1, <2>2, WhatIsAReport DEF Kept, Known
    <2>3. CASE collector.msg[1].pid # p
      BY <2>1, <2>3 DEF Kept, OnItsWay
    <2> QED
      BY <2>2, <2>3
  <1>13. CASE ControlStep
    <2>1. /\ collector'.pc = collector.pc /\ collector'.msg = collector.msg
          /\ queue' = queue \/ control.pc = "close"
      BY <1>13, Controlled
    <2>2. control.pc # "close"
      BY DEF ControlInv, Known
    <2> QED
      BY <2>1, <2>2 DEF Kept, OnItsWay
  <1> QED
    BY <1>2, <1>4, <1>5, <1>6, <1>7, <1>8, <1>9, <1>10, <1>11, <1>12, <1>13, Steps
    DEF vars, CollectorStep

\* A step that tells p that its report is published has sent it or stored it, and it
\* is one of the capture.
LEMMA NewlyHeard ==
  ASSUME Typed, ControlInv, \A p \in Pids : LocalInv(p), [Next]_vars, NEW p \in Pids,
         interp'[p].heard, ~interp[p].heard
  PROVE  Kept(p)' /\ ~Stopping
  <1>0. /\ TypeOK /\ queue \in Seq(Messages) /\ Len(queue) \in Nat
        /\ DOMAIN queue = 1..Len(queue)
    BY DEF Typed
  <1>1. ASSUME NEW q \in Pids, Inside(q)
        PROVE  FALSE
    <2>1. Only(q) /\ interp'[q].heard = interp[q].heard
      BY <1>0, <1>1, Insides
    <2> QED
      BY <2>1 DEF Only, Alone
  <1>2. ASSUME NEW q \in Pids, NEW t \in Threads, SendSucceeds(q, t)
        PROVE  Kept(p)' /\ ~Stopping
    <2>1. /\ Only(q) /\ Answers(q, t, TRUE) /\ listener = "open" /\ UNCHANGED collector
          /\ Message(q, t, TRUE) \in Messages
          /\ Message(q, t, TRUE).pid = q /\ Message(q, t, TRUE).whole
          /\ queue' = Append(queue, Message(q, t, TRUE))
      BY <1>0, <1>2, Sent
    <2>2. p = q
      BY <2>1 DEF Only, Alone
    <2>3. ~Stopping
      BY <2>1, <2>2 DEF Answers
    <2>4. collector.pc # "ended"
      BY <2>1, <2>3 DEF ControlInv
    <2>5. /\ Len(queue) + 1 \in DOMAIN queue'
          /\ queue'[Len(queue) + 1] = Message(q, t, TRUE)
      <3> DEFINE m == Message(q, t, TRUE)
      <3>1. m \in Messages /\ queue' = Append(queue, m)
        BY <2>1
      <3> HIDE DEF m
      <3>2. Len(queue) + 1 \in DOMAIN queue' /\ queue'[Len(queue) + 1] = m
        BY <1>0, <3>1
      <3> QED
        BY <3>2 DEF m
    <2> QED
      BY <2>1, <2>2, <2>3, <2>4, <2>5 DEF Kept, OnItsWay
  <1>3. ASSUME NEW q \in Pids, NEW t \in Threads, SendStalls(q, t) \/ SendRefused(q, t)
        PROVE  FALSE
    BY <1>0, <1>3, Refused
  <1>4. ASSUME NEW q \in Pids, NEW t \in Threads, OpenTemporary(q, t)
        PROVE  FALSE
    <2>1. Only(q) /\ (UNCHANGED interp \/ Answers(q, t, FALSE))
      BY <1>0, <1>4, Opened
    <2> QED
      BY <2>1 DEF Only, Alone, Answers
  <1>5. ASSUME NEW q \in Pids, NEW t \in Threads, ReplaceFile(q, t)
        PROVE  Kept(p)' /\ ~Stopping
    <2>1. /\ Only(q) /\ Answers(q, t, tmp[q] # "none")
          /\ tmp[q] # "none" => files'[q] \in Reports
      BY <1>0, <1>5, Replaced
    <2>2. p = q
      BY <2>1 DEF Only, Alone
    <2>3. tmp[q] # "none" /\ ~Stopping
      BY <2>1, <2>2 DEF Answers
    <2> QED
      BY <2>1, <2>2, <2>3, WhatIsAReport DEF Kept, Known
  <1> QED
    BY <1>1, <1>2, <1>3, <1>4, <1>5, Steps DEF vars

LEMMA HeardStep ==
  ASSUME Typed, ControlInv, \A p \in Pids : LocalInv(p), HeardInv, [Next]_vars
  PROVE  HeardInv'
  <1>1. ASSUME NEW p \in Pids, interp'[p].heard
        PROVE  Kept(p)'
    <2>1. CASE interp[p].heard
      BY <2>1, KeptStays DEF HeardInv
    <2>2. CASE ~interp[p].heard
      BY <1>1, <2>2, NewlyHeard
    <2> QED
      BY <2>1, <2>2
  <1> QED
    BY <1>1 DEF HeardInv

-----------------------------------------------------------------------------
(* What the loader calls complete.                                         *)

LEMMA Loading ==
  ASSUME Typed, ControlInv, HeardInv, LoadProfile
  PROVE  CompleteIsFinal'
  <1>1. PICK chosen \in SUBSET Pids :
          /\ Selection(chosen)
          /\ control' = [control EXCEPT !.pc = "loaded",
               !.result = <<[status |-> Status(chosen), errors |-> collector.errors,
                             docs |-> [p \in chosen |-> files[p]]]>>]
    BY DEF LoadProfile
  <1> DEFINE docs == [p \in chosen |-> files[p]]
             loaded == [status |-> Status(chosen), errors |-> collector.errors, docs |-> docs]
             one == <<loaded>>
  <1>2. control'.result = one /\ control'.hurried = control.hurried
    <2>1. control' = [control EXCEPT !.pc = "loaded", !.result = one]
      BY <1>1
    <2>2. control = [pc |-> control.pc, hurried |-> control.hurried, result |-> control.result]
      BY DEF Typed
    <2> HIDE DEF one
    <2> QED
      BY <2>1, <2>2
  <1>3. /\ UNCHANGED <<interp, collector>> /\ collector.errors \in Nat
        /\ control.hurried \/ collector.pc = "ended"
    BY DEF LoadProfile, ControlInv, Typed, CollectorState
  <1>4. /\ DOMAIN one = {1} /\ one[1] = loaded /\ loaded.status = Status(chosen)
        /\ loaded.errors = collector.errors /\ loaded.docs = docs
    OBVIOUS
  <1>5. ASSUME Status(chosen) = "complete", collector.errors = 0, ~control.hurried,
               NEW p \in Pids, interp[p].heard
        PROVE  p \in chosen /\ files[p].kind = "final"
    <2>1. chosen = Candidates /\ collector.dropped = {} /\ \A q \in chosen : files[q].kind = "final"
      BY <1>5 DEF Status
    <2>2. Known(p)
      BY <1>3, <1>5 DEF HeardInv, Kept
    <2>3. files[p] # NoReport
      BY <1>3, <1>5, <2>1, <2>2 DEF Known
    <2> QED
      BY <2>1, <2>3 DEF Candidates
  <1>6. ASSUME NEW i \in DOMAIN control'.result, control'.result[i].status = "complete",
               control'.result[i].errors = 0, ~control'.hurried,
               NEW p \in Pids, interp'[p].heard
        PROVE  /\ p \in DOMAIN control'.result[i].docs
               /\ control'.result[i].docs[p].kind = "final"
    <2>1. control'.result[i] = loaded
      BY <1>2, <1>4, <1>6
    <2>2. p \in chosen /\ files[p].kind = "final"
      BY <1>2, <1>3, <1>4, <1>5, <1>6, <2>1
    <2>3. p \in DOMAIN docs /\ docs[p].kind = "final"
      BY <2>2
    <2> QED
      BY <1>4, <2>1, <2>3
  <1> HIDE DEF one, loaded, docs
  <1> QED
    BY <1>6 DEF CompleteIsFinal

LEMMA CompleteStep ==
  ASSUME Typed, ControlInv, \A p \in Pids : LocalInv(p), HeardInv, CompleteIsFinal, [Next]_vars
  PROVE  CompleteIsFinal'
  <1>1. CASE UNCHANGED control
    <2>1. CASE Stopping
      <3>1. \A p \in Pids : interp'[p].heard => interp[p].heard
        BY <2>1, NewlyHeard
      <3> QED
        BY <1>1, <3>1 DEF CompleteIsFinal
    <2>2. CASE ~Stopping
      <3>1. control'.result = <<>>
        BY <1>1, <2>2 DEF ControlInv, Stopping
      <3>2. DOMAIN control'.result = {}
        BY <3>1
      <3> QED
        BY <3>2 DEF CompleteIsFinal
    <2> QED
      BY <2>1, <2>2
  <1>2. CASE ControlStep /\ ~LoadProfile
    <2>1. control'.pc # "loaded"
      <3>1. /\ control = [pc |-> control.pc, hurried |-> control.hurried,
                          result |-> control.result]
        BY DEF Typed
      <3>2. CASE JoinCollector
        BY <3>1, <3>2 DEF JoinCollector
      <3>3. CASE StopCollection
        BY <3>1, <3>3 DEF StopCollection
      <3>4. CASE CloseListener
        BY <3>1, <3>4 DEF CloseListener
      <3>5. CASE RejoinCollector
        BY <3>1, <3>5 DEF RejoinCollector
      <3> QED
        BY <1>2, <3>2, <3>3, <3>4, <3>5 DEF ControlStep
    <2>2. control'.result = <<>>
      BY <1>2, <2>1, Controlled DEF ControlInv
    <2>3. DOMAIN control'.result = {}
      BY <2>2
    <2> QED
      BY <2>3 DEF CompleteIsFinal
  <1>3. CASE LoadProfile
    BY <1>3, Loading
  <1>4. ControlStep \/ UNCHANGED control
    <2>0. TypeOK
      BY DEF Typed
    <2>1. CASE \E p \in Pids : Inside(p)
      BY <2>0, <2>1, Insides DEF Elsewhere
    <2>2. CASE \E p \in Pids, t \in Threads : SendSucceeds(p, t)
      BY <2>0, <2>2, Sent
    <2>3. CASE \E p \in Pids, t \in Threads : SendStalls(p, t) \/ SendRefused(p, t)
      BY <2>0, <2>3, Refused
    <2>4. CASE \E p \in Pids, t \in Threads : OpenTemporary(p, t)
      BY <2>0, <2>4, Opened
    <2>5. CASE \E p \in Pids, t \in Threads : ReplaceFile(p, t)
      BY <2>0, <2>5, Replaced
    <2>6. CASE CollectorStep
      BY <2>6 DEF CollectorStep, LimitReached, AcceptEnds, Receive, Store
    <2> QED
      BY <2>1, <2>2, <2>3, <2>4, <2>5, <2>6, Steps DEF vars
  <1> QED
    BY <1>1, <1>2, <1>3, <1>4

-----------------------------------------------------------------------------
(* Types.                                                                  *)

QueueOK == queue \in Seq(Messages) /\ Len(queue) <= Backlog
CollectorOK ==
  /\ collector \in CollectorState /\ collector.messages <= MaxMessages
  /\ IsFiniteSet(collector.accepted) /\ Cardinality(collector.accepted) <= limit
  /\ collector.accepted \cap collector.dropped = {}
ControlOK ==
  /\ control = [pc |-> control.pc, hurried |-> control.hurried, result |-> control.result]
  /\ control.pc \in {"capture", "join", "close", "rejoin", "load", "loaded"}
  /\ control.hurried \in BOOLEAN
FilesOK ==
  /\ tmp \in [Pids -> Threads \cup {"none"}]
  /\ files \in [Pids -> Reports \cup {NoReport, Torn}]
  /\ faults \in 0..MaxFaults
OtherOK == listener \in {"open", "closed", "absent"} /\ limit \in Nat \ {0}

LEMMA PartsTyped ==
  ASSUME PubOK', InterpOK', QueueOK', CollectorOK', ControlOK', FilesOK', OtherOK'
  PROVE  Typed'
  <1>1. \A i \in DOMAIN queue' : queue'[i] \in Messages
    BY DEF QueueOK
  <1>2. TypeOK'
    BY <1>1 DEF TypeOK, PubOK, InterpOK, PubState, InterpState, Pcs, QueueOK, CollectorOK,
                ControlOK, FilesOK, OtherOK, Messages, CollectorState
  <1> QED
    BY <1>2 DEF Typed, QueueOK, CollectorOK, ControlOK, OtherOK

LEMMA TypedParts ==
  ASSUME Typed
  PROVE  PubOK /\ InterpOK /\ QueueOK /\ CollectorOK /\ ControlOK /\ FilesOK /\ OtherOK
  <1>1. PubOK /\ InterpOK
    BY TypesOfAll DEF Typed
  <1> QED
    BY <1>1 DEF Typed, TypeOK, QueueOK, CollectorOK, ControlOK, FilesOK, OtherOK

LEMMA Appended ==
  ASSUME QueueOK, NEW m \in Messages, Len(queue) < Backlog, queue' = Append(queue, m)
  PROVE  QueueOK'
  <1>1. queue' \in Seq(Messages) /\ Len(queue') = Len(queue) + 1 /\ Len(queue) \in Nat
    BY DEF QueueOK
  <1> QED
    BY <1>1, TransportAssumption DEF QueueOK

LEMMA Emptied ==
  ASSUME queue' = <<>>
  PROVE  QueueOK'
  <1>1. queue' \in Seq(Messages) /\ Len(queue') = 0
    OBVIOUS
  <1> QED
    BY <1>1, TransportAssumption DEF QueueOK

LEMMA TypeStep ==
  ASSUME Typed, ControlInv, \A p \in Pids : LocalInv(p), [Next]_vars
  PROVE  Typed'
  <1>0. /\ PubOK /\ InterpOK /\ QueueOK /\ CollectorOK /\ ControlOK /\ FilesOK /\ OtherOK
        /\ TypeOK
    BY TypedParts DEF Typed
  <1>1. UNCHANGED <<interp, pub>> => PubOK' /\ InterpOK'
    BY <1>0 DEF PubOK, InterpOK
  <1>2. UNCHANGED queue => QueueOK'
    BY <1>0 DEF QueueOK
  <1>3. UNCHANGED <<collector, limit>> => CollectorOK'
    BY <1>0 DEF CollectorOK
  <1>4. UNCHANGED control => ControlOK'
    BY <1>0 DEF ControlOK
  <1>5. UNCHANGED <<tmp, files, faults>> => FilesOK'
    BY <1>0 DEF FilesOK
  <1>6. UNCHANGED <<listener, limit>> => OtherOK'
    BY <1>0 DEF OtherOK
  <1>7. ASSUME NEW p \in Pids, Inside(p)
        PROVE  Typed'
    BY <1>0, <1>2, <1>3, <1>4, <1>5, <1>6, <1>7, Insides, PartsTyped DEF Elsewhere, Only, Alone
  <1>8. ASSUME NEW p \in Pids, NEW t \in Threads, SendSucceeds(p, t)
        PROVE  Typed'
    <2>1. /\ Only(p) /\ Len(queue) < Backlog
          /\ Message(p, t, TRUE) \in Messages /\ queue' = Append(queue, Message(p, t, TRUE))
          /\ UNCHANGED <<tmp, files, listener, collector, control, limit, faults>>
      BY <1>0, <1>8, Sent
    <2>2. QueueOK'
      BY <1>0, <2>1, Appended
    <2> QED
      BY <1>3, <1>4, <1>5, <1>6, <2>1, <2>2, PartsTyped DEF Only, Alone
  <1>9. ASSUME NEW p \in Pids, NEW t \in Threads, SendStalls(p, t) \/ SendRefused(p, t)
        PROVE  Typed'
    <2>1. /\ Only(p) /\ faults' \in 0..MaxFaults
          /\ \/ UNCHANGED queue
             \/ /\ Message(p, t, FALSE) \in Messages /\ Len(queue) < Backlog
                /\ queue' = Append(queue, Message(p, t, FALSE))
          /\ UNCHANGED <<tmp, files, listener, collector, control, limit>>
      BY <1>0, <1>9, Refused
    <2>2. QueueOK'
      BY <1>0, <1>2, <2>1, Appended
    <2>3. FilesOK'
      BY <1>0, <2>1 DEF FilesOK
    <2> QED
      BY <1>3, <1>4, <1>6, <2>1, <2>2, <2>3, PartsTyped DEF Only, Alone
  <1>10. ASSUME NEW p \in Pids, NEW t \in Threads, OpenTemporary(p, t)
         PROVE  Typed'
    <2>1. /\ Only(p) /\ faults' \in 0..MaxFaults /\ tmp' \in [Pids -> Threads \cup {"none"}]
          /\ UNCHANGED <<files, queue, listener, collector, control, limit>>
      BY <1>0, <1>10, Opened
    <2>2. FilesOK'
      BY <1>0, <2>1 DEF FilesOK
    <2> QED
      BY <1>2, <1>3, <1>4, <1>6, <2>1, <2>2, PartsTyped DEF Only, Alone
  <1>11. ASSUME NEW p \in Pids, NEW t \in Threads, ReplaceFile(p, t)
         PROVE  Typed'
    <2>1. /\ Only(p) /\ tmp' \in [Pids -> Threads \cup {"none"}]
          /\ files' \in [Pids -> Reports \cup {NoReport, Torn}]
          /\ UNCHANGED <<queue, listener, collector, control, limit, faults>>
      BY <1>0, <1>11, Replaced
    <2>2. FilesOK'
      BY <1>0, <2>1 DEF FilesOK
    <2> QED
      BY <1>2, <1>3, <1>4, <1>6, <2>1, <2>2, PartsTyped DEF Only, Alone
  <1>12. CASE LimitReached
    <2>1. /\ collector' \in CollectorState /\ collector'.messages = collector.messages
          /\ collector'.accepted = collector.accepted
          /\ collector'.dropped = collector.dropped
          /\ listener' = "closed" /\ queue' = <<>>
          /\ UNCHANGED <<interp, pub, tmp, files, control, limit, faults>>
      BY <1>12, Limited
    <2>2. CollectorOK'
      BY <1>0, <2>1 DEF CollectorOK
    <2>3. QueueOK' /\ OtherOK' /\ PubOK' /\ InterpOK'
      BY <1>0, <1>1, <2>1, Emptied DEF OtherOK
    <2> QED
      BY <1>4, <1>5, <2>1, <2>2, <2>3, PartsTyped
  <1>13. CASE AcceptEnds
    <2>1. /\ collector' \in CollectorState /\ collector'.messages = collector.messages
          /\ collector'.accepted = collector.accepted
          /\ collector'.dropped = collector.dropped
          /\ UNCHANGED <<interp, pub, tmp, files, queue, listener, control, limit, faults>>
      BY <1>13, Ends
    <2>2. CollectorOK'
      BY <1>0, <2>1 DEF CollectorOK
    <2>3. PubOK' /\ InterpOK'
      BY <1>0, <1>1, <2>1
    <2> QED
      BY <1>2, <1>4, <1>5, <1>6, <2>1, <2>2, <2>3, PartsTyped
  <1>14. CASE Receive
    <2>1. /\ queue' \in Seq(Messages) /\ Len(queue) \in Nat /\ Len(queue') = Len(queue) - 1
          /\ collector' \in CollectorState /\ collector'.messages <= MaxMessages
          /\ IsFiniteSet(collector'.accepted) /\ Cardinality(collector'.accepted) <= limit
          /\ collector'.accepted \cap collector'.dropped = {}
          /\ UNCHANGED <<interp, pub, tmp, files, listener, control, limit, faults>>
      BY <1>14, Received
    <2>2. CollectorOK'
      BY <2>1 DEF CollectorOK
    <2>3. QueueOK'
      <3>1. Len(queue) <= Backlog /\ Backlog \in Nat
        BY <1>0, TransportAssumption DEF QueueOK
      <3>2. Len(queue') <= Backlog
        BY <2>1, <3>1
      <3> QED
        BY <2>1, <3>2 DEF QueueOK
    <2>4. PubOK' /\ InterpOK'
      BY <1>0, <1>1, <2>1
    <2> QED
      BY <1>4, <1>5, <1>6, <2>1, <2>2, <2>3, <2>4, PartsTyped
  <1>15. CASE Store
    <2>1. /\ collector' \in CollectorState /\ collector'.messages = collector.messages
          /\ collector'.accepted = collector.accepted
          /\ collector'.dropped = collector.dropped
          /\ files' \in [Pids -> Reports \cup {NoReport, Torn}]
          /\ UNCHANGED faults \/ faults' \in 0..MaxFaults
          /\ UNCHANGED <<interp, pub, tmp, queue, listener, control, limit>>
      BY <1>15, Stored
    <2>2. CollectorOK'
      BY <1>0, <2>1 DEF CollectorOK
    <2>3. FilesOK'
      BY <1>0, <2>1 DEF FilesOK
    <2>4. PubOK' /\ InterpOK'
      BY <1>0, <1>1, <2>1
    <2> QED
      BY <1>2, <1>4, <1>6, <2>1, <2>2, <2>3, <2>4, PartsTyped
  <1>16. CASE ControlStep
    <2>1. /\ collector' \in CollectorState /\ collector'.messages = collector.messages
          /\ collector'.accepted = collector.accepted
          /\ collector'.dropped = collector.dropped
          /\ \/ queue' = queue /\ listener' = listener
             \/ queue' = <<>> /\ listener' = "closed"
          /\ control' = [pc |-> control'.pc, hurried |-> control'.hurried,
                         result |-> control'.result]
          /\ control'.hurried \in BOOLEAN
          /\ control'.pc \in {"capture", "join", "close", "rejoin", "load", "loaded"}
          /\ UNCHANGED <<interp, pub, tmp, files, limit, faults>>
      BY <1>16, Controlled
    <2>2. CollectorOK'
      BY <1>0, <2>1 DEF CollectorOK
    <2>3. ControlOK'
      BY <2>1 DEF ControlOK
    <2>4. QueueOK' /\ OtherOK'
      BY <1>0, <1>2, <2>1, Emptied DEF OtherOK
    <2>5. PubOK' /\ InterpOK'
      BY <1>0, <1>1, <2>1
    <2> QED
      BY <1>5, <2>1, <2>2, <2>3, <2>4, <2>5, PartsTyped
  <1>17. CASE UNCHANGED vars
    BY <1>0, <1>1, <1>2, <1>3, <1>4, <1>5, <1>6, <1>17, PartsTyped DEF vars
  <1> QED
    BY <1>7, <1>8, <1>9, <1>10, <1>11, <1>12, <1>13, <1>14, <1>15, <1>16, <1>17, Steps
    DEF CollectorStep

-----------------------------------------------------------------------------
(* The theorems.                                                           *)

LEMMA Initially ==
  ASSUME Init
  PROVE  IInv
  <1>1. /\ interp = [p \in Pids |-> Unborn] /\ tmp = [p \in Pids |-> "none"]
        /\ pub = [p \in Pids |-> [t \in Threads |-> [pc |-> "off", doc |-> NoReport]]]
        /\ files = [p \in Pids |-> NoReport] /\ queue = <<>>
        /\ listener \in {"open", "absent"}
        /\ collector.pc = (IF listener = "open" THEN "top" ELSE "ended")
        /\ control = [pc |-> "capture", hurried |-> FALSE, result |-> <<>>]
        /\ limit \in FileLimits /\ faults = 0
    BY DEF Init
  <1>2. collector = [pc |-> collector.pc, msg |-> <<>>, messages |-> 0, errors |-> 0,
                     accepted |-> {}, dropped |-> {}, cut |-> FALSE]
    BY DEF Init
  <1>3. InterpOK
    <2>1. 0 \in 0..MaxCheckpoints /\ 0 \in 0..1
      BY TransportAssumption
    <2>2. Unborn \in InterpState
      BY <2>1 DEF Unborn, InterpState
    <2> QED
      BY <1>1, <2>2 DEF InterpOK
  <1>4. PubOK
    <2>1. [pc |-> "off", doc |-> NoReport] \in PubState
      BY IdleTyped DEF Pcs
    <2> QED
      BY <1>1, <2>1 DEF PubOK
  <1>5. Typed
    <2>1. limit \in Nat \ {0} /\ MaxMessages \in Nat /\ MaxFaults \in Nat /\ Backlog \in Nat
      BY <1>1, TransportAssumption
    <2>2. queue \in Seq(Messages) /\ Len(queue) = 0 /\ DOMAIN queue = {}
      BY <1>1
    <2>3. /\ collector \in CollectorState /\ collector.messages = 0
          /\ collector.accepted = {} /\ collector.dropped = {}
      <3> DEFINE none == <<>>
                 pc == collector.pc
      <3>1. none \in Seq(Messages) /\ {} \in SUBSET Pids /\ FALSE \in BOOLEAN /\ 0 \in Nat
        OBVIOUS
      <3>2. collector = [pc |-> pc, msg |-> none, messages |-> 0, errors |-> 0,
                         accepted |-> {}, dropped |-> {}, cut |-> FALSE]
        BY <1>2
      <3>3. pc \in {"top", "store", "ended"}
        BY <1>1
      <3> HIDE DEF none, pc
      <3>4. collector.messages = 0 /\ collector.accepted = {} /\ collector.dropped = {}
        BY <3>2
      <3>5. collector \in CollectorState
        BY <3>1, <3>2, <3>3 DEF CollectorState
      <3> QED
        BY <3>4, <3>5
    <2>4. IsFiniteSet(collector.accepted) /\ Cardinality(collector.accepted) = 0
      BY <2>3, FS_EmptySet
    <2>5. 0 \in 0..MaxFaults
      BY <2>1
    <2>6. TypeOK
      BY <1>1, <1>3, <1>4, <2>1, <2>2, <2>3, <2>4, <2>5
      DEF TypeOK, PubOK, InterpOK, PubState, InterpState, Pcs, CollectorState
    <2> QED
      BY <1>1, <2>1, <2>2, <2>3, <2>4, <2>6 DEF Typed
  <1>6. ASSUME NEW p \in Pids
        PROVE  LifeInv(p) /\ ThreadInv(p) /\ NameInv(p)
    <2>1. /\ interp[p].life = "unborn" /\ interp[p].done = 0 /\ ~interp[p].stop
          /\ ~interp[p].heard
      BY <1>1 DEF Unborn
    <2>2. \A t \in Threads : pub[p][t].pc = "off"
      BY <1>1
    <2>3. files[p] # Torn
      BY <1>1 DEF NoReport, Torn, Report
    <2>4. LifeInv(p)
      BY <2>1, <2>2 DEF LifeInv
    <2>5. ThreadInv(p)
      BY <2>2 DEF ThreadInv, MainInv, SamplerInv, DocInv, Threads, Active
    <2>6. NameInv(p)
      BY <2>2, <2>3 DEF NameInv, Threads
    <2> QED
      BY <2>4, <2>5, <2>6
  <1>7. OrderInv
    <2>1. DOMAIN queue = {} /\ collector.pc # "store"
      BY <1>1
    <2>2. ASSUME NEW p \in Pids
          PROVE  Behind(p, files[p])
      <3>1. files[p].at = 0 /\ interp[p].done = 0 /\ \A t \in Threads : pub[p][t].pc = "off"
        BY <1>1 DEF NoReport, Report, Unborn
      <3> QED
        BY <3>1 DEF Behind
    <2> QED
      BY <2>1, <2>2 DEF OrderInv
  <1>8. HeardInv
    BY <1>1 DEF HeardInv, Unborn
  <1>9. ControlInv
    BY <1>1 DEF ControlInv
  <1>10. CompleteIsFinal
    <2>1. DOMAIN control.result = {}
      BY <1>1
    <2> QED
      BY <2>1 DEF CompleteIsFinal
  <1> QED
    BY <1>5, <1>6, <1>7, <1>8, <1>9, <1>10 DEF IInv

LEMMA Inductively ==
  ASSUME IInv, [Next]_vars
  PROVE  IInv'
  <1>1. /\ Typed /\ OrderInv /\ HeardInv /\ ControlInv /\ CompleteIsFinal
        /\ \A p \in Pids : LocalInv(p)
    BY DEF IInv, LocalInv
  <1>2. \A p \in Pids : LocalInv(p)'
    BY <1>1, LocalStep
  <1>3. \A p \in Pids : LifeInv(p)' /\ ThreadInv(p)' /\ NameInv(p)'
    BY <1>2 DEF LocalInv
  <1>4. Typed'
    BY <1>1, TypeStep
  <1>5. OrderInv'
    BY <1>1, OrderStep
  <1>6. HeardInv'
    BY <1>1, HeardStep
  <1>7. ControlInv'
    BY <1>1, ControlStepInv
  <1>8. CompleteIsFinal'
    BY <1>1, CompleteStep
  <1> QED
    BY <1>3, <1>4, <1>5, <1>6, <1>7, <1>8 DEF IInv

(* The invariant that the others rest on: what the two threads of an       *)
(* interpreter may be doing, who has its temporary file, in which order    *)
(* its reports are under way, and where a report is of which publish has   *)
(* returned True.                                                          *)
THEOREM Inductive == Spec => []IInv
  <1>1. Init => IInv
    BY Initially
  <1>2. IInv /\ [Next]_vars => IInv'
    BY Inductively
  <1> QED
    BY <1>1, <1>2, PTL DEF Spec

(* The loader finds whole reports under profile-<pid>.json, whichever      *)
(* threads fell back to the file and whoever unlinked the temporary file;  *)
(* and a profile it calls complete, without errors of the collector, has   *)
(* the final report of every interpreter to which publish returned True    *)
(* before the root ended, unless the collector was given up.               *)
THEOREM ReportsSound == Spec => []ReportsInv
  <1>1. IInv => ReportsInv
    BY DEF IInv, Typed, NameInv, ReportsInv, FallbackNeverTorn
  <1> QED
    BY <1>1, Inductive, PTL

LEMMA StoresInOrder ==
  ASSUME IInv, [Next]_vars, NEW p \in Pids, ~files[p].fallback, ~files'[p].fallback
  PROVE  Newer(p)
  <1>1. /\ Typed /\ TypeOK /\ OrderInv /\ ControlInv /\ \A q \in Pids : LocalInv(q)
    BY DEF IInv, LocalInv, Typed
  <1>2. files[p].at >= files[p].at
    <2>1. files[p] \in Reports \cup {NoReport, Torn}
      BY <1>1 DEF TypeOK
    <2>2. NoReport.at = 0 /\ Torn.at = 0
      BY DEF NoReport, Torn, Report
    <2>3. files[p].at \in Nat
      <3>1. CASE files[p] \in Reports
        BY <3>1, TransportAssumption DEF Reports
      <3> QED
        BY <2>1, <2>2, <3>1
    <2> QED
      BY <2>3
  <1>3. CASE files'[p] = files[p]
    BY <1>2, <1>3 DEF Newer
  <1>4. CASE Store
    <2>1. /\ collector.pc = "store"
          /\ p # collector.msg[1].pid => files'[p] = files[p]
          /\ \/ files'[collector.msg[1].pid] = collector.msg[1].doc
             \/ files' = files
      BY <1>1, <1>4, Stored
    <2>2. collector.msg[1].pid = p => Before(files[p], collector.msg[1].doc)
      BY <1>1, <2>1 DEF OrderInv
    <2> QED
      BY <1>3, <2>1, <2>2 DEF Newer, Before
  <1>5. CASE \E q \in Pids, t \in Threads : ReplaceFile(q, t)
    BY <1>1, <1>3, <1>5, Replaced DEF Only
  <1>6. CASE UNCHANGED files
    BY <1>3, <1>6
  <1>7. CASE \E q \in Pids : Inside(q)
    BY <1>1, <1>6, <1>7, Insides DEF Elsewhere
  <1>8. CASE \E q \in Pids, t \in Threads : SendSucceeds(q, t)
    BY <1>1, <1>6, <1>8, Sent
  <1>9. CASE \E q \in Pids, t \in Threads : SendStalls(q, t) \/ SendRefused(q, t)
    BY <1>1, <1>6, <1>9, Refused
  <1>10. CASE \E q \in Pids, t \in Threads : OpenTemporary(q, t)
    BY <1>1, <1>6, <1>10, Opened
  <1>11. CASE CollectorStep
    BY <1>4, <1>6, <1>11 DEF CollectorStep, LimitReached, AcceptEnds, Receive
  <1> QED
    BY <1>5, <1>6, <1>7, <1>8, <1>9, <1>10, <1>11, Steps DEF vars

(* _write_snapshot replaces a report that came through the socket, and     *)
(* that counts no callback errors, only by a later one of its interpreter, *)
(* although two threads send and neither waits for the other's message to  *)
(* be served.                                                              *)
THEOREM OrderKept == Spec => SocketOrderKept
  <1>1. IInv /\ [Next]_vars =>
          \A p \in Pids : ~files[p].fallback /\ ~files'[p].fallback => Newer(p)
    BY StoresInOrder
  <1> QED
    BY <1>1, Inductive, PTL DEF Spec, SocketOrderKept

=============================================================================
