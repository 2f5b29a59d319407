-------------------------- MODULE SemanticBoundaries --------------------------
(***************************************************************************)
(* The observer that a captured Python process carries: wrappers around    *)
(* Popen, http.client, sockets, handshakes, executors, tasks, database and *)
(* server operations reserve a record in a bounded table, run the original *)
(* and finish the record.  A record is found again through the object that *)
(* the calls are about, calls nest, a call may end in another thread, and  *)
(* a fork copies the tables.                                               *)
(*                                                                         *)
(* Identifiers count from 1 here; 0 is None.  A context is a thread or an  *)
(* asyncio task: contexts have their own suppressions, and only a wrapper  *)
(* that never awaits marks the thread's active record.                     *)
(***************************************************************************)
EXTENDS Naturals, Sequences, SequencesExt, FiniteSets

CONSTANTS
  Limit,       \* MAX_..._RECORDS: the size of a family's table
  MaxStarts,   \* bound: operations reserved
  MaxDepth     \* bound: wrapped calls nested in a context

Contexts == {"one", "two"}
Families == {"subprocess", "http", "network", "setup", "logical"}

VARIABLES
  used,     \* families that the program's operations belong to
  records,  \* of each family: the tables, and the fate of the real operation
  dropped,  \* of each family: what the full table refused
  active,   \* _active_record_keys: the records each thread is waiting in
  muted,    \* the context variables: families that are suppressed
  process,  \* a Popen object: its entry in _process_record_ids, and the real child
  conn,     \* an HTTPConnection: its entry, the request it carries, and if it is busy
  tls,      \* an SSL object: whether it has an entry, and the entry's record
  calls,    \* the wrapped calls in progress in each context
  pending,  \* records of submitted tasks whose callback has not run
  begun,    \* ghost: operations of each family that the program began
  forked    \* ghost: records numbered like one that was open when the process forked

boundaryVars == <<used, records, dropped, active, muted, process, conn, tls, calls, pending, begun, forked>>

Fresh == [outcome |-> "unknown", fate |-> "running", status |-> "none", child |-> FALSE]

\* Families meet only where a request opens a connection.
Programs == {{"subprocess"}, {"http", "network"}, {"setup"}, {"logical"}}

BoundaryInit ==
  /\ used = {}
  /\ records = [f \in Families |-> <<>>]
  /\ dropped = [f \in Families |-> 0]
  /\ active = [c \in Contexts |-> <<>>]
  /\ muted = [c \in Contexts |-> {}]
  /\ process = [id |-> 0, child |-> 0, state |-> "none"]
  /\ conn = [id |-> 0, request |-> 0, busy |-> FALSE]
  /\ tls = [known |-> FALSE, id |-> 0]
  /\ calls = [c \in Contexts |-> <<>>]
  /\ pending = {}
  /\ begun = [f \in Families |-> 0]
  /\ forked = {}

-----------------------------------------------------------------------------
(* The tables.                                                             *)

Begun(f) == begun' = [begun EXCEPT ![f] = @ + 1]

Room(f) == f \in used /\ Cardinality(UNION {{g} \X (1..begun[g]) : g \in used}) < MaxStarts

Full(f) == Len(records[f]) >= Limit

\* The identifier that a reservation in family f returns.
NewId(f) == IF Full(f) THEN 0 ELSE Len(records[f]) + 1

\* _reserve_record, _reserve_http_boundary, ...
Reserve(f) ==
  IF Full(f)
  THEN dropped' = [dropped EXCEPT ![f] = @ + 1] /\ UNCHANGED records
  ELSE records' = [records EXCEPT ![f] = Append(@, Fresh)] /\ UNCHANGED dropped

\* Only a request that was closed early is finished again, with its answer.
Finished(r, outcome) ==
  IF \/ r.outcome = "unknown"
     \/ r.outcome = "closed" /\ outcome \in {"request_error", "response"}
  THEN [r EXCEPT !.outcome = outcome] ELSE r

\* A table after record id finished, if it has it.
Finish(table, id, outcome) ==
  IF id \in DOMAIN table THEN [table EXCEPT ![id] = Finished(@, outcome)] ELSE table

\* The real operation behind record id ended so.
Ended(table, id, fate) ==
  IF id \in DOMAIN table /\ table[id].fate = "running"
  THEN [table EXCEPT ![id].fate = fate] ELSE table

Settle(f, id, outcome) ==
  records' = [records EXCEPT ![f] = Finish(Ended(@, id, outcome), id, outcome)]

-----------------------------------------------------------------------------
(* Wrapped calls.                                                          *)

Push(s, key) == IF key = <<>> THEN s ELSE Append(s, key)

\* _end_active: the top, or else the last entry with this key.
EndActive(s, key) ==
  IF ~Contains(s, key) THEN s
  ELSE LET last == CHOOSE i \in DOMAIN s : s[i] = key /\ \A j \in DOMAIN s : s[j] = key => j <= i
       IN RemoveAt(s, last)

Key(f, id) == IF id = 0 THEN <<>> ELSE <<f, id>>

\* mute: what the call suppresses; token: what it must make visible again.
EnterCall(c, hook, id, key, mute) ==
  /\ Len(calls[c]) < MaxDepth
  /\ calls' = [calls EXCEPT ![c] = Append(@, [hook |-> hook, id |-> id, key |-> key,
       token |-> mute \ muted[c], old |-> FALSE])]
  /\ active' = [active EXCEPT ![c] = Push(@, key)]
  /\ muted' = [muted EXCEPT ![c] = @ \union mute]

In(c, hooks) == calls[c] # <<>> /\ Last(calls[c]).hook \in hooks
Top(c) == Last(calls[c])

\* The finally clauses: the tokens are given back.
LeaveCall(c) ==
  /\ calls' = [calls EXCEPT ![c] = Front(@)]
  /\ active' = [active EXCEPT ![c] = EndActive(@, Top(c).key)]
  /\ muted' = [muted EXCEPT ![c] = @ \ Top(c).token]

(* Operations that one call begins and ends.  marks: the thread waits in   *)
(* the record; mutes: families the original must not report again; heeds:  *)
(* whether a suppression of its own family hides it.                       *)
Hook(family, marks, mutes, heeds, good, bad) ==
  [family |-> family, marks |-> marks, mutes |-> mutes, heeds |-> heeds, good |-> good, bad |-> bad]

Resolve      == Hook("setup", TRUE, {}, FALSE, "completed", "setup_error")
Connect      == Hook("network", TRUE, {}, TRUE, "connected", "connect_error")
Stream       == Hook("network", FALSE, {"network"}, TRUE, "connected", "connect_error")
Fetch        == Hook("http", TRUE, {"network"}, FALSE, "response", "request_error")
FetchAsync   == [Fetch EXCEPT !.marks = FALSE]
Operate      == Hook("logical", TRUE, {"logical"}, TRUE, "completed", "operation_error")
OperateAsync == [Operate EXCEPT !.marks = FALSE]
Submit       == Hook("logical", FALSE, {"logical"}, TRUE, "completed", "operation_error")
Serve        == Hook("logical", TRUE, {}, FALSE, "completed", "operation_error")
ServeAsync   == [Serve EXCEPT !.marks = FALSE]

Hooks == [resolve |-> Resolve, connect |-> Connect, stream |-> Stream, fetch |-> Fetch,
          fetchAsync |-> FetchAsync, operate |-> Operate, operateAsync |-> OperateAsync,
          submit |-> Submit, serve |-> Serve, serveAsync |-> ServeAsync]

Serving == {"serve", "serveAsync"}

Visible(c, h) == Hooks[h].heeds => Hooks[h].family \notin muted[c]

\* Does a call in progress stand for the operations of family f in it?
Covered(c, f) ==
  \E i \in DOMAIN calls[c] : ~calls[c][i].old /\
    CASE f = "network" -> calls[c][i].hook \in {"stream", "fetch", "fetchAsync", "send", "answer"}
      [] f = "logical" -> calls[c][i].hook \in {"operate", "operateAsync", "submit"}
      [] OTHER -> FALSE

BeginCall(c, h) ==
  LET f == Hooks[h].family IN
  /\ Room(f)
  /\ IF Visible(c, h)
     THEN /\ Reserve(f)
          /\ EnterCall(c, h, NewId(f), IF Hooks[h].marks THEN Key(f, NewId(f)) ELSE <<>>, Hooks[h].mutes)
     ELSE UNCHANGED <<records, dropped>> /\ EnterCall(c, "plain", 0, <<>>, {})
  /\ IF Hooks[h].heeds /\ Covered(c, f) THEN UNCHANGED begun ELSE Begun(f)
  /\ UNCHANGED <<process, conn, tls, pending, forked>>

\* start_response: the status of the request, until it is finished.
ServerStatus(c, status) ==
  /\ In(c, Serving) /\ Top(c).id \in DOMAIN records["logical"]
  /\ records["logical"][Top(c).id].outcome = "unknown"
  /\ records' = [records EXCEPT !["logical"][Top(c).id].status = status]
  /\ UNCHANGED <<dropped, active, muted, process, conn, tls, calls, pending, begun, forked>>

Served(id) ==
  IF id \in DOMAIN records["logical"] /\ records["logical"][id].status = "failed"
  THEN "operation_error" ELSE "completed"

End(c, ok) ==
  /\ In(c, DOMAIN Hooks \union {"plain"})
  /\ LeaveCall(c)
  /\ LET h == Top(c).hook
         id == Top(c).id IN
     IF h = "plain" THEN UNCHANGED <<records, pending>>
     ELSE IF h = "submit" /\ ok
     THEN pending' = (IF id = 0 THEN pending ELSE pending \union {id}) /\ UNCHANGED records
     ELSE /\ Settle(Hooks[h].family, id,
                    IF h \in Serving THEN Served(id) ELSE IF ok THEN Hooks[h].good ELSE Hooks[h].bad)
          /\ UNCHANGED pending
  /\ UNCHANGED <<dropped, process, conn, tls, begun, forked>>

\* create_task, ensure_future: only for a caller of the application.
Schedule(c) ==
  /\ Room("logical") /\ "logical" \notin muted[c]
  /\ Reserve("logical") /\ Begun("logical")
  /\ pending' = IF Full("logical") THEN pending ELSE pending \union {NewId("logical")}
  /\ UNCHANGED <<active, muted, process, conn, tls, calls, forked>>

\* The done callback of a future or task, in whatever thread completes it.
TaskDone(id, outcome) ==
  /\ id \in pending
  /\ pending' = pending \ {id}
  /\ Settle("logical", id, outcome)
  /\ UNCHANGED <<dropped, active, muted, process, conn, tls, calls, begun, forked>>

-----------------------------------------------------------------------------
(* Popen: the program holds one object at a time, and the next one may get *)
(* the address of the last.                                                *)

InUse(hooks) == \E c \in Contexts : \E i \in DOMAIN calls[c] : calls[c][i].hook \in hooks

\* Seeded fault: a process that got no record keeps the entry of the last one.
AssociateOrKeep(id) == IF id = 0 THEN process.id ELSE id
Associate(id) == id

\* Popen(): the record is there before there is a child.
Launch(c) ==
  /\ Room("subprocess") /\ ~InUse({"launch", "wait"})
  /\ Begun("subprocess") /\ Reserve("subprocess")
  /\ LET id == NewId("subprocess") IN
     /\ process' = [id |-> Associate(id), child |-> id, state |-> "none"]
     /\ EnterCall(c, "launch", id, <<>>, {})
  /\ UNCHANGED <<conn, tls, pending, forked>>

Launched(c, ok) ==
  /\ In(c, {"launch"})
  /\ LeaveCall(c)
  /\ LET id == Top(c).id IN
     IF ok THEN /\ process' = [process EXCEPT !.state = "up"]
                /\ records' = [records EXCEPT !["subprocess"] =
                     IF id \in DOMAIN @ THEN [@ EXCEPT ![id].child = TRUE] ELSE @]
     ELSE /\ process' = [id |-> 0, child |-> 0, state |-> "none"]
          /\ Settle("subprocess", id, "launch_error")
  /\ UNCHANGED <<dropped, conn, tls, pending, begun, forked>>

ChildExits ==
  /\ process.state = "up"
  /\ process' = [process EXCEPT !.state = "dead"]
  /\ records' = [records EXCEPT !["subprocess"] = Ended(@, process.child, "exited")]
  /\ UNCHANGED <<dropped, active, muted, conn, tls, calls, pending, begun, forked>>

\* wait and communicate: the caller waits in the record.
Wait(c) ==
  /\ process.state # "none"
  /\ EnterCall(c, "wait", 0, Key("subprocess", process.id), {})
  /\ UNCHANGED <<records, dropped, process, conn, tls, pending, begun, forked>>

\* The record is looked up once the original has returned.
Reap ==
  /\ records' = [records EXCEPT !["subprocess"] = Finish(@, process.id, "exited")]
  /\ process' = [process EXCEPT !.id = 0]

\* A timeout, an interrupt, or communicate, leave the record alone.
WaitReturns(c, ok) ==
  /\ In(c, {"wait"})
  /\ LeaveCall(c)
  /\ IF ok THEN process.state = "dead" /\ Reap ELSE UNCHANGED <<records, process>>
  /\ UNCHANGED <<dropped, conn, tls, pending, begun, forked>>

Poll ==
  /\ process.state = "dead" /\ Reap
  /\ UNCHANGED <<dropped, active, muted, conn, tls, calls, pending, begun, forked>>

-----------------------------------------------------------------------------
(* http.client: a connection is used by one context at a time.             *)

Unused == ~InUse({"send", "answer"})

\* A second request while the first is unanswered raises CannotSendRequest.
PutRequest(c, ok) ==
  /\ Room("http") /\ Unused
  /\ ok => ~conn.busy
  /\ Begun("http")
  /\ LET closed == Finish(Ended(records["http"], conn.id, "closed"), conn.id, "closed")
         id == NewId("http") IN
     /\ dropped' = [dropped EXCEPT !["http"] = IF id = 0 THEN @ + 1 ELSE @]
     /\ records' = [records EXCEPT !["http"] = IF id = 0 THEN closed
          ELSE Append(closed, IF ok THEN Fresh
                 ELSE [Fresh EXCEPT !.outcome = "request_error", !.fate = "request_error"])]
     /\ conn' = IF ok THEN [id |-> id, request |-> id, busy |-> TRUE] ELSE [conn EXCEPT !.id = 0]
  /\ UNCHANGED <<active, muted, process, tls, calls, pending, forked>>

\* endheaders and getresponse: connects in them belong to the request.
Exchange(c, hook) ==
  /\ "http" \in used /\ Unused /\ (hook = "send" => conn.busy)
  /\ EnterCall(c, hook, conn.id, Key("http", conn.id), {"network"})
  /\ UNCHANGED <<records, dropped, process, conn, tls, pending, begun, forked>>

\* An error is the request's end, an answer too; headers sent are not.
ExchangeEnds(c, ok) ==
  /\ In(c, {"send", "answer"})
  /\ LeaveCall(c)
  /\ IF ok /\ Top(c).hook = "send" THEN conn.busy /\ UNCHANGED <<records, conn>>
     ELSE LET outcome == IF ok THEN "response" ELSE "request_error" IN
          /\ ok => conn.request = Top(c).id
          /\ records' = [records EXCEPT !["http"] =
               Finish(Ended(@, Top(c).id, outcome), Top(c).id, outcome)]
          /\ conn' = [id |-> 0, request |-> IF ok THEN 0 ELSE conn.request,
                      busy |-> IF ok THEN FALSE ELSE conn.busy]
  /\ UNCHANGED <<dropped, process, tls, pending, begun, forked>>

\* By the program, or by getresponse itself when the server will close.
CloseHttp(c) ==
  /\ "http" \in used
  /\ Unused \/ In(c, {"send", "answer"})
  /\ records' = [records EXCEPT !["http"] = Finish(
       IF In(c, {"send", "answer"}) THEN @ ELSE Ended(@, conn.id, "closed"), conn.id, "closed")]
  /\ conn' = [id |-> 0, request |-> IF In(c, {"send", "answer"}) THEN conn.request ELSE 0,
              busy |-> FALSE]
  /\ UNCHANGED <<dropped, active, muted, process, tls, calls, pending, begun, forked>>

-----------------------------------------------------------------------------
(* A handshake takes several calls when the socket does not block.         *)

HandshakeKnown == tls.known

Handshake(c) ==
  /\ Room("setup") /\ ~InUse({"shake"})
  /\ IF HandshakeKnown THEN UNCHANGED <<records, dropped>> ELSE Reserve("setup")
  /\ IF tls.known THEN UNCHANGED begun ELSE Begun("setup")
  /\ LET id == IF HandshakeKnown THEN tls.id ELSE NewId("setup") IN
     /\ tls' = [known |-> TRUE, id |-> id]
     /\ EnterCall(c, "shake", id, Key("setup", id), {})
  /\ UNCHANGED <<process, conn, pending, forked>>

HandshakeReturns(c, how) ==
  /\ In(c, {"shake"})
  /\ LeaveCall(c)
  /\ IF how = "want" THEN UNCHANGED <<records, tls>>
     ELSE Settle("setup", Top(c).id, how) /\ tls' = [known |-> FALSE, id |-> 0]
  /\ UNCHANGED <<dropped, process, conn, pending, begun, forked>>

-----------------------------------------------------------------------------

OpenRecords == {<<"logical", id>> : id \in pending}
  \union UNION {{<<IF calls[c][i].hook \in DOMAIN Hooks THEN Hooks[calls[c][i].hook].family
                   ELSE IF calls[c][i].hook = "shake" THEN "setup"
                   ELSE IF calls[c][i].hook = "wait" THEN "subprocess" ELSE "http", calls[c][i].id>> :
                 i \in DOMAIN calls[c]} : c \in Contexts}

\* reset_after_fork in the child, where only the forking context goes on; the
\* calls it is in keep the identifiers they were given before.
ForkObserver(c) ==
  /\ forked = {} /\ OpenRecords # {} /\ ~In(c, {"launch"})
  /\ forked' = OpenRecords
  /\ records' = [f \in Families |-> <<>>]
  /\ dropped' = [f \in Families |-> 0]
  /\ begun' = [f \in Families |-> 0]
  /\ active' = [d \in Contexts |-> <<>>]
  /\ muted' = [d \in Contexts |-> {}]
  /\ process' = [process EXCEPT !.id = 0, !.child = 0]
  /\ conn' = [conn EXCEPT !.id = 0, !.request = 0]
  /\ tls' = [known |-> FALSE, id |-> 0]
  /\ calls' = [d \in Contexts |-> IF d # c THEN <<>>
                ELSE [i \in DOMAIN calls[c] |-> [calls[c][i] EXCEPT !.old = TRUE]]]
  /\ UNCHANGED pending

Chosen ==
  /\ used = {} /\ used' \in Programs
  /\ UNCHANGED <<records, dropped, active, muted, process, conn, tls, calls, pending, begun, forked>>

Step ==
  \/ \E c \in Contexts :
       \/ \E h \in DOMAIN Hooks : BeginCall(c, h)
       \/ \E status \in {"fine", "failed"} : ServerStatus(c, status)
       \/ \E ok \in BOOLEAN : End(c, ok) \/ Launched(c, ok) \/ WaitReturns(c, ok) \/ PutRequest(c, ok) \/ ExchangeEnds(c, ok)
       \/ Launch(c) \/ Schedule(c) \/ Wait(c) \/ CloseHttp(c) \/ Handshake(c) \/ ForkObserver(c)
       \/ \E hook \in {"send", "answer"} : Exchange(c, hook)
       \/ \E how \in {"completed", "setup_error", "want"} : HandshakeReturns(c, how)
  \/ ChildExits \/ Poll
  \/ \E id \in pending : \E outcome \in {"completed", "operation_error"} : TaskDone(id, outcome)

BoundaryNext == Chosen \/ (Step /\ UNCHANGED used)

BoundarySpec == BoundaryInit /\ [][BoundaryNext]_boundaryVars

-----------------------------------------------------------------------------
(* What the controller's loader accepts; one record it rejects makes it    *)
(* reject every record of the family, of every process.                    *)

AcceptedLaunch(r) == r.outcome # "launch_error" => r.child

AcceptedOperation(r) ==
  /\ r.status = "failed" => r.outcome = "operation_error"
  /\ r.status = "fine" => r.outcome = "completed"

(* A checkpoint may be the last report of an interpreter that is killed:   *)
(* the loader accepts the tables at any moment, whatever is unfinished.    *)
SnapshotAccepted ==
  /\ \A id \in DOMAIN records["subprocess"] : AcceptedLaunch(records["subprocess"][id])
  /\ \A id \in DOMAIN records["logical"] : AcceptedOperation(records["logical"][id])

(* A record tells what became of its own operation: it is not finished     *)
(* while the operation runs, by another object's call or by another call   *)
(* on the same connection.  A request given up for the next one on its     *)
(* connection is closed, whatever the server still answers.  Records with  *)
(* the number of one that was open across a fork are excepted.             *)
OutcomeIsOwn ==
  \A f \in Families : \A id \in DOMAIN records[f] :
    LET r == records[f][id] IN
    (<<f, id>> \notin forked /\ r.outcome # "unknown") =>
      \/ r.outcome = r.fate
      \/ \E c \in Contexts : \E i \in DOMAIN calls[c] :
           calls[c][i].hook \in {"answer", "send"} /\ calls[c][i].id = id /\ r.outcome = "closed"

(* Every operation the program begins is a record or is counted as dropped, *)
(* once: not a second time for the connection its request opens, for the   *)
(* calls inside its own call, or for each call of one handshake.           *)
Accounted == \A f \in Families : Len(records[f]) + dropped[f] = begun[f]

(* An outcome, and a drop, is counted for the boundary that had it.        *)
BoundariesAreTrue == OutcomeIsOwn /\ Accounted
==============================================================================
