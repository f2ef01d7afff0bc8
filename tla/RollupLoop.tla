---------------------------- MODULE RollupLoop ----------------------------
(***************************************************************************)
(* The command line driving a remote machine through an epoch of inputs    *)
(* and a query (cartesi-machine.lua): the server is spawned, the machine   *)
(* created, and at every manual yield the input just processed is          *)
(* committed or rolled back by shutting down one of two servers and        *)
(* rebinding the other.  Another client reads from the same address all    *)
(* the while.                                                              *)
(*                                                                         *)
(* todo holds the remote calls and local steps the script has still to     *)
(* take before it next decides something; a call that fails drops them,    *)
(* as an error raised in Lua does.  A machine is the sequence of inputs it *)
(* has processed, what it stopped at and how many outputs it has emitted   *)
(* for the last input.  Reading the registers after a run is part of the   *)
(* run; reports, hashes printed and files of inputs are left out.          *)
(***************************************************************************)
EXTENDS RemoteMachine, SequencesExt

CONSTANTS Epochs,     \* what a run is asked to do: <<inputs, "no" or "query">>
          Outputs     \* outputs of one input

ASSUME EpochsAssumption ==
    /\ \A e \in Epochs : e[1] \in 0 .. MaxServers - 1 /\ e[2] \in {"no", "query"}
    /\ Outputs \in Nat

VARIABLES opts,      \* inputs, the query to inspect, whether the server is to be shut down
          phase,     \* where the script is
          todo,      \* what it has still to do there
          seen,      \* the machine as last read: {} or {content}
          grand,     \* pid of the forked grand-child while the server is spawned
          next,      \* next_input_index
          pending,   \* pending_outputs
          saved,     \* outputs written, in the order of their index
          rejected,  \* outputs written to the files of rejected outputs
          verdicts,  \* history: how each input ended
          emitted    \* history: the outputs the machine has yielded

scriptVars == <<opts, phase, todo, seen, grand, next, pending, saved, rejected, verdicts, emitted>>
vars == <<proc, obj, call, late, faults, opts, phase, todo, seen, grand, next, pending, saved,
          rejected, verdicts, emitted>>

Inputs == opts.inputs
Query == MaxServers     \* the query is fed after all inputs
Booted == [hist |-> <<>>, at |-> "running", out |-> 0]
Manual == {"accepted", "rejected", "exception", "other"}

Call(o, m, arg, keep, then) == <<[op |-> "call", o |-> o, m |-> m, arg |-> arg, keep |-> keep, then |-> then]>>
Local(op) == <<[op |-> op]>>

----------------------------------------------------------------------------
(* The machine in the server: run() goes on to the next yield, halt or     *)
(* limit, unless the machine has yielded and waits for an answer.  The     *)
(* program emits Outputs outputs for an input or a query before it ends;   *)
(* outputs before the first input, which the script ignores, are left out. *)
RunOutcomes(c) ==
    CASE c.at \in Manual \cup {"halt"} -> {c}
      [] c.at \notin Manual \cup {"halt"} /\ c.hist # <<>> /\ c.out < Outputs ->
             {[c EXCEPT !.at = "output", !.out = @ + 1]}
      [] OTHER -> {[c EXCEPT !.at = a] : a \in Manual \cup {"halt", "limit"}}

(* send_cmio_response() for an input or the query i.                       *)
Fed(c, i) == [hist |-> Append(c.hist, i), at |-> "running", out |-> 0]

MachineAfter(m, arg, c) ==
    CASE m = "run" -> RunOutcomes(c)
      [] m = "send_cmio_response" -> {Fed(c, arg)}
      [] m = "read" -> {c}

HandleMachine(p, o) ==
    /\ \/ /\ Requested(p, o, "create")
          /\ Reply(p, o, jsonrpc_machine_create_handler(p, o, Booted))
       \/ \E m \in {"run", "send_cmio_response", "read"} :
             /\ Requested(p, o, m)
             /\ IF proc[p].machine = {} THEN Reply(p, o, Error(proc))
                ELSE \E c \in proc[p].machine : \E d \in MachineAfter(m, call[o].arg, c) :
                        Reply(p, o, MachineHandler(p, d))
    /\ UNCHANGED faults

(* What a late request leaves the machine with; none if it is an error.    *)
LateContents(c) ==
    IF c.m = "create" THEN {d \in {Booted} : proc[c.srv].machine = {}}
    ELSE UNION {MachineAfter(c.m, c.arg, d) : d \in proc[c.srv].machine}

----------------------------------------------------------------------------
(* What the script does, as the steps it takes.                            *)

do_commit == IF obj["b"].nil THEN <<>>
             ELSE Call("b", "shutdown", Closed, FALSE, "no_backup")

(* hasBackup: there is a backup when the snapshot is taken.                *)
do_snapshot(hasBackup) ==
    (IF hasBackup THEN Call("b", "shutdown", Closed, FALSE, "reset") ELSE <<>>)
    \o Call("m", "fork", Closed, FALSE, "backup")

(* Variant: the backup is shut down instead of the current server.         *)
BadRollback ==
    IF obj["b"].nil THEN Local("raise") ELSE Call("b", "shutdown", Closed, FALSE, "no_backup")

do_rollback ==
    IF obj["b"].nil THEN Local("raise")
    ELSE Call("m", "shutdown", Closed, FALSE, "swap")
         \o Call("m", "rebind", obj["m"].addr, FALSE, "rolled_back")

(* After a manual yield is dealt with, the loop ends if the machine is     *)
(* still at one.                                                           *)
Check == Call("m", "read", Closed, TRUE, "check")

(* The spawning constructor of jsonrpc_machine, then the connection the    *)
(* script makes and the machine it creates.                                *)
SpawnSteps ==
    Local("spawn") \o Call("m", "get_version", Closed, FALSE, "none")
    \o Call("m", "fork", Closed, TRUE, "grand")
    \o Call("m", "shutdown", Closed, FALSE, "grand_address")
    \o Call("m", "rebind", Home, FALSE, "address")
    \o Local("terminate") \o Local("wait") \o Local("connect")
    \o Call("m", "get_version", Closed, FALSE, "none") \o Local("start")
    \o Call("m", "create", Closed, TRUE, "none") \o Local("loop")

(* A failed constructor kills the grand-child it knows and waits for the   *)
(* child.                                                                  *)
SpawnCleanup == Local("kill") \o Local("terminate") \o Local("wait") \o Local("end")

----------------------------------------------------------------------------
(* The loop: what follows a run, by what the machine stopped at.           *)

(* Variant: the buffer is emptied only when its outputs are saved.         *)
BadFlush(at) ==
    /\ saved' = IF at = "accepted" THEN saved \o pending ELSE saved
    /\ rejected' = IF at = "rejected" THEN rejected \o pending ELSE rejected
    /\ pending' = IF at = "accepted" THEN <<>> ELSE pending

flush_pending_outputs(at) ==
    /\ saved' = IF at = "accepted" THEN saved \o pending ELSE saved
    /\ rejected' = IF at = "rejected" THEN rejected \o pending ELSE rejected
    /\ pending' = <<>>

NoFlush == UNCHANGED <<saved, rejected, pending>>

(* What the flush of an accepted input asks of the machine.                *)
Proof == Call("m", "read", Closed, TRUE, "none")

(* The verdict of the input just processed is known.                       *)
Judged(at) ==
    verdicts' = IF next \in 1 .. Inputs /\ Len(verdicts) < next THEN Append(verdicts, at) ELSE verdicts

YieldException ==
    /\ todo' = do_rollback \o Local("after")
    /\ NoFlush /\ UNCHANGED <<next, opts>>

(* There is an input to feed: the previous one is committed, then its      *)
(* outputs are flushed, or they are flushed and it is rolled back.  The    *)
(* index moves on here; nothing reads it before the input is fed.          *)
YieldNextInput(at) ==
    LET feed == do_snapshot(FALSE) \o Call("m", "send_cmio_response", next + 1, TRUE, "none") \o Check
    IN  /\ next < Inputs
        /\ \/ /\ at = "accepted"
              /\ todo' = do_commit \o (IF next > 0 THEN Local("flush") \o Proof ELSE <<>>) \o feed
              /\ NoFlush
              /\ next' = next + 1
           \/ /\ at = "rejected"
              /\ todo' = do_rollback \o feed
              /\ flush_pending_outputs(at)
              /\ next' = next + 1
           \/ /\ at = "other"
              /\ todo' = Local("raise")
              /\ NoFlush /\ UNCHANGED next
        /\ UNCHANGED opts

(* Variant: the epoch is not closed, the index just goes on.               *)
BadYieldLast(at) ==
    /\ next >= Inputs
    /\ todo' = Check
    /\ flush_pending_outputs(at)
    /\ next' = next + 1
    /\ UNCHANGED opts

(* All inputs are fed: the last verdict closes the epoch (cmio_advance     *)
(* becomes nil, here next is Query), then the query is fed or, after it,   *)
(* rolled back.                                                            *)
YieldLast(at) ==
    LET closes == next \in 1 .. Inputs
        left == ~ obj["b"].nil /\ (~ closes \/ at = "other")   \* a backup is still there
        epoch == CASE ~ closes -> <<>>
                   [] closes /\ at = "accepted" -> Proof \o do_commit
                   [] closes /\ at = "rejected" -> do_rollback
                   [] OTHER -> <<>>
        inspect == CASE opts.inspect = "no" -> <<>>
                     [] opts.inspect = "query" ->
                            do_snapshot(left) \o Call("m", "send_cmio_response", Query, TRUE, "none")
                     [] opts.inspect = "fed" -> do_rollback
    IN  /\ next >= Inputs
        /\ at \in {"accepted", "rejected", "other"}
        /\ todo' = epoch \o inspect \o Check
        /\ IF closes THEN flush_pending_outputs(at) ELSE NoFlush
        /\ next' = IF closes THEN Query ELSE next
        /\ opts' = [opts EXCEPT !.inspect = CASE @ = "query" -> "fed" [] @ = "fed" -> "no" [] OTHER -> @]

(* A yield with an output is buffered once an input was fed.               *)
YieldOutput ==
    /\ todo' = Call("m", "run", Closed, TRUE, "seen")
    /\ pending' = IF next \in 1 .. Inputs THEN Append(pending, <<next, Len(pending) + 1>>) ELSE pending
    /\ emitted' = IF next \in 1 .. Inputs THEN emitted \cup {<<next, Len(pending) + 1>>} ELSE emitted
    /\ UNCHANGED <<next, opts, saved, rejected, verdicts>>

(* One turn of the loop after its run.                                     *)
Loop ==
    /\ phase = "loop" /\ todo = <<>> /\ seen # {}
    /\ \E c \in seen :
          \/ /\ c.at = "exception" /\ YieldException
             /\ Judged(c.at) /\ UNCHANGED <<emitted>>
          \/ /\ c.at \in Manual \ {"exception"}
             /\ YieldNextInput(c.at) \/ YieldLast(c.at)
             /\ Judged(c.at) /\ UNCHANGED emitted
          \/ /\ c.at = "output" /\ YieldOutput
          \/ /\ c.at \in {"halt", "limit"}
             /\ todo' = Local("after")
             /\ UNCHANGED <<next, opts, pending, saved, rejected, verdicts, emitted>>
    /\ seen' = {}
    /\ UNCHANGED <<phase, grand>>
    /\ UNCHANGED remoteVars

LoopRun ==
    /\ phase = "loop" /\ todo = <<>> /\ seen = {}
    /\ todo' = Call("m", "run", Closed, TRUE, "seen")
    /\ UNCHANGED <<opts, phase, seen, grand, next, pending, saved, rejected, verdicts, emitted>>
    /\ UNCHANGED remoteVars

----------------------------------------------------------------------------
(* Steps of todo.                                                          *)

Doing(op) == todo # <<>> /\ Head(todo).op = op
KeepScript == UNCHANGED <<opts, next, pending, saved, rejected, verdicts, emitted>>

CallSend ==
    /\ Doing("call")
    /\ LET c == Head(todo) IN Send(c.o, c.m, c.arg, c.keep)
    /\ UNCHANGED scriptVars

(* What becomes of the client objects when the call returns v.             *)
Returned(then, o, v) ==
    LET obs == AfterAnswer(o)
    IN  CASE then = "reset" -> [obs EXCEPT ![o].ok = FALSE]
          [] then = "no_backup" -> [obs EXCEPT !["b"] = NilObject]
          [] then = "backup" -> [obs EXCEPT !["b"] = NewObject(v)]
          [] then = "swap" -> [obs EXCEPT !["m"] = obs["b"], !["b"] = [obs["m"] EXCEPT !.ok = FALSE]]
          [] then = "rolled_back" -> [obs EXCEPT !["m"].addr = v, !["b"] = NilObject]
          [] then = "address" -> [obs EXCEPT ![o].addr = v]
          [] then = "grand_address" -> [obs EXCEPT ![o].addr = grand]
          [] OTHER -> obs

(* The answer is a result: what the caller does with it.                   *)
CallReturns ==
    /\ Doing("call")
    /\ LET c == Head(todo)
           o == c.o
           v == call[o].res
       IN  /\ call[o].st = "answered" /\ v # <<>>
           /\ Receive(o, Returned(c.then, o, v[1]))
           /\ seen' = IF c.then = "seen" THEN {v[1]} ELSE seen
           /\ grand' = IF c.then = "grand" THEN v[1] ELSE grand
           /\ todo' = IF c.then = "check" /\ v[1].at \in Manual THEN do_commit \o Local("after")
                      ELSE Tail(todo)
    /\ UNCHANGED phase
    /\ KeepScript

(* An error is raised: the script goes to its closers.                     *)
Raise ==
    /\ phase' = CASE phase \in {"start", "loop", "after"} -> "closing"
                  [] phase = "closing" -> "gc"
                  [] phase \in {"connect", "gc"} -> "ended"
                  [] phase = "spawn" -> phase
    /\ todo' = IF phase = "spawn" THEN SpawnCleanup ELSE <<>>
    /\ seen' = {}
    /\ UNCHANGED grand
    /\ KeepScript

CallFails ==
    /\ Doing("call")
    /\ LET o == Head(todo).o
       IN  \/ SendFails(o)
           \/ ReceiveFails(o)
           \/ call[o].res = <<>> /\ Receive(o, AfterAnswer(o))
    /\ Raise

LocalStep ==
    /\ todo # <<>>
    /\ \/ /\ Doing("raise") /\ Raise /\ UNCHANGED remoteVars
       \/ /\ Doing("flush") /\ flush_pending_outputs("accepted")
          /\ todo' = Tail(todo)
          /\ UNCHANGED <<opts, next, verdicts, emitted, phase, seen, grand>> /\ UNCHANGED remoteVars
       \/ \E ph \in {"start", "loop", "after", "closing", "gc", "ended"} :
          /\ Doing(ph)
          /\ phase' = ph /\ todo' = Tail(todo)
          /\ UNCHANGED <<seen, grand>> /\ UNCHANGED remoteVars /\ KeepScript

(* The steps of the spawning constructor: posix_spawnp with the listening  *)
(* socket, the signals of its scope guards, and waitpid.                   *)
SpawnStep ==
    /\ todo # <<>>
    /\ \/ /\ Doing("spawn")
          /\ proc' = [proc EXCEPT ![1] = [NoProcess EXCEPT !.st = "up", !.addr = Home]]
          /\ obj' = [obj EXCEPT !["m"] = NewObject(Home)]
       \/ /\ Doing("kill")
          /\ proc' = IF grand = 0 THEN proc ELSE Killed(grand)
          /\ UNCHANGED obj
       \/ /\ Doing("terminate")
          /\ proc' = Terminated(1)
          /\ UNCHANGED obj
       \/ /\ Doing("wait")
          /\ proc[1].st = "gone"
          /\ UNCHANGED <<proc, obj>>
       \/ /\ Doing("connect")
          /\ obj' = [obj EXCEPT !["m"] = NewObject(obj["m"].addr)]
          /\ UNCHANGED proc
       \/ /\ Doing("end")
          /\ UNCHANGED <<proc, obj>>
    /\ todo' = Tail(todo)
    /\ phase' = CASE Doing("connect") -> "connect" [] Doing("end") -> "ended" [] OTHER -> phase
    /\ UNCHANGED <<call, late, faults, seen, grand>>
    /\ KeepScript

(* Variant: there is no backup_closer.                                     *)
BadClosers ==
    /\ todo = <<>>
    /\ \/ /\ phase \in {"after", "closing"}
          /\ todo' = Local("gc")
       \/ /\ phase = "gc"
          /\ todo' = Local("ended")
    /\ UNCHANGED <<opts, phase, seen, grand, next, pending, saved, rejected, verdicts, emitted>>
    /\ UNCHANGED remoteVars

(* After the loop the machine is destroyed; os.exit() then runs            *)
(* backup_closer, which rolls back to a backup that is left, and           *)
(* remote_closer, which shuts the server down if asked to.  The options    *)
(* --no-remote-destroy and --remote-shutdown are read here only, so they   *)
(* are chosen here.                                                        *)
Closers ==
    /\ todo = <<>>
    /\ \/ /\ phase = "after"
          /\ \/ todo' = Call("m", "destroy", Closed, TRUE, "none") \o Local("closing")
             \/ todo' = Local("closing")
          /\ UNCHANGED opts
       \/ /\ phase = "closing"
          /\ todo' = (IF obj["b"].nil THEN <<>> ELSE do_rollback) \o Local("gc")
          /\ UNCHANGED opts
       \/ /\ phase = "gc"
          /\ \/ /\ todo' = Call("m", "shutdown", Closed, FALSE, "reset") \o Local("ended")
                /\ opts' = [opts EXCEPT !.shutdown = TRUE]
             \/ /\ todo' = Local("ended")
                /\ UNCHANGED opts
    /\ UNCHANGED <<phase, seen, grand, next, pending, saved, rejected, verdicts, emitted>>
    /\ UNCHANGED remoteVars

(* The other client: it asks the server at Home, over a stream it          *)
(* keeps alive.                                                            *)
Observer ==
    /\ \/ Send("o", "get_version", Closed, TRUE)
       \/ SendFails("o")
       \/ Receive("o", AfterAnswer("o"))
       \/ Broken("o") /\ ReceiveFails("o")
    /\ UNCHANGED scriptVars

Script == CallSend \/ CallReturns \/ CallFails \/ LocalStep \/ SpawnStep \/ Loop \/ LoopRun \/ Closers

Handle(p, o) == (HandleServer(p, o) \/ HandleMachine(p, o)) /\ UNCHANGED scriptVars
Child(p) == ForkChild(p) /\ UNCHANGED scriptVars
Leave(p) == Exit(p) /\ UNCHANGED scriptVars

Init ==
    /\ proc = [p \in Pids |-> NoProcess]
    /\ obj = [o \in Clients |-> IF o = "o" THEN NewObject(Home) ELSE NilObject]
    /\ call = [o \in Clients |-> Idle]
    /\ late = {} /\ faults = <<>>
    /\ \E e \in Epochs : opts = [inputs |-> e[1], inspect |-> e[2], shutdown |-> FALSE]
    /\ phase = "spawn" /\ todo = SpawnSteps
    /\ seen = {} /\ grand = 0 /\ next = 0
    /\ pending = <<>> /\ saved = <<>> /\ rejected = <<>>
    /\ verdicts = <<>> /\ emitted = {}

Next ==
    \/ Script
    \/ Observer
    \/ \E p \in Pids : \E o \in Clients : Handle(p, o)
    \/ \E p \in Pids : Child(p) \/ Leave(p) \/ (Crash(p) /\ UNCHANGED scriptVars)
    \/ \E c \in late : HandleLate(c, LateContents(c)) /\ UNCHANGED scriptVars

(* The event loop of a live server and the script are never stopped; the   *)
(* other client reads its answers.                                         *)
Fairness ==
    /\ WF_vars(Script)
    /\ WF_vars(Receive("o", AfterAnswer("o")) /\ UNCHANGED scriptVars)
    /\ \A p \in Pids : /\ \A o \in Clients : WF_vars(Handle(p, o))
                       /\ WF_vars(Child(p))
                       /\ WF_vars(Leave(p))

Spec == Init /\ [][Next]_vars /\ Fairness

----------------------------------------------------------------------------
(* Properties.                                                             *)

(* The inputs that the history says were judged v.                         *)
Judgement(v) == {i \in DOMAIN verdicts : verdicts[i] = v}

(* Types of the state.                                                     *)
TypeOK ==
    /\ \A p \in Pids : /\ proc[p].st \in {"none", "child", "up", "gone"}
                       /\ proc[p].addr \in Addresses \cup {Closed}
                       /\ proc[p].inherits \subseteq Addresses \cup {Closed}
                       /\ proc[p].sess \cup proc[p].copies \subseteq Clients
                       /\ Cardinality(proc[p].machine) <= 1
    /\ \A o \in Clients : obj[o].srv \in Pids \cup {0} /\ call[o].st \in {"idle", "sent", "answered"}
    /\ phase \in {"spawn", "connect", "start", "loop", "after", "closing", "gc", "ended"}
    /\ next \in 0 .. Inputs \cup {Query} /\ grand \in Pids \cup {0}
    /\ Len(faults) <= MaxFaults

(* Whenever the script takes a snapshot for an input or the query, and     *)
(* when it has ended, the machine the user's address leads to has          *)
(* processed every input that was accepted and none that was rejected, in  *)
(* order, whichever servers served them: a rollback brings back the state  *)
(* before the input and not an earlier one (do_rollback,                   *)
(* cartesi-machine.lua 2890).  Faults aside.                               *)
Snapshotting == todo # <<>> /\ Head(todo) = Call("m", "fork", Closed, FALSE, "backup")[1]
AcceptedKept ==
    (faults = <<>> /\ (Snapshotting \/ phase = "ended")) =>
        \A p \in Listening(Home) : \A c \in proc[p].machine :
            /\ Judgement("accepted") \subseteq ToSet(c.hist)
            /\ Judgement("rejected") \cap ToSet(c.hist) = {}
            /\ Query \notin ToSet(c.hist)
            /\ \A i, j \in DOMAIN c.hist : i < j => c.hist[i] < c.hist[j]

(* Outputs are written under consecutive indices exactly for accepted      *)
(* inputs, each once and in the order the machine emitted them, and the    *)
(* outputs of rejected inputs only to the files of rejected outputs        *)
(* (flush_pending_outputs against the buffering of automatic yields), even *)
(* when calls fail.  An output of an accepted input is written or still in *)
(* the buffer.                                                             *)
OutputsFollowVerdicts ==
    /\ \A k \in DOMAIN saved : saved[k][1] \in Judgement("accepted")
    /\ \A k \in DOMAIN rejected : rejected[k][1] \in Judgement("rejected")
    /\ \A k, l \in DOMAIN saved :
          k < l => \/ saved[k][1] < saved[l][1]
                   \/ saved[k][1] = saved[l][1] /\ saved[k][2] < saved[l][2]
    /\ \A t \in emitted : t[1] \in Judgement("accepted") => t \in ToSet(saved) \cup ToSet(pending)

(* When the script ends without a fault the outputs of accepted inputs are *)
(* all written: none is left in the buffer.                                *)
OutputsWritten ==
    (phase = "ended" /\ faults = <<>>) =>
        \A t \in emitted : t[1] \in Judgement("accepted") => t \in ToSet(saved)

(* When the script ends and no call failed, no server is left behind: the  *)
(* one server listens at the user's address, or none does when its         *)
(* shutdown was asked for ("Make sure we do not leave backup servers lying *)
(* around when we exit").  The same holds after a fork that failed, unless *)
(* the epoch ended in an unknown verdict.                                  *)
NoServerLeft ==
    (phase = "ended" /\ Judgement("other") = {} /\ \A i \in DOMAIN faults : faults[i] = "fork") =>
        LET left == {p \in Pids : Alive(p) /\ proc[p].addr # Closed}
        IN  /\ left = Listening(Home)
            /\ Cardinality(left) = IF opts.shutdown \/ obj["m"].nil \/ grand = 0 THEN 0 ELSE 1

(* A rebind never finds the address in use by one of the system's own      *)
(* processes: the server that had it has closed its acceptor before its    *)
(* shutdown was answered, and the child of a fork has closed the copy it   *)
(* inherited before it serves ("so the port can be immediately reused      *)
(* after request response", jsonrpc_shutdown_handler).  Under every fault. *)
AddressFree ==
    \A o \in Clients :
        (call[o].st = "sent" /\ call[o].m = "rebind") =>
            \A p \in Pids : o \notin proc[p].sess => ~ Holds(p, call[o].arg)

(* Whatever fails: outputs go where the verdicts send them, all of them    *)
(* when nothing failed, and the system does not get in its own way.        *)
FaultsContained == TypeOK /\ OutputsFollowVerdicts /\ OutputsWritten /\ AddressFree

(* Faults aside, the verdict on an input decides what becomes of its       *)
(* state, wherever it comes in the epoch, and the script leaves nothing    *)
(* else behind.                                                            *)
EpochKept == AcceptedKept /\ NoServerLeft

(* A request is answered by the process its client connected to, and only  *)
(* while that process listens: neither a forked child that inherited the   *)
(* session nor a server that was shut down, and perhaps replaced at its    *)
(* address, answers over a stream another client keeps alive               *)
(* (jsonrpc_fork_handler 838, close_sessions).                             *)
AnsweredByListener ==
    [][\A o \in Clients :
          (call[o].st = "sent" /\ call'[o].st = "answered") =>
              call'[o].by = obj[o].srv /\ proc[obj[o].srv].addr # Closed]_vars

(* The script ends, whatever fails and whatever the machine does (no call  *)
(* waits forever, and neither does waitpid() in the constructor), and      *)
(* every server that was told to stop exits, also with sessions of other   *)
(* clients open at the time (jsonrpc_shutdown_handler, on_signal).         *)
EverythingStops ==
    <>[](phase = "ended" /\ \A p \in Pids : proc[p].st = "up" => proc[p].addr # Closed)

(* A rollback whose rebind fails still leaves a server with a machine: the *)
(* backup has the state before the input, and nothing else has ("If we     *)
(* have a backup on exit, we probably raised an error, so we rollback",    *)
(* backup_closer).                                                         *)
StateSurvives ==
    (phase = "ended" /\ verdicts # <<>> /\ ~ opts.shutdown /\ Happened("bind")) =>
        \E p \in Pids : Alive(p) /\ proc[p].addr # Closed /\ proc[p].machine # {}
=============================================================================
