--------------------------- MODULE RemoteMachine ---------------------------
(***************************************************************************)
(* The JSON-RPC server of a remote machine (jsonrpc-remote-machine.cpp)    *)
(* and the client library (jsonrpc-machine.cpp): server processes that     *)
(* listen, serve sessions, fork, rebind and shut down, and clients that    *)
(* send one request at a time over a stream they keep open or close.       *)
(*                                                                         *)
(* A server process runs one thread, so a handler is one step; the child   *)
(* of a fork is a process of its own, which closes what it inherited in a  *)
(* later step.  Bytes, HTTP and JSON are left out (see Codec); a           *)
(* machine is an abstract content.  A request may be lost with its answer  *)
(* ("drop"), a process may die ("crash"), fork() and bind() may fail: at   *)
(* most MaxFaults times in a behaviour.                                    *)
(***************************************************************************)
EXTENDS Naturals, Sequences, FiniteSets

CONSTANTS MaxServers,   \* processes that are ever started
          MaxFaults     \* faults in a behaviour

ASSUME BoundsAssumption == MaxServers \in Nat \ {0} /\ MaxFaults \in Nat

VARIABLES proc,     \* the server processes
          obj,      \* the client objects: jsonrpc_machine
          call,     \* the request each client object has under way
          late,     \* requests whose client gave up before they were handled
          faults    \* the faults that have happened, in order

remoteVars == <<proc, obj, call, late, faults>>

Pids == 1 .. MaxServers
Clients == {"m", "b", "o"}      \* the machine, its backup, another client
Home == 0                       \* the address the user gave
Closed == MaxServers + 1        \* no listening socket, or no address
Addresses == Pids \cup {Home}   \* process p is forked to listen at address p

(* A process: "none" before it starts, "child" between fork() and the end  *)
(* of the fork handler in the child, "up" while its event loop runs,       *)
(* "gone" once it has exited.  addr is the address of its acceptor,        *)
(* inherits the listening sockets it has a copy of; sess the clients with  *)
(* an open session or a connection that waits to be accepted, copies those *)
(* of its parent's sessions; machine the machine it holds, if any.         *)
NoProcess == [st |-> "none", addr |-> Closed, inherits |-> {}, sess |-> {}, copies |-> {},
              machine |-> {}]
Alive(p) == proc[p].st \in {"child", "up"}
Listening(a) == {p \in Pids : Alive(p) /\ proc[p].addr = a}
Holds(p, a) == Alive(p) /\ (proc[p].addr = a \/ a \in proc[p].inherits)

(* A client object: m_address, the stream (the process it is connected to, *)
(* 0 when closed, and the endpoint it was connected at), and whether       *)
(* m_stream and m_ioc still exist.  nil is a Lua variable without object.  *)
NewObject(a) == [nil |-> FALSE, addr |-> a, srv |-> 0, ep |-> Closed, ok |-> TRUE]
NilObject == [nil |-> TRUE, addr |-> Closed, srv |-> 0, ep |-> Closed, ok |-> FALSE]
Idle == [st |-> "idle", m |-> "", arg |-> Closed, keep |-> FALSE, by |-> 0, res |-> <<>>]

Fault(kind) == /\ Len(faults) < MaxFaults
               /\ faults' = Append(faults, kind)
Happened(kind) == \E i \in DOMAIN faults : faults[i] = kind

----------------------------------------------------------------------------
(* The client library.                                                     *)

(* close of the stream at the client: every copy of the connection ends.   *)
CloseStream(pr, o) == [p \in Pids |-> [pr[p] EXCEPT !.sess = @ \ {o}, !.copies = @ \ {o}]]
Disconnected(ob) == [ob EXCEPT !.srv = 0, !.ep = Closed]

(* json_post(), its first half: the stream is reused when it is connected  *)
(* to the endpoint of m_address, otherwise a connection is made; the       *)
(* request is written.  FALSE: the call throws instead (the server was     *)
(* shut down by this object, nobody listens, or the server closed the      *)
(* session of the stream), which leaves the stream closed.                 *)
Reuses(o) == obj[o].srv # 0 /\ obj[o].ep = obj[o].addr
CanSend(o) ==
    /\ obj[o].ok
    /\ IF Reuses(o) THEN o \in proc[obj[o].srv].sess
                    ELSE Listening(obj[o].addr) # {}

Send(o, m, arg, keep) ==
    LET s == IF Reuses(o) THEN obj[o].srv
                          ELSE CHOOSE p \in Listening(obj[o].addr) : TRUE
        pr == IF Reuses(o) THEN proc ELSE CloseStream(proc, o)
    IN  /\ call[o].st = "idle"
        /\ CanSend(o)
        /\ proc' = [pr EXCEPT ![s].sess = @ \cup {o}]
        /\ obj' = [obj EXCEPT ![o].srv = s, ![o].ep = obj[o].addr]
        /\ call' = [call EXCEPT ![o] = [Idle EXCEPT !.st = "sent", !.m = m, !.arg = arg, !.keep = keep]]
        /\ UNCHANGED <<late, faults>>

SendFails(o) ==
    /\ call[o].st = "idle"
    /\ ~ CanSend(o)
    /\ proc' = CloseStream(proc, o)
    /\ obj' = [obj EXCEPT ![o] = Disconnected(@)]
    /\ UNCHANGED <<call, late, faults>>

(* The answer is read; the stream is closed unless it is kept alive.       *)
(* obs are the client objects as the caller then leaves them.              *)
AfterAnswer(o) == [obj EXCEPT ![o] = IF call[o].keep THEN @ ELSE Disconnected(@)]
Receive(o, obs) ==
    /\ call[o].st = "answered"
    /\ obj' = obs
    /\ proc' = IF call[o].keep THEN proc ELSE CloseStream(proc, o)
    /\ call' = [call EXCEPT ![o] = Idle]
    /\ UNCHANGED <<late, faults>>

(* The call throws after it was sent: the connection ended, or (a fault)   *)
(* it broke or timed out, and then the server may still carry it out.      *)
Broken(o) == call[o].st = "sent" /\ \A p \in Pids : Alive(p) => o \notin proc[p].sess
ReceiveFails(o) ==
    /\ \/ /\ Broken(o)
          /\ UNCHANGED <<late, faults>>
       \/ /\ call[o].st = "sent" /\ ~ Broken(o)
          /\ Fault("drop")
          /\ late' = late \cup {[srv |-> obj[o].srv, m |-> call[o].m, arg |-> call[o].arg]}
       \/ /\ call[o].st = "answered"
          /\ Fault("drop")
          /\ UNCHANGED late
    /\ proc' = CloseStream(proc, o)
    /\ obj' = [obj EXCEPT ![o] = Disconnected(@)]
    /\ call' = [call EXCEPT ![o] = Idle]

----------------------------------------------------------------------------
(* The server.  A handler gives the processes after it and its answer:     *)
(* <<>> is an error, <<v>> the result v.                                   *)

Unused == {p \in Pids : proc[p].st = "none"}
Error(pr) == [proc |-> pr, res |-> <<>>]
Ok(pr, v) == [proc |-> pr, res |-> <<v>>]

(* close_sessions(ignore).                                                 *)
close_sessions(ps, ignore) == [ps EXCEPT !.sess = @ \cap ignore]
close_acceptor(ps) == [ps EXCEPT !.addr = Closed]

(* Variant: the port is freed only when the process exits.                 *)
BadShutdown(p, o) ==
    Ok([proc EXCEPT ![p] = close_sessions([@ EXCEPT !.machine = {}], {o})], TRUE)

(* The machine is unmapped, the port freed and the other sessions closed   *)
(* before the answer is sent.                                              *)
jsonrpc_shutdown_handler(p, o) ==
    Ok([proc EXCEPT ![p] = close_sessions(close_acceptor([@ EXCEPT !.machine = {}]), {o})], TRUE)

(* The acceptor of the child is bound first, then the process is forked:   *)
(* the child is a copy, sockets included, that runs on by itself.          *)
jsonrpc_fork_handler(p, o) ==
    LET q == CHOOSE q \in Unused : \A r \in Unused : q <= r
    IN  Ok([proc EXCEPT ![q] = [proc[p] EXCEPT !.st = "child", !.addr = q,
                                               !.inherits = @ \cup {proc[p].addr},
                                               !.sess = {}, !.copies = proc[p].sess]], q)

(* Variant: the child serves on with the sessions it inherited.            *)
BadForkChild(p) ==
    /\ proc[p].st = "child"
    /\ proc' = [proc EXCEPT ![p] = [@ EXCEPT !.st = "up", !.inherits = {}]]
    /\ UNCHANGED <<obj, call, late, faults>>

(* The rest of the handler in the child: it closes the sessions its parent *)
(* had, and rebind() closes the acceptor it inherited.                     *)
ForkChild(p) ==
    /\ proc[p].st = "child"
    /\ proc' = [proc EXCEPT ![p] = [@ EXCEPT !.st = "up", !.inherits = {}, !.copies = {}]]
    /\ UNCHANGED <<obj, call, late, faults>>

(* The new acceptor is made before the old one is closed: when the address *)
(* is taken the handler throws and the server listens where it did.        *)
jsonrpc_rebind_handler(p, o, a) ==
    CASE proc[p].addr = a -> Ok(proc, a)
      [] proc[p].addr # a /\ (\E q \in Pids : Holds(q, a)) -> Error(proc)
      [] OTHER -> Ok([proc EXCEPT ![p].addr = a], a)

jsonrpc_get_version_handler(p, o) == Ok(proc, 0)

jsonrpc_machine_create_handler(p, o, content) ==
    IF proc[p].machine # {} THEN Error(proc)
    ELSE Ok([proc EXCEPT ![p].machine = {content}], TRUE)

jsonrpc_machine_destroy_handler(p, o) == Ok([proc EXCEPT ![p].machine = {}], TRUE)

(* A handler that takes the machine from its content to the content c.     *)
MachineHandler(p, c) ==
    IF proc[p].machine = {} THEN Error(proc)
    ELSE Ok([proc EXCEPT ![p].machine = {c}], c)

(* on_read_request() and send_response(): the outcome r of the handler is  *)
(* sent on the session the request came by, and the session is closed      *)
(* unless it is kept alive.                                                *)
Reply(p, o, r) ==
    /\ proc' = IF call[o].keep THEN r.proc ELSE [r.proc EXCEPT ![p].sess = @ \ {o}]
    /\ call' = [call EXCEPT ![o].st = "answered", ![o].by = p, ![o].res = r.res]
    /\ UNCHANGED <<obj, late>>

Requested(p, o, m) ==
    /\ proc[p].st = "up"
    /\ o \in proc[p].sess \cup proc[p].copies
    /\ call[o].st = "sent"
    /\ call[o].m = m

(* The requests whose effect does not depend on the content of a machine.  *)
HandleServer(p, o) ==
    \/ /\ Requested(p, o, "get_version")
       /\ Reply(p, o, jsonrpc_get_version_handler(p, o))
       /\ UNCHANGED faults
    \/ /\ Requested(p, o, "shutdown")
       /\ Reply(p, o, jsonrpc_shutdown_handler(p, o))
       /\ UNCHANGED faults
    \/ /\ Requested(p, o, "rebind")
       /\ Reply(p, o, jsonrpc_rebind_handler(p, o, call[o].arg))
       /\ UNCHANGED faults
    \/ /\ Requested(p, o, "rebind") /\ call[o].arg # proc[p].addr
       /\ Fault("bind")
       /\ Reply(p, o, Error(proc))
    \/ /\ Requested(p, o, "fork") /\ Unused # {}
       /\ Reply(p, o, jsonrpc_fork_handler(p, o))
       /\ UNCHANGED faults
    \/ /\ Requested(p, o, "fork")
       /\ Fault("fork")
       /\ Reply(p, o, Error(proc))
    \/ /\ Requested(p, o, "destroy")
       /\ Reply(p, o, jsonrpc_machine_destroy_handler(p, o))
       /\ UNCHANGED faults

(* A request carried out after its client gave up: its answer goes nowhere.*)
(* A server that was told to stop has closed the session it came by.       *)
(* contents are those a handler of the machine may leave it with.          *)
HandleLate(c, contents) ==
    /\ proc[c.srv].st = "up" /\ proc[c.srv].addr # Closed
    /\ \/ /\ c.m = "shutdown"
          /\ proc' = jsonrpc_shutdown_handler(c.srv, "none").proc
       \/ /\ c.m = "rebind"
          /\ proc' = jsonrpc_rebind_handler(c.srv, "none", c.arg).proc
       \/ /\ c.m = "fork" /\ Unused # {}
          /\ proc' = jsonrpc_fork_handler(c.srv, "none").proc
       \/ /\ c.m = "destroy"
          /\ proc' = jsonrpc_machine_destroy_handler(c.srv, "none").proc
       \/ /\ c.m \in {"create", "run", "send_cmio_response"}
          /\ \E content \in contents : proc' = [proc EXCEPT ![c.srv].machine = {content}]
    /\ late' = late \ {c}
    /\ UNCHANGED <<obj, call, faults>>

(* Variant: a signal closes the sessions and leaves the acceptor.          *)
BadTerminated(p) == [proc EXCEPT ![p] = IF @.st = "none" THEN @ ELSE close_sessions(@, {})]

(* on_signal() for SIGTERM; SIGILL, and SIGTERM once the shutdown handler  *)
(* has taken the signal handlers away, end the process at once.            *)
Terminated(p) ==
    [proc EXCEPT ![p] = IF @.st = "none" THEN @ ELSE close_sessions(close_acceptor(@), {})]
Killed(p) == [proc EXCEPT ![p] = IF @.st = "none" THEN @ ELSE [NoProcess EXCEPT !.st = "gone"]]

(* ioc.run() returns when neither an acceptor nor a session waits.         *)
Exit(p) ==
    /\ proc[p].st = "up"
    /\ proc[p].addr = Closed
    /\ proc[p].sess = {}
    /\ proc' = Killed(p)
    /\ UNCHANGED <<obj, call, late, faults>>

Crash(p) ==
    /\ Alive(p)
    /\ Fault("crash")
    /\ proc' = Killed(p)
    /\ UNCHANGED <<obj, call, late>>

=============================================================================
