-------------------------- MODULE RollupLoopProofs --------------------------
(***************************************************************************)
(* Whatever the machine does, whichever calls, forks, binds and processes  *)
(* fail, and for any number of servers, inputs and faults: a request is    *)
(* answered by the process its client connected to, while it listens; a    *)
(* rebind finds its address free; and outputs go where the verdicts send   *)
(* them.  Three invariants, each inductive relative to those before it:    *)
(* IInv (sessions and streams), AInv (plans and addresses), OInv (verdicts *)
(* and outputs).                                                           *)
(***************************************************************************)
EXTENDS RollupLoop, SequenceTheorems, FiniteSetTheorems, TLAPS

ProcFields == {"st", "addr", "inherits", "sess", "copies", "machine"}
ObjFields == {"nil", "addr", "srv", "ep", "ok"}
CallFields == {"st", "m", "arg", "keep", "by", "res"}

\* The objects the script calls.
Users == {"m", "b"}

Methods == {"get_version", "shutdown", "rebind", "fork", "create", "destroy", "run",
            "send_cmio_response", "read"}
Thens == {"none", "reset", "no_backup", "backup", "swap", "rolled_back", "address",
          "grand_address", "grand", "seen", "check"}
LocalOps == {"raise", "flush", "start", "loop", "after", "closing", "gc", "ended", "kill",
             "terminate", "wait", "end"}
SpawnOps == {"spawn", "connect"}

\* What the calls of the script have in common: a shutdown, and any call of
\* the backup, closes its stream; the address of a rebind is one; the result
\* that becomes an address is that of a fork or a rebind; the backup is only
\* ever shut down.
SoundCall(c) ==
  /\ (c.m = "shutdown" \/ c.o = "b") => ~c.keep
  /\ c.m = "rebind" => c.arg # Closed
  /\ c.then \in {"backup", "grand"} => c.m = "fork" /\ c.o = "m"
  /\ c.then \in {"address", "rolled_back"} => c.m = "rebind" /\ c.o = "m"
  /\ c.then = "swap" => c.m = "shutdown" /\ c.o = "m"
  /\ c.then = "grand_address" => c.o = "m"
  /\ c.o = "b" => c.m = "shutdown" /\ c.then \in {"no_backup", "reset"}

CallRecords == [op : {"call"}, o : Users, m : Methods, arg : Nat, keep : BOOLEAN, then : Thens]
CallSteps == {c \in CallRecords : SoundCall(c)}
Steps == CallSteps \cup [op : LocalOps \cup SpawnOps]
Swaps(c) == c.op = "call" /\ c.then = "swap"
PlainSteps == {c \in Steps : c.op \notin SpawnOps /\ ~Swaps(c)}

----------------
(* The inductive invariant, on explicit arguments so that one lemma serves  *)
(* the states before and after a step.                                      *)

\* Sessions lead back to the process their client is connected to; a server
\* has none once it has closed its acceptor, and none of its parent's.
ProcessOK(x, p, ob) ==
  /\ DOMAIN x = ProcFields
  /\ x.sess \subseteq Clients
  /\ x.st = "up" => x.copies = {}
  /\ x.addr = Closed => x.sess = {}
  /\ \A o \in x.sess : ob[o].srv = p
ProcOK(pr, ob) == DOMAIN pr = Pids /\ \A p \in Pids : ProcessOK(pr[p], p, ob)

\* An object that exists has an address, and there is no backup without a
\* machine.
ObjectOK(x) ==
  /\ DOMAIN x = ObjFields
  /\ x.nil \in BOOLEAN /\ x.ok \in BOOLEAN /\ x.srv \in Pids \cup {0} /\ x.addr \in Nat
  /\ x.nil => ~x.ok
  /\ ~x.nil => x.addr # Closed
ObjOK(ob) ==
  /\ DOMAIN ob = Clients
  /\ \A o \in Clients : ObjectOK(ob[o])
  /\ ~ob["b"].nil => ~ob["m"].nil

\* The call under way is the first thing to do.
Current(x, td, o) ==
  td # <<>> /\ td[1].op = "call" /\ td[1].o = o /\ td[1].m = x.m /\ td[1].arg = x.arg /\ td[1].keep = x.keep
CallRecordOK(x) ==
  /\ DOMAIN x = CallFields
  /\ x.st \in {"idle", "sent", "answered"} /\ x.keep \in BOOLEAN
  /\ (x.st = "answered" /\ x.res # <<>>) =>
        (x.m = "fork" => x.res[1] \in Pids) /\ (x.m = "rebind" => x.res[1] = x.arg)
CallOK(cl, td, ob) ==
  /\ DOMAIN cl = Clients
  /\ \A o \in Clients : CallRecordOK(cl[o])
  /\ \A o \in Users : cl[o].st # "idle" => Current(cl[o], td, o) /\ ~ob[o].nil
  /\ cl["o"].st # "idle" => cl["o"].m = "get_version"
  /\ cl["b"].st = "idle" => ob["b"].srv = 0

\* The machine and its backup change places first; the object is made again
\* only when its stream is closed.
Released(td, i, ob) ==
  \E k \in 0 .. i - 1 :
    /\ k = 0 => ob["m"].srv = 0
    /\ k # 0 => td[k].op = "call" /\ td[k].o = "m" /\ ~td[k].keep
    /\ \A j \in k + 1 .. i - 1 : td[j].op # "call"
StepOK(td, i, ob) ==
  /\ Swaps(td[i]) => i = 1 /\ ~ob["b"].nil
  /\ td[i].op = "spawn" => i = 1 /\ ob["m"].srv = 0
  /\ td[i].op = "connect" => (td[1].op = "spawn" \/ ~ob["m"].nil) /\ Released(td, i, ob)
TodoOK(td, ob) == td \in Seq(Steps) /\ \A i \in 1 .. Len(td) : StepOK(td, i, ob)

LateOK(lt) == \A c \in lt : c.srv \in Pids /\ (c.m = "rebind" => c.arg # Closed)

\* Once the query is fed no verdict on an input is open.
ScriptOK ==
  /\ grand \in Nat /\ grand # Closed /\ next \in Nat
  /\ opts \in [inputs : 0 .. MaxServers - 1, inspect : {"no", "query", "fed"}, shutdown : BOOLEAN]
  /\ opts.inspect = "fed" => next >= Inputs /\ next \notin 1 .. Inputs

IInv ==
  /\ ProcOK(proc, obj) /\ ObjOK(obj) /\ CallOK(call, todo, obj) /\ TodoOK(todo, obj)
  /\ LateOK(late) /\ ScriptOK
----------------
(* Addresses *)

LEMMA LeastNat ==
  ASSUME NEW T, T \subseteq Nat, T # {}
  PROVE  \E x \in T : \A y \in T : x <= y
<1>1. PICK x \in T : \A y \in T : ~(<<y, x>> \in OpToRel(<, Nat))
  BY NatLessThanWellFounded, WFMin, Zenon
<1>2. \A y \in T : ~(y < x)
  BY <1>1 DEF OpToRel
<1> QED
  BY <1>2

LEMMA AddressFacts ==
  /\ Closed \in Nat /\ Home \in Nat /\ Home # Closed /\ Closed # 0
  /\ \A p \in Pids : p \in Nat /\ p # Closed /\ p # 0
  /\ Query \in Nat
BY BoundsAssumption DEF Closed, Home, Pids, Query

----------------
(* What the script has still to do *)

LEMMA CallIsStep ==
  ASSUME NEW o \in Users, NEW m \in Methods, NEW arg \in Nat, NEW keep \in BOOLEAN, NEW then \in Thens,
         SoundCall([op |-> "call", o |-> o, m |-> m, arg |-> arg, keep |-> keep, then |-> then])
  PROVE  /\ Call(o, m, arg, keep, then) \in Seq(CallSteps)
         /\ then # "swap" => Call(o, m, arg, keep, then) \in Seq(PlainSteps)
<1> DEFINE c == [op |-> "call", o |-> o, m |-> m, arg |-> arg, keep |-> keep, then |-> then]
<1>1. c \in CallSteps
  BY DEF CallSteps, CallRecords
<1>2. then # "swap" => c \in PlainSteps
  BY <1>1 DEF PlainSteps, Steps, Swaps, SpawnOps
<1>3. Call(o, m, arg, keep, then) = <<c>>
  BY DEF Call
<1> HIDE DEF c
<1> QED
  BY <1>1, <1>2, <1>3

LEMMA LocalIsStep ==
  ASSUME NEW op \in LocalOps
  PROVE  Local(op) \in Seq(PlainSteps)
<1>1. [op |-> op] \in PlainSteps
  BY DEF PlainSteps, Steps, Swaps, SpawnOps, LocalOps
<1> QED
  BY <1>1 DEF Local

LEMMA PlainTodo ==
  ASSUME NEW td \in Seq(PlainSteps), NEW ob
  PROVE  TodoOK(td, ob)
<1>1. td \in Seq(Steps) /\ \A i \in 1 .. Len(td) : td[i] \in PlainSteps
  BY DEF PlainSteps
<1> QED
  BY <1>1 DEF TodoOK, StepOK, PlainSteps, SpawnOps

LEMMA SwapTodo ==
  ASSUME NEW s \in Seq(CallSteps), Len(s) = 1, NEW td \in Seq(PlainSteps), NEW ob, ~ob["b"].nil
  PROVE  TodoOK(s \o td, ob)
<1>1. s \in Seq(Steps) /\ td \in Seq(Steps)
  BY DEF PlainSteps, Steps
<1>2. /\ s \o td \in Seq(Steps) /\ Len(s \o td) = Len(s) + Len(td)
      /\ \A i \in 1 .. Len(s) + Len(td) : (s \o td)[i] = IF i <= Len(s) THEN s[i] ELSE td[i - Len(s)]
  BY <1>1, ConcatProperties
<1>3. \A i \in 1 .. Len(s \o td) : IF i = 1 THEN (s \o td)[i] \in CallSteps ELSE (s \o td)[i] \in PlainSteps
  BY <1>2
<1>4. \A c \in CallSteps : c.op = "call"
  BY DEF CallSteps, CallRecords
<1>5. \A i \in 1 .. Len(s \o td) : StepOK(s \o td, i, ob)
  BY <1>2, <1>3, <1>4 DEF StepOK, PlainSteps, SpawnOps
<1> QED
  BY <1>2, <1>5 DEF TodoOK

\* The first step is done.
LEMMA TailTodo ==
  ASSUME NEW td, NEW ob, NEW nb, TodoOK(td, ob), td # <<>>,
         (td[1].op = "spawn" \/ ~ob["m"].nil) => ~nb["m"].nil,
         (td[1].op = "call" /\ td[1].o = "m" /\ ~td[1].keep) => nb["m"].srv = 0,
         (td[1].op # "call" /\ ob["m"].srv = 0) => nb["m"].srv = 0
  PROVE  TodoOK(Tail(td), nb)
<1>1. td \in Seq(Steps) /\ Len(td) \in Nat \ {0}
  BY DEF TodoOK
<1>2. Tail(td) \in Seq(Steps) /\ Len(Tail(td)) = Len(td) - 1 /\ \A i \in 1 .. Len(td) - 1 : Tail(td)[i] = td[i + 1]
  BY <1>1
<1> SUFFICES ASSUME NEW i \in 1 .. Len(td) - 1 PROVE StepOK(Tail(td), i, nb)
  BY <1>2 DEF TodoOK
<1>3. i + 1 \in 1 .. Len(td) /\ StepOK(td, i + 1, ob) /\ i \in Nat \ {0} /\ i + 1 # 1
  BY <1>1 DEF TodoOK
<1>4. ~Swaps(Tail(td)[i]) /\ Tail(td)[i].op # "spawn"
  BY <1>2, <1>3 DEF StepOK
<1>5. ASSUME Tail(td)[i].op = "connect" PROVE ~nb["m"].nil /\ Released(Tail(td), i, nb)
  <2>1. (td[1].op = "spawn" \/ ~ob["m"].nil) /\ Released(td, i + 1, ob)
    BY <1>2, <1>3, <1>5 DEF StepOK
  <2>2. PICK k \in 0 .. (i + 1) - 1 :
          /\ k = 0 => ob["m"].srv = 0
          /\ k # 0 => td[k].op = "call" /\ td[k].o = "m" /\ ~td[k].keep
          /\ \A j \in k + 1 .. (i + 1) - 1 : td[j].op # "call"
    BY <2>1 DEF Released
  <2>3. \A j \in 1 .. i - 1 : j + 1 \in k + 1 .. (i + 1) - 1 => Tail(td)[j].op # "call"
    <3> SUFFICES ASSUME NEW j \in 1 .. i - 1, j + 1 \in k + 1 .. (i + 1) - 1 PROVE Tail(td)[j].op # "call"
      OBVIOUS
    <3>1. td[j + 1].op # "call"
      BY <2>2
    <3>2. Tail(td)[j] = td[j + 1]
      BY <1>1, <1>2
    <3> QED
      BY <3>1, <3>2
  <2>4. CASE k \in {0, 1}
    <3>1. nb["m"].srv = 0
      BY <2>2, <2>4, <1>3
    <3>2. ASSUME NEW j \in 0 + 1 .. i - 1 PROVE Tail(td)[j].op # "call"
      <4>1. k \in Nat /\ k <= 1 /\ i \in Nat
        BY <2>4, <1>3
      <4>2. j \in 1 .. i - 1 /\ j + 1 \in k + 1 .. (i + 1) - 1
        BY <4>1
      <4> QED
        BY <2>3, <4>2
    <3> QED
      BY <2>1, <3>1, <3>2, <1>3 DEF Released
  <2>5. CASE k \notin {0, 1}
    <3>1. k - 1 \in 0 .. i - 1 /\ k - 1 # 0 /\ Tail(td)[k - 1] = td[k]
      <4>1. k \in Nat /\ k >= 2 /\ k <= i /\ i \in Nat /\ i <= Len(td) - 1 /\ Len(td) \in Nat
        BY <1>1, <1>3, <2>5
      <4>2. k - 1 \in 0 .. i - 1 /\ k - 1 # 0 /\ k - 1 \in 1 .. Len(td) - 1 /\ (k - 1) + 1 = k
        BY <4>1
      <4>3. Tail(td)[k - 1] = td[(k - 1) + 1]
        BY <1>2, <4>2
      <4> QED
        BY <4>2, <4>3
    <3>2. \A j \in (k - 1) + 1 .. i - 1 : j \in 1 .. i - 1 /\ j + 1 \in k + 1 .. (i + 1) - 1
      <4>1. k \in Nat /\ k >= 2 /\ i \in Nat
        BY <2>5, <1>3
      <4> QED
        BY <4>1
    <3>3. \A j \in (k - 1) + 1 .. i - 1 : Tail(td)[j].op # "call"
      BY <2>3, <3>2
    <3> QED
      BY <2>1, <2>2, <2>5, <3>1, <3>3 DEF Released
  <2> QED
    BY <2>4, <2>5
<1> QED
  BY <1>4, <1>5 DEF StepOK

\* Nothing is done yet, and only the stream of an object that is called
\* changes.
LEMMA SameTodo ==
  ASSUME NEW td, NEW ob, NEW nb, TodoOK(td, ob),
         nb["m"].nil = ob["m"].nil, nb["b"].nil = ob["b"].nil,
         (td # <<>> /\ td[1].op # "call") => nb["m"].srv = ob["m"].srv
  PROVE  TodoOK(td, nb)
<1>1. td \in Seq(Steps) /\ \A i \in 1 .. Len(td) : StepOK(td, i, ob)
  BY DEF TodoOK
<1> SUFFICES ASSUME NEW i \in 1 .. Len(td) PROVE StepOK(td, i, nb)
  BY <1>1 DEF TodoOK
<1>2. td # <<>> /\ 1 \in 1 .. Len(td) /\ i \in Nat \ {0}
  BY <1>1
<1>3. Swaps(td[i]) => i = 1 /\ ~nb["b"].nil
  BY <1>1 DEF StepOK
<1>4. td[i].op = "spawn" => i = 1 /\ nb["m"].srv = 0
  BY <1>1, <1>2 DEF StepOK
<1>5. ASSUME td[i].op = "connect" PROVE Released(td, i, nb)
  <2>1. Released(td, i, ob)
    BY <1>1, <1>5 DEF StepOK
  <2>2. PICK k \in 0 .. i - 1 :
          /\ k = 0 => ob["m"].srv = 0
          /\ k # 0 => td[k].op = "call" /\ td[k].o = "m" /\ ~td[k].keep
          /\ \A j \in k + 1 .. i - 1 : td[j].op # "call"
    BY <2>1 DEF Released
  <2>3. k = 0 => td[1].op # "call"
    <3>1. CASE i = 1
      BY <3>1, <1>5
    <3>2. CASE i # 1
      BY <3>2, <1>2, <2>2
    <3> QED
      BY <3>1, <3>2
  <2> QED
    BY <2>2, <2>3, <1>2 DEF Released
<1>6. td[i].op = "connect" => (td[1].op = "spawn" \/ ~nb["m"].nil)
  BY <1>1 DEF StepOK
<1> QED
  BY <1>3, <1>4, <1>5, <1>6 DEF StepOK

----------------
(* Processes *)

LEMMA ProcUpdate ==
  ASSUME NEW pr, NEW ob, ProcOK(pr, ob), NEW p \in Pids, NEW x, ProcessOK(x, p, ob)
  PROVE  ProcOK([pr EXCEPT ![p] = x], ob)
BY DEF ProcOK

\* A session of a process is closed.
LEMMA SessionClosed ==
  ASSUME NEW pr, NEW ob, ProcOK(pr, ob), NEW p \in Pids, NEW o
  PROVE  ProcOK([pr EXCEPT ![p].sess = @ \ {o}], ob)
<1> DEFINE x == [pr[p] EXCEPT !.sess = @ \ {o}]
<1>1. ProcessOK(pr[p], p, ob) /\ DOMAIN pr[p] = ProcFields
  BY DEF ProcOK, ProcessOK
<1>2. DOMAIN x = ProcFields /\ x.sess = pr[p].sess \ {o} /\ x.st = pr[p].st /\ x.addr = pr[p].addr
      /\ x.copies = pr[p].copies
  BY <1>1 DEF ProcFields
<1>3. [pr EXCEPT ![p].sess = @ \ {o}] = [pr EXCEPT ![p] = x]
  OBVIOUS
<1> HIDE DEF x
<1>4. ProcessOK(x, p, ob)
  BY <1>1, <1>2 DEF ProcessOK
<1> QED
  BY <1>3, <1>4, ProcUpdate

\* A client closes its stream.
LEMMA StreamClosed ==
  ASSUME NEW pr, NEW ob, NEW nb, ProcOK(pr, ob), NEW o,
         \A x \in Clients : x # o => nb[x].srv = ob[x].srv
  PROVE  ProcOK(CloseStream(pr, o), nb) /\ \A p \in Pids : o \notin CloseStream(pr, o)[p].sess
<1>1. DOMAIN CloseStream(pr, o) = Pids
  BY DEF CloseStream
<1> SUFFICES ASSUME NEW p \in Pids
             PROVE  ProcessOK(CloseStream(pr, o)[p], p, nb) /\ o \notin CloseStream(pr, o)[p].sess
  BY <1>1 DEF ProcOK
<1> DEFINE x == CloseStream(pr, o)[p]
<1>2. ProcessOK(pr[p], p, ob) /\ DOMAIN pr[p] = ProcFields
  BY DEF ProcOK, ProcessOK
<1>3. x = [pr[p] EXCEPT !.sess = @ \ {o}, !.copies = @ \ {o}]
  BY DEF CloseStream
<1>4. DOMAIN x = ProcFields /\ x.sess = pr[p].sess \ {o} /\ x.st = pr[p].st /\ x.addr = pr[p].addr
      /\ x.copies = pr[p].copies \ {o}
  BY <1>2, <1>3 DEF ProcFields
<1> HIDE DEF x
<1>5. ProcessOK(x, p, nb) /\ o \notin x.sess
  BY <1>2, <1>4 DEF ProcessOK
<1> QED
  BY <1>5 DEF x

LEMMA ShutdownKeeps ==
  ASSUME NEW o, ProcOK(proc, obj), NEW p \in Pids
  PROVE  ProcOK([jsonrpc_shutdown_handler(p, o).proc EXCEPT ![p].sess = @ \ {o}], obj)
<1> DEFINE x == [[[proc[p] EXCEPT !.machine = {}] EXCEPT !.addr = Closed] EXCEPT !.sess = @ \cap {o}]
           y == [x EXCEPT !.sess = @ \ {o}]
<1>1. ProcessOK(proc[p], p, obj) /\ DOMAIN proc[p] = ProcFields /\ DOMAIN proc = Pids
  BY DEF ProcOK, ProcessOK
<1>2. jsonrpc_shutdown_handler(p, o).proc = [proc EXCEPT ![p] = x]
  BY DEF jsonrpc_shutdown_handler, Ok, close_sessions, close_acceptor
<1>3. DOMAIN x = ProcFields /\ x.st = proc[p].st /\ x.copies = proc[p].copies /\ x.sess \subseteq {o}
  BY <1>1 DEF ProcFields
<1> HIDE DEF x
<1>4. DOMAIN y = ProcFields /\ y.st = proc[p].st /\ y.copies = proc[p].copies /\ y.sess = {}
  BY <1>3 DEF ProcFields
<1>5. [[proc EXCEPT ![p] = x] EXCEPT ![p].sess = @ \ {o}] = [proc EXCEPT ![p] = y]
  BY <1>1
<1> HIDE DEF y
<1>6. ProcessOK(y, p, obj)
  BY <1>1, <1>4 DEF ProcessOK
<1> QED
  BY <1>2, <1>5, <1>6, ProcUpdate

LEMMA ForkKeeps ==
  ASSUME NEW o, ProcOK(proc, obj), NEW p \in Pids, Unused # {}
  PROVE  /\ ProcOK(jsonrpc_fork_handler(p, o).proc, obj)
         /\ \E q \in Pids : jsonrpc_fork_handler(p, o).res = <<q>>
<1>1. PICK q \in Pids : /\ jsonrpc_fork_handler(p, o).res = <<q>>
                        /\ jsonrpc_fork_handler(p, o).proc =
                             [proc EXCEPT ![q] = [proc[p] EXCEPT !.st = "child", !.addr = q,
                                !.inherits = @ \cup {proc[p].addr}, !.sess = {}, !.copies = proc[p].sess]]
  <2>1. PICK q \in Unused : \A r \in Unused : q <= r
    <3>1. Unused \subseteq Nat
      BY AddressFacts DEF Unused
    <3> QED
      BY <3>1, LeastNat
  <2>2. (CHOOSE u \in Unused : \A r \in Unused : u <= r) \in Unused
    BY <2>1
  <2> QED
    BY <2>2 DEF jsonrpc_fork_handler, Ok, Unused
<1> DEFINE x == [proc[p] EXCEPT !.st = "child", !.addr = q,
                   !.inherits = @ \cup {proc[p].addr}, !.sess = {}, !.copies = proc[p].sess]
<1>2. ProcessOK(proc[p], p, obj) /\ DOMAIN proc[p] = ProcFields
  BY DEF ProcOK, ProcessOK
<1>3. DOMAIN x = ProcFields /\ x.st = "child" /\ x.addr = q /\ x.sess = {}
  BY <1>2 DEF ProcFields
<1> HIDE DEF x
<1>4. ProcessOK(x, q, obj)
  BY <1>3, AddressFacts DEF ProcessOK
<1>5. ProcOK([proc EXCEPT ![q] = x], obj)
  BY <1>4, ProcUpdate
<1> QED
  BY <1>1, <1>5 DEF x

LEMMA RebindKeeps ==
  ASSUME NEW o, ProcOK(proc, obj), NEW p \in Pids, NEW a, a # Closed
  PROVE  LET r == jsonrpc_rebind_handler(p, o, a)
         IN  ProcOK(r.proc, obj) /\ (r.res # <<>> => r.res = <<a>>)
<1> DEFINE x == [proc[p] EXCEPT !.addr = a]
<1>1. ProcessOK(proc[p], p, obj) /\ DOMAIN proc[p] = ProcFields
  BY DEF ProcOK, ProcessOK
<1>2. DOMAIN x = ProcFields /\ x.st = proc[p].st /\ x.addr = a /\ x.sess = proc[p].sess /\ x.copies = proc[p].copies
  BY <1>1 DEF ProcFields
<1>3. [proc EXCEPT ![p].addr = a] = [proc EXCEPT ![p] = x]
  OBVIOUS
<1> HIDE DEF x
<1>4. ProcessOK(x, p, obj)
  BY <1>1, <1>2 DEF ProcessOK
<1>5. ProcOK([proc EXCEPT ![p].addr = a], obj)
  BY <1>3, <1>4, ProcUpdate
<1> QED
  BY <1>5 DEF jsonrpc_rebind_handler, Ok, Error

LEMMA MachineKeeps ==
  ASSUME ProcOK(proc, obj), NEW p \in Pids, NEW S
  PROVE  ProcOK([proc EXCEPT ![p].machine = S], obj)
<1> DEFINE x == [proc[p] EXCEPT !.machine = S]
<1>1. ProcessOK(proc[p], p, obj) /\ DOMAIN proc[p] = ProcFields
  BY DEF ProcOK, ProcessOK
<1>2. DOMAIN x = ProcFields /\ x.st = proc[p].st /\ x.addr = proc[p].addr /\ x.sess = proc[p].sess
      /\ x.copies = proc[p].copies
  BY <1>1 DEF ProcFields
<1>3. [proc EXCEPT ![p].machine = S] = [proc EXCEPT ![p] = x]
  OBVIOUS
<1> HIDE DEF x
<1>4. ProcessOK(x, p, obj)
  BY <1>1, <1>2 DEF ProcessOK
<1> QED
  BY <1>3, <1>4, ProcUpdate

LEMMA KilledKeeps ==
  ASSUME ProcOK(proc, obj), NEW p
  PROVE  ProcOK(Killed(p), obj)
<1>1. CASE p \in Pids /\ proc[p].st # "none"
  <2> DEFINE x == [NoProcess EXCEPT !.st = "gone"]
  <2>1. DOMAIN x = ProcFields /\ x.st = "gone" /\ x.sess = {}
    BY DEF NoProcess, ProcFields
  <2>2. Killed(p) = [proc EXCEPT ![p] = x]
    BY <1>1 DEF Killed
  <2> HIDE DEF x
  <2>3. ProcessOK(x, p, obj)
    BY <2>1 DEF ProcessOK
  <2>4. ProcOK([proc EXCEPT ![p] = x], obj)
    BY <1>1, <2>3, ProcUpdate
  <2> QED
    BY <2>2, <2>4
<1>2. CASE p \in Pids /\ proc[p].st = "none"
  <2>1. Killed(p) = [proc EXCEPT ![p] = proc[p]]
    BY <1>2 DEF Killed
  <2>2. ProcessOK(proc[p], p, obj)
    BY <1>2 DEF ProcOK
  <2>3. ProcOK([proc EXCEPT ![p] = proc[p]], obj)
    BY <1>2, <2>2, ProcUpdate
  <2> QED
    BY <2>1, <2>3
<1>3. CASE p \notin Pids
  BY <1>3 DEF Killed, ProcOK
<1> QED
  BY <1>1, <1>2, <1>3

LEMMA TerminatedKeeps ==
  ASSUME ProcOK(proc, obj)
  PROVE  ProcOK(Terminated(1), obj)
<1>1. 1 \in Pids /\ ProcessOK(proc[1], 1, obj) /\ DOMAIN proc[1] = ProcFields
  BY BoundsAssumption DEF ProcOK, ProcessOK, Pids
<1>2. CASE proc[1].st # "none"
  <2> DEFINE x == [[proc[1] EXCEPT !.addr = Closed] EXCEPT !.sess = @ \cap {}]
  <2>1. DOMAIN x = ProcFields /\ x.st = proc[1].st /\ x.sess = {} /\ x.copies = proc[1].copies
    BY <1>1 DEF ProcFields
  <2>2. Terminated(1) = [proc EXCEPT ![1] = x]
    BY <1>2 DEF Terminated, close_sessions, close_acceptor
  <2> HIDE DEF x
  <2>3. ProcessOK(x, 1, obj)
    BY <1>1, <2>1 DEF ProcessOK
  <2> QED
    BY <1>1, <2>2, <2>3, ProcUpdate
<1>3. CASE proc[1].st = "none"
  <2>1. Terminated(1) = [proc EXCEPT ![1] = proc[1]]
    BY <1>3 DEF Terminated
  <2> QED
    BY <1>1, <2>1, ProcUpdate
<1> QED
  BY <1>2, <1>3

LEMMA SpawnedKeeps ==
  ASSUME ProcOK(proc, obj)
  PROVE  ProcOK([proc EXCEPT ![1] = [NoProcess EXCEPT !.st = "up", !.addr = Home]], obj)
<1> DEFINE x == [NoProcess EXCEPT !.st = "up", !.addr = Home]
<1>1. DOMAIN x = ProcFields /\ x.sess = {} /\ x.copies = {}
  BY DEF NoProcess, ProcFields
<1> HIDE DEF x
<1>2. 1 \in Pids /\ ProcessOK(x, 1, obj)
  BY <1>1, BoundsAssumption DEF ProcessOK, Pids
<1> QED
  BY <1>2, ProcUpdate DEF x

----------------
(* Servers *)

LEMMA CurrentSound ==
  ASSUME IInv, NEW o \in Clients, call[o].st # "idle"
  PROVE  /\ call[o].m = "shutdown" => ~call[o].keep
         /\ call[o].m = "rebind" => call[o].arg # Closed
         /\ o = "b" => ~call[o].keep
<1>1. CASE o = "o"
  BY <1>1 DEF IInv, CallOK
<1>2. CASE o \in Users
  <2>1. Current(call[o], todo, o) /\ todo \in Seq(Steps)
    BY <1>2 DEF IInv, CallOK, TodoOK
  <2>2. todo[1] \in Steps /\ todo[1].op = "call"
    BY <2>1 DEF Current
  <2>3. todo[1] \in CallSteps
    BY <2>2 DEF Steps, LocalOps, SpawnOps
  <2>4. SoundCall(todo[1])
    BY <2>3 DEF CallSteps
  <2> QED
    BY <2>1, <2>4 DEF Current, SoundCall
<1> QED
  BY <1>1, <1>2 DEF Clients, Users

\* What an answer may be.
ResultOK(x, res) == res # <<>> => (x.m = "fork" => res[1] \in Pids) /\ (x.m = "rebind" => res[1] = x.arg)

LEMMA AnswerKeeps ==
  ASSUME CallOK(call, todo, obj), NEW o \in Clients, call[o].st = "sent", NEW p, NEW res, ResultOK(call[o], res)
  PROVE  CallOK([call EXCEPT ![o].st = "answered", ![o].by = p, ![o].res = res], todo, obj)
<1> DEFINE cl == [call EXCEPT ![o].st = "answered", ![o].by = p, ![o].res = res]
<1>1. CallRecordOK(call[o]) /\ DOMAIN call = Clients
  BY DEF CallOK
<1>2. /\ cl[o].st = "answered" /\ cl[o].m = call[o].m /\ cl[o].arg = call[o].arg /\ cl[o].keep = call[o].keep
      /\ cl[o].res = res /\ DOMAIN cl[o] = CallFields
  BY <1>1 DEF CallRecordOK, CallFields
<1>3. DOMAIN cl = Clients /\ \A x \in Clients : x # o => cl[x] = call[x]
  BY <1>1
<1> HIDE DEF cl
<1>4. CallRecordOK(cl[o])
  BY <1>1, <1>2 DEF CallRecordOK, ResultOK
<1>5. \A x \in Users : cl[x].st # "idle" => Current(cl[x], todo, x) /\ ~obj[x].nil
  BY <1>2, <1>3 DEF CallOK, Current, Users, Clients
<1>6. CallOK(cl, todo, obj)
  BY <1>2, <1>3, <1>4, <1>5 DEF CallOK, Users, Clients
<1> QED
  BY <1>6 DEF cl

\* The processes and the calls after an answer.
Answered(o, p) ==
  /\ ProcOK(proc', obj) /\ CallOK(call', todo, obj) /\ UNCHANGED <<obj, late>>
  /\ call'[o].by = p /\ \A x \in Clients : x # o => call'[x] = call[x]

LEMMA ReplyKeeps ==
  ASSUME IInv, NEW p \in Pids, NEW o \in Clients, call[o].st = "sent", NEW r, Reply(p, o, r),
         ProcOK(r.proc, obj) \/ (~call[o].keep /\ ProcOK([r.proc EXCEPT ![p].sess = @ \ {o}], obj)),
         ResultOK(call[o], r.res)
  PROVE  Answered(o, p)
<1>1. ProcOK(proc', obj)
  <2>1. CASE call[o].keep
    BY <2>1 DEF Reply
  <2>2. CASE ~call[o].keep
    <3>1. ProcOK(r.proc, obj) => ProcOK([r.proc EXCEPT ![p].sess = @ \ {o}], obj)
      BY SessionClosed
    <3> QED
      BY <2>2, <3>1 DEF Reply
  <2> QED
    BY <2>1, <2>2
<1>2. call' = [call EXCEPT ![o].st = "answered", ![o].by = p, ![o].res = r.res] /\ UNCHANGED <<obj, late>>
  BY DEF Reply
<1>3. CallOK(call, todo, obj) /\ CallRecordOK(call[o]) /\ DOMAIN call = Clients
  BY DEF IInv, CallOK
<1>4. CallOK(call', todo, obj)
  BY <1>2, <1>3, AnswerKeeps
<1>5. call'[o].by = p /\ \A x \in Clients : x # o => call'[x] = call[x]
  BY <1>2, <1>3 DEF CallRecordOK, CallFields
<1> QED
  BY <1>1, <1>2, <1>4, <1>5 DEF Answered

LEMMA HandleKeeps ==
  ASSUME IInv, NEW p \in Pids, NEW o \in Clients, Handle(p, o)
  PROVE  Answered(o, p) /\ call[o].st = "sent" /\ proc[p].st = "up" /\ o \in proc[p].sess \cup proc[p].copies
<1>1. ProcOK(proc, obj)
  BY DEF IInv
<1>2. call[o].st = "sent" /\ proc[p].st = "up" /\ o \in proc[p].sess \cup proc[p].copies
  BY DEF Handle, HandleServer, HandleMachine, Requested
<1> SUFFICES Answered(o, p)
  BY <1>2
<1>3. call[o].st # "idle" /\ (call[o].m = "rebind" => call[o].arg # Closed)
  BY <1>2, CurrentSound
<1>4. ASSUME NEW r, Reply(p, o, r), r.proc = proc, r.res = <<>> PROVE Answered(o, p)
  BY <1>1, <1>2, <1>4, ReplyKeeps DEF ResultOK
<1>5. ASSUME NEW m, Requested(p, o, m), m \notin {"fork", "rebind"}, NEW S, NEW v,
             Reply(p, o, Ok([proc EXCEPT ![p].machine = S], v))
      PROVE  Answered(o, p)
  <2>1. ProcOK([proc EXCEPT ![p].machine = S], obj)
    BY <1>1, MachineKeeps
  <2>2. ResultOK(call[o], <<v>>)
    BY <1>5 DEF ResultOK, Requested
  <2> QED
    BY <1>2, <1>5, <2>1, <2>2, ReplyKeeps DEF Ok
<1>6. CASE Requested(p, o, "get_version") /\ Reply(p, o, jsonrpc_get_version_handler(p, o))
  <2>1. ResultOK(call[o], <<0>>)
    BY <1>6 DEF ResultOK, Requested
  <2> QED
    BY <1>1, <1>2, <1>6, <2>1, ReplyKeeps DEF jsonrpc_get_version_handler, Ok
<1>7. CASE Requested(p, o, "shutdown") /\ Reply(p, o, jsonrpc_shutdown_handler(p, o))
  <2>1. ~call[o].keep
    BY <1>3, <1>7, CurrentSound DEF Requested
  <2>2. ProcOK([jsonrpc_shutdown_handler(p, o).proc EXCEPT ![p].sess = @ \ {o}], obj)
    BY <1>1, ShutdownKeeps
  <2>3. ResultOK(call[o], jsonrpc_shutdown_handler(p, o).res)
    BY <1>7 DEF ResultOK, Requested
  <2> QED
    BY <1>2, <1>7, <2>1, <2>2, <2>3, ReplyKeeps
<1>8. CASE Requested(p, o, "rebind") /\ Reply(p, o, jsonrpc_rebind_handler(p, o, call[o].arg))
  <2> DEFINE r == jsonrpc_rebind_handler(p, o, call[o].arg)
  <2>1. call[o].m = "rebind" /\ call[o].arg # Closed
    BY <1>3, <1>8 DEF Requested
  <2>2. ProcOK(r.proc, obj) /\ (r.res # <<>> => r.res = <<call[o].arg>>)
    BY <1>1, <2>1, RebindKeeps
  <2> HIDE DEF r
  <2>3. ResultOK(call[o], r.res)
    BY <2>1, <2>2 DEF ResultOK
  <2>4. Reply(p, o, r)
    BY <1>8 DEF r
  <2> QED
    BY <1>2, <2>2, <2>3, <2>4, ReplyKeeps
<1>9. CASE Requested(p, o, "fork") /\ Unused # {} /\ Reply(p, o, jsonrpc_fork_handler(p, o))
  <2> DEFINE r == jsonrpc_fork_handler(p, o)
  <2>1. call[o].m = "fork"
    BY <1>9 DEF Requested
  <2>2. ProcOK(r.proc, obj) /\ \E q \in Pids : r.res = <<q>>
    BY <1>1, <1>9, ForkKeeps
  <2>3. Reply(p, o, r)
    BY <1>9
  <2> HIDE DEF r
  <2>4. ResultOK(call[o], r.res)
    BY <2>1, <2>2 DEF ResultOK
  <2> QED
    BY <1>2, <2>2, <2>3, <2>4, ReplyKeeps
<1>10. CASE HandleServer(p, o)
  <2>1. CASE Reply(p, o, Error(proc))
    BY <2>1, <1>4 DEF Error
  <2>2. CASE Requested(p, o, "destroy") /\ Reply(p, o, jsonrpc_machine_destroy_handler(p, o))
    BY <2>2, <1>5 DEF jsonrpc_machine_destroy_handler
  <2> QED
    BY <1>6, <1>7, <1>8, <1>9, <1>10, <2>1, <2>2 DEF HandleServer
<1>11. CASE HandleMachine(p, o)
  <2>1. CASE Reply(p, o, Error(proc))
    BY <2>1, <1>4 DEF Error
  <2>2. CASE Requested(p, o, "create") /\ Reply(p, o, jsonrpc_machine_create_handler(p, o, Booted))
    BY <2>1, <2>2, <1>5 DEF jsonrpc_machine_create_handler
  <2>3. ASSUME NEW m \in {"run", "send_cmio_response", "read"}, Requested(p, o, m), NEW d,
               Reply(p, o, MachineHandler(p, d))
        PROVE  Answered(o, p)
    BY <2>1, <2>3, <1>5 DEF MachineHandler
  <2> QED
    BY <1>11, <2>1, <2>2, <2>3 DEF HandleMachine
<1> QED
  BY <1>2, <1>10, <1>11 DEF Handle

----------------
(* Clients *)

LEMMA SessionOpened ==
  ASSUME NEW pr, NEW nb, ProcOK(pr, nb), NEW s \in Pids, pr[s].addr # Closed, NEW o \in Clients, nb[o].srv = s
  PROVE  ProcOK([pr EXCEPT ![s].sess = @ \cup {o}], nb)
<1> DEFINE x == [pr[s] EXCEPT !.sess = @ \cup {o}]
<1>1. ProcessOK(pr[s], s, nb) /\ DOMAIN pr[s] = ProcFields
  BY DEF ProcOK, ProcessOK
<1>2. DOMAIN x = ProcFields /\ x.sess = pr[s].sess \cup {o} /\ x.st = pr[s].st /\ x.addr = pr[s].addr
      /\ x.copies = pr[s].copies
  BY <1>1 DEF ProcFields
<1>3. [pr EXCEPT ![s].sess = @ \cup {o}] = [pr EXCEPT ![s] = x]
  OBVIOUS
<1> HIDE DEF x
<1>4. ProcessOK(x, s, nb)
  BY <1>1, <1>2 DEF ProcessOK
<1> QED
  BY <1>3, <1>4, ProcUpdate

\* The processes do not notice a change of an object without a stream.
LEMMA OtherObjects ==
  ASSUME NEW pr, NEW ob, NEW nb, ProcOK(pr, ob),
         \A x \in Clients : nb[x].srv = ob[x].srv \/ ob[x].srv = 0
  PROVE  ProcOK(pr, nb)
BY AddressFacts DEF ProcOK, ProcessOK

\* Of two objects the script calls one at a time.
LEMMA UsersIdle ==
  ASSUME CallOK(call, todo, obj), NEW o \in Users,
         todo = <<>> \/ todo[1].op # "call" \/ todo[1].o # o
  PROVE  call[o].st = "idle"
BY DEF CallOK, Current

\* The effect of a request that is sent.
SentBy(o, m, arg, keep) ==
  /\ ProcOK(proc', obj') /\ ObjOK(obj') /\ UNCHANGED late
  /\ call[o].st = "idle" /\ ~obj[o].nil
  /\ obj'[o].nil = obj[o].nil /\ \A x \in Clients : x # o => obj'[x] = obj[x]
  /\ call' = [call EXCEPT ![o] = [Idle EXCEPT !.st = "sent", !.m = m, !.arg = arg, !.keep = keep]]

LEMMA SendKeeps ==
  ASSUME IInv, NEW o \in Clients, NEW m, NEW arg, NEW keep \in BOOLEAN, Send(o, m, arg, keep)
  PROVE  SentBy(o, m, arg, keep)
<1> DEFINE s == IF Reuses(o) THEN obj[o].srv ELSE CHOOSE p \in Listening(obj[o].addr) : TRUE
           pr == IF Reuses(o) THEN proc ELSE CloseStream(proc, o)
<1>1. /\ call[o].st = "idle" /\ CanSend(o) /\ UNCHANGED late
      /\ proc' = [pr EXCEPT ![s].sess = @ \cup {o}]
      /\ obj' = [obj EXCEPT ![o].srv = s, ![o].ep = obj[o].addr]
      /\ call' = [call EXCEPT ![o] = [Idle EXCEPT !.st = "sent", !.m = m, !.arg = arg, !.keep = keep]]
  BY DEF Send
<1>2. ObjOK(obj) /\ ObjectOK(obj[o]) /\ DOMAIN obj = Clients /\ ProcOK(proc, obj)
  BY DEF IInv, ObjOK
<1>3. obj[o].ok /\ ~obj[o].nil /\ obj[o].addr # Closed
  BY <1>1, <1>2 DEF CanSend, ObjectOK
<1>4. s \in Pids /\ proc[s].addr # Closed
  <2>1. CASE Reuses(o)
    <3>1. s = obj[o].srv /\ s \in Pids /\ o \in proc[s].sess
      BY <1>1, <1>2, <2>1 DEF Reuses, CanSend, ObjectOK
    <3> HIDE DEF s
    <3> QED
      BY <1>2, <3>1 DEF ProcOK, ProcessOK
  <2>2. CASE ~Reuses(o)
    <3>1. s \in Listening(obj[o].addr)
      BY <1>1, <2>2 DEF CanSend
    <3> HIDE DEF s
    <3> QED
      BY <1>3, <3>1 DEF Listening
  <2> QED
    BY <2>1, <2>2
<1> HIDE DEF s
<1>5. /\ DOMAIN obj' = Clients /\ obj'[o].srv = s /\ DOMAIN obj'[o] = ObjFields /\ obj'[o].nil = obj[o].nil
      /\ obj'[o].ok = obj[o].ok /\ obj'[o].addr = obj[o].addr
      /\ \A x \in Clients : x # o => obj'[x] = obj[x]
  BY <1>1, <1>2 DEF ObjectOK, ObjFields
<1>6. ObjOK(obj')
  <2>1. ObjectOK(obj'[o])
    BY <1>2, <1>4, <1>5 DEF ObjectOK
  <2>2. obj'["b"].nil = obj["b"].nil /\ obj'["m"].nil = obj["m"].nil
    BY <1>5 DEF Clients
  <2> QED
    BY <1>2, <1>5, <2>1, <2>2 DEF ObjOK
<1>7. ProcOK(pr, obj') /\ pr[s].addr # Closed
  <2>1. CASE Reuses(o)
    <3>1. s = obj[o].srv /\ pr = proc
      BY <2>1 DEF s
    <3>2. \A x \in Clients : obj'[x].srv = obj[x].srv
      BY <1>5, <3>1
    <3> QED
      BY <1>2, <1>4, <3>1, <3>2, OtherObjects
  <2>2. CASE ~Reuses(o)
    <3>1. ProcOK(CloseStream(proc, o), obj')
      BY <1>2, <1>5, StreamClosed
    <3>2. CloseStream(proc, o)[s].addr = proc[s].addr
      BY <1>2, <1>4 DEF CloseStream, ProcOK, ProcessOK, ProcFields
    <3> QED
      BY <1>4, <2>2, <3>1, <3>2
  <2> QED
    BY <2>1, <2>2
<1> HIDE DEF pr
<1>8. ProcOK(proc', obj')
  BY <1>1, <1>4, <1>5, <1>7, SessionOpened
<1> QED
  BY <1>1, <1>3, <1>5, <1>6, <1>8 DEF SentBy

\* The object o after its stream is closed, or kept.
LEMMA DisconnectedKeeps ==
  ASSUME IInv, NEW o \in Clients, NEW nb, nb = [obj EXCEPT ![o] = Disconnected(@)]
  PROVE  /\ ProcOK(CloseStream(proc, o), nb) /\ ObjOK(nb)
         /\ nb[o].srv = 0 /\ nb[o].nil = obj[o].nil /\ \A x \in Clients : x # o => nb[x] = obj[x]
<1>1. ObjOK(obj) /\ ObjectOK(obj[o]) /\ DOMAIN obj = Clients /\ ProcOK(proc, obj)
  BY DEF IInv, ObjOK
<1>2. /\ DOMAIN nb = Clients /\ nb[o].srv = 0 /\ DOMAIN nb[o] = ObjFields /\ nb[o].nil = obj[o].nil
      /\ nb[o].ok = obj[o].ok /\ nb[o].addr = obj[o].addr
      /\ \A x \in Clients : x # o => nb[x] = obj[x]
  BY <1>1 DEF ObjectOK, ObjFields, Disconnected
<1>3. ObjectOK(nb[o])
  BY <1>1, <1>2 DEF ObjectOK
<1>4. nb["b"].nil = obj["b"].nil /\ nb["m"].nil = obj["m"].nil
  BY <1>2 DEF Clients
<1>5. ObjOK(nb)
  BY <1>1, <1>2, <1>3, <1>4 DEF ObjOK
<1>6. ProcOK(CloseStream(proc, o), nb)
  BY <1>1, <1>2, StreamClosed
<1> QED
  BY <1>2, <1>5, <1>6

\* No call of o is under way any more.
LEMMA IdleKeeps ==
  ASSUME CallOK(call, todo, obj), NEW o \in Clients, NEW cl, cl = call \/ cl = [call EXCEPT ![o] = Idle],
         NEW td, NEW nb,
         \A x \in Users : cl[x].st = "idle",
         nb["b"].srv = 0
  PROVE  CallOK(cl, td, nb)
<1>1. DOMAIN cl = Clients /\ \A x \in Clients : cl[x] = call[x] \/ cl[x] = Idle
  BY DEF CallOK
<1>2. CallRecordOK(Idle) /\ Idle.st = "idle"
  BY DEF Idle, CallRecordOK, CallFields
<1>3. \A x \in Clients : CallRecordOK(cl[x])
  BY <1>1, <1>2 DEF CallOK
<1>4. cl["o"].st # "idle" => cl["o"].m = "get_version"
  BY <1>1, <1>2 DEF CallOK, Clients
<1> QED
  BY <1>1, <1>3, <1>4 DEF CallOK

LEMMA SentKeeps ==
  ASSUME IInv, NEW o \in Clients, NEW m, NEW arg, NEW keep \in BOOLEAN, NEW nb, NEW cl,
         cl = [call EXCEPT ![o] = [Idle EXCEPT !.st = "sent", !.m = m, !.arg = arg, !.keep = keep]],
         ~obj[o].nil, nb[o].nil = obj[o].nil, \A x \in Clients : x # o => nb[x] = obj[x],
         o = "o" => m = "get_version",
         o \in Users => /\ todo # <<>> /\ todo[1].op = "call" /\ todo[1].o = o
                        /\ todo[1].m = m /\ todo[1].arg = arg /\ todo[1].keep = keep
  PROVE  CallOK(cl, todo, nb)
<1>1. CallOK(call, todo, obj) /\ DOMAIN call = Clients
  BY DEF IInv, CallOK
<1>2. /\ cl[o].st = "sent" /\ cl[o].m = m /\ cl[o].arg = arg /\ cl[o].keep = keep /\ DOMAIN cl[o] = CallFields
      /\ DOMAIN cl = Clients /\ \A x \in Clients : x # o => cl[x] = call[x]
  BY <1>1 DEF Idle, CallFields
<1>3. CallRecordOK(cl[o])
  BY <1>2 DEF CallRecordOK
<1>4. \A x \in Users : cl[x].st # "idle" => Current(cl[x], todo, x) /\ ~nb[x].nil
  <2> SUFFICES ASSUME NEW x \in Users, cl[x].st # "idle" PROVE Current(cl[x], todo, x) /\ ~nb[x].nil
    OBVIOUS
  <2>1. CASE x = o
    BY <1>2, <2>1 DEF Current
  <2>2. CASE x # o
    <3>1. x \in Clients
      BY DEF Users, Clients
    <3> QED
      BY <1>1, <1>2, <2>2, <3>1 DEF CallOK
  <2> QED
    BY <2>1, <2>2
<1>5. cl["o"].st # "idle" => cl["o"].m = "get_version"
  BY <1>1, <1>2 DEF CallOK, Clients
<1>6. cl["b"].st = "idle" => nb["b"].srv = 0
  BY <1>1, <1>2 DEF CallOK, Clients
<1>7. \A x \in Clients : CallRecordOK(cl[x])
  BY <1>1, <1>2, <1>3 DEF CallOK
<1> QED
  BY <1>2, <1>4, <1>5, <1>6, <1>7 DEF CallOK

LEMMA DoingCall ==
  ASSUME IInv, Doing("call")
  PROVE  /\ todo # <<>> /\ Head(todo) = todo[1] /\ todo[1].op = "call" /\ SoundCall(todo[1])
         /\ todo[1].o \in Users /\ todo[1].o \in Clients /\ todo[1].keep \in BOOLEAN
         /\ todo[1].then \in Thens /\ todo \in Seq(Steps) /\ Len(todo) \in Nat \ {0}
         /\ \A x \in Users : x # todo[1].o => call[x].st = "idle"
<1>1. todo \in Seq(Steps) /\ todo # <<>> /\ Head(todo) = todo[1] /\ todo[1].op = "call"
  BY DEF IInv, TodoOK, Doing
<1>2. todo[1] \in Steps
  BY <1>1
<1>3. todo[1] \in CallSteps
  BY <1>1, <1>2 DEF Steps, LocalOps, SpawnOps
<1>4. todo[1] \in CallRecords /\ SoundCall(todo[1])
  BY <1>3 DEF CallSteps
<1>5. \A x \in Users : x # todo[1].o => call[x].st = "idle"
  BY UsersIdle DEF IInv
<1> QED
  BY <1>1, <1>4, <1>5 DEF CallRecords, Users, Clients

\* What a step of the script leaves alone.
LEMMA ScriptKept ==
  ASSUME ScriptOK, UNCHANGED <<opts, next, grand>>
  PROVE  ScriptOK'
BY DEF ScriptOK, Inputs

LEMMA CallSendKeeps ==
  ASSUME IInv, CallSend
  PROVE  IInv'
<1> DEFINE c == todo[1]
<1>1. /\ todo # <<>> /\ Head(todo) = c /\ c.op = "call" /\ c.o \in Users /\ c.o \in Clients /\ c.keep \in BOOLEAN
      /\ \A x \in Users : x # c.o => call[x].st = "idle"
  BY DoingCall DEF CallSend
<1>2. Send(c.o, c.m, c.arg, c.keep) /\ UNCHANGED scriptVars
  BY <1>1 DEF CallSend
<1>3. UNCHANGED <<opts, todo, next, grand>>
  BY <1>2 DEF scriptVars
<1>4. /\ ProcOK(proc', obj') /\ ObjOK(obj') /\ UNCHANGED late /\ call[c.o].st = "idle" /\ ~obj[c.o].nil
      /\ obj'[c.o].nil = obj[c.o].nil /\ \A x \in Clients : x # c.o => obj'[x] = obj[x]
      /\ call' = [call EXCEPT ![c.o] = [Idle EXCEPT !.st = "sent", !.m = c.m, !.arg = c.arg, !.keep = c.keep]]
  <2>1. SentBy(c.o, c.m, c.arg, c.keep)
    BY <1>1, <1>2, SendKeeps
  <2> QED
    BY <2>1 DEF SentBy
<1>5. CallOK(call', todo, obj')
  BY <1>1, <1>4, SentKeeps DEF Users
<1>6. TodoOK(todo, obj')
  <2>1. TodoOK(todo, obj) /\ obj'["m"].nil = obj["m"].nil /\ obj'["b"].nil = obj["b"].nil
    BY <1>4 DEF IInv, Clients
  <2> QED
    BY <1>1, <2>1, SameTodo
<1>7. LateOK(late') /\ ScriptOK'
  BY <1>3, <1>4, ScriptKept DEF IInv
<1> QED
  BY <1>3, <1>4, <1>5, <1>6, <1>7 DEF IInv

\* The objects when an answer has been read.
LEMMA AfterAnswerKeeps ==
  ASSUME IInv, NEW o \in Clients, NEW nb, nb = AfterAnswer(o), NEW pr,
         pr = IF call[o].keep THEN proc ELSE CloseStream(proc, o)
  PROVE  /\ ProcOK(pr, nb) /\ ObjOK(nb)
         /\ nb[o].nil = obj[o].nil /\ (~call[o].keep => nb[o].srv = 0)
         /\ \A x \in Clients : x # o => nb[x] = obj[x]
<1>0. DOMAIN obj = Clients /\ ProcOK(proc, obj) /\ ObjOK(obj)
  BY DEF IInv, ObjOK
<1>1. CASE call[o].keep
  <2>1. nb = [obj EXCEPT ![o] = obj[o]] /\ pr = proc
    BY <1>1 DEF AfterAnswer
  <2>2. DOMAIN nb = Clients /\ \A x \in Clients : nb[x] = obj[x]
    BY <1>0, <2>1
  <2>3. ObjOK(nb)
    BY <1>0, <2>2 DEF ObjOK, Clients
  <2>4. ProcOK(proc, nb)
    BY <1>0, <2>2, OtherObjects
  <2> QED
    BY <1>1, <2>1, <2>2, <2>3, <2>4
<1>2. CASE ~call[o].keep
  <2>1. nb = [obj EXCEPT ![o] = Disconnected(@)] /\ pr = CloseStream(proc, o)
    BY <1>2 DEF AfterAnswer
  <2> QED
    BY <2>1, DisconnectedKeeps
<1> QED
  BY <1>1, <1>2

\* A call fails after it was sent.
LEMMA GivenUpKeeps ==
  ASSUME IInv, NEW o \in Clients, ReceiveFails(o)
  PROVE  /\ LateOK(late') /\ proc' = CloseStream(proc, o) /\ obj' = [obj EXCEPT ![o] = Disconnected(@)]
         /\ call' = [call EXCEPT ![o] = Idle] /\ call[o].st # "idle"
<1>1. /\ proc' = CloseStream(proc, o) /\ obj' = [obj EXCEPT ![o] = Disconnected(@)]
      /\ call' = [call EXCEPT ![o] = Idle] /\ call[o].st # "idle"
  BY DEF ReceiveFails, Broken
<1>2. LateOK(late)
  BY DEF IInv
<1>3. CASE call[o].st = "sent" /\ ~Broken(o) /\
           late' = late \cup {[srv |-> obj[o].srv, m |-> call[o].m, arg |-> call[o].arg]}
  <2>1. PICK p \in Pids : o \in proc[p].sess
    BY <1>3 DEF Broken
  <2>2. obj[o].srv \in Pids
    BY <2>1 DEF IInv, ProcOK, ProcessOK
  <2>3. call[o].m = "rebind" => call[o].arg # Closed
    BY <1>1, CurrentSound
  <2> QED
    BY <1>1, <1>2, <1>3, <2>2, <2>3 DEF LateOK
<1>4. CASE late' = late
  BY <1>1, <1>2, <1>4
<1> QED
  BY <1>3, <1>4 DEF ReceiveFails

LEMMA ObserverKeeps ==
  ASSUME IInv, Observer
  PROVE  IInv'
<1>1. "o" \in Clients /\ UNCHANGED <<opts, todo, next, grand>>
  BY DEF Clients, Observer, scriptVars
<1>2. ScriptOK' /\ TodoOK(todo, obj) /\ CallOK(call, todo, obj) /\ LateOK(late)
  BY <1>1, ScriptKept DEF IInv
<1>3. ASSUME \A x \in Clients : x # "o" => obj'[x] = obj[x] PROVE TodoOK(todo', obj')
  <2>1. obj'["m"] = obj["m"] /\ obj'["b"] = obj["b"]
    BY <1>3 DEF Clients
  <2> QED
    BY <1>1, <1>2, <2>1, SameTodo
<1>4. ASSUME \A x \in Clients : x # "o" => obj'[x] = obj[x], call' = call \/ call' = [call EXCEPT !["o"] = Idle]
      PROVE  CallOK(call', todo', obj')
  <2>1. DOMAIN call = Clients
    BY <1>2 DEF CallOK
  <2>2. /\ DOMAIN call' = Clients /\ (call'["o"] = call["o"] \/ call'["o"] = Idle)
        /\ call'["m"] = call["m"] /\ call'["b"] = call["b"] /\ obj'["m"] = obj["m"] /\ obj'["b"] = obj["b"]
    BY <1>4, <2>1 DEF Clients
  <2>3. CallRecordOK(Idle) /\ Idle.st = "idle"
    BY DEF Idle, CallRecordOK, CallFields
  <2>4. \A x \in Clients : CallRecordOK(call'[x])
    BY <1>2, <2>2, <2>3 DEF CallOK, Clients
  <2> QED
    BY <1>1, <1>2, <2>2, <2>3, <2>4 DEF CallOK, Users
<1>5. CASE Send("o", "get_version", Closed, TRUE)
  <2>1. /\ ProcOK(proc', obj') /\ ObjOK(obj') /\ UNCHANGED late /\ ~obj["o"].nil
        /\ obj'["o"].nil = obj["o"].nil /\ \A x \in Clients : x # "o" => obj'[x] = obj[x]
        /\ call' = [call EXCEPT !["o"] = [Idle EXCEPT !.st = "sent", !.m = "get_version", !.arg = Closed, !.keep = TRUE]]
    <3>1. SentBy("o", "get_version", Closed, TRUE)
      BY <1>1, <1>5, SendKeeps
    <3> QED
      BY <3>1 DEF SentBy
  <2>2. CallOK(call', todo, obj')
    BY <1>1, <2>1, SentKeeps DEF Users
  <2> QED
    BY <1>1, <1>2, <1>3, <2>1, <2>2 DEF IInv
<1>6. CASE SendFails("o")
  <2>1. proc' = CloseStream(proc, "o") /\ obj' = [obj EXCEPT !["o"] = Disconnected(@)] /\ UNCHANGED <<call, late>>
    BY <1>6 DEF SendFails
  <2>2. ProcOK(proc', obj') /\ ObjOK(obj') /\ \A x \in Clients : x # "o" => obj'[x] = obj[x]
    BY <1>1, <2>1, DisconnectedKeeps
  <2> QED
    BY <1>2, <1>3, <1>4, <2>1, <2>2 DEF IInv
<1>7. CASE Receive("o", AfterAnswer("o"))
  <2>1. /\ proc' = (IF call["o"].keep THEN proc ELSE CloseStream(proc, "o")) /\ obj' = AfterAnswer("o")
        /\ call' = [call EXCEPT !["o"] = Idle] /\ UNCHANGED late
    BY <1>7 DEF Receive
  <2>2. ProcOK(proc', obj') /\ ObjOK(obj') /\ \A x \in Clients : x # "o" => obj'[x] = obj[x]
    BY <1>1, <2>1, AfterAnswerKeeps
  <2> QED
    BY <1>2, <1>3, <1>4, <2>1, <2>2 DEF IInv
<1>8. CASE ReceiveFails("o")
  <2>1. /\ LateOK(late') /\ proc' = CloseStream(proc, "o") /\ obj' = [obj EXCEPT !["o"] = Disconnected(@)]
        /\ call' = [call EXCEPT !["o"] = Idle]
    BY <1>1, <1>8, GivenUpKeeps
  <2>2. ProcOK(proc', obj') /\ ObjOK(obj') /\ \A x \in Clients : x # "o" => obj'[x] = obj[x]
    BY <1>1, <2>1, DisconnectedKeeps
  <2> QED
    BY <1>2, <1>3, <1>4, <2>1, <2>2 DEF IInv
<1> QED
  BY <1>5, <1>6, <1>7, <1>8 DEF Observer

----------------
(* The script *)

\* An error is raised: nothing that is left to do connects or swaps.
LEMMA RaiseKeeps ==
  ASSUME IInv, Raise, ProcOK(proc', obj'), ObjOK(obj'), LateOK(late'),
         \E o \in Clients : call' = call \/ call' = [call EXCEPT ![o] = Idle],
         \A x \in Users : call'[x].st = "idle",
         obj'["b"].srv = 0
  PROVE  IInv'
<1>1. todo' \in Seq(PlainSteps)
  <2>1. /\ Local("kill") \in Seq(PlainSteps) /\ Local("terminate") \in Seq(PlainSteps)
        /\ Local("wait") \in Seq(PlainSteps) /\ Local("end") \in Seq(PlainSteps)
    BY LocalIsStep DEF LocalOps
  <2>2. SpawnCleanup \in Seq(PlainSteps)
    BY <2>1 DEF SpawnCleanup
  <2> QED
    BY <2>2 DEF Raise
<1>2. TodoOK(todo', obj')
  BY <1>1, PlainTodo
<1>3. CallOK(call', todo', obj')
  BY IdleKeeps DEF IInv
<1>4. ScriptOK'
  BY ScriptKept DEF IInv, Raise, KeepScript
<1> QED
  BY <1>2, <1>3, <1>4 DEF IInv

LEMMA IdleField == Idle.st = "idle"
BY DEF Idle

LEMMA CallFailsKeeps ==
  ASSUME IInv, CallFails
  PROVE  IInv'
<1> DEFINE o == todo[1].o
<1>1. /\ Head(todo) = todo[1] /\ o \in Users /\ o \in Clients
      /\ \A x \in Users : x # o => call[x].st = "idle"
  BY DoingCall DEF CallFails
<1>2. Raise /\ CallOK(call, todo, obj) /\ LateOK(late) /\ DOMAIN call = Clients
  BY DEF CallFails, IInv, CallOK
<1> HIDE DEF o
<1>3. "b" # o => call["b"].st = "idle" /\ obj["b"].srv = 0
  BY <1>1, <1>2 DEF CallOK, Users
<1>4. ASSUME call' = [call EXCEPT ![o] = Idle] PROVE \A x \in Users : call'[x].st = "idle"
  BY <1>1, <1>2, <1>4, IdleField DEF Users, Clients
<1>5. ASSUME obj' = [obj EXCEPT ![o] = Disconnected(@)], proc' = CloseStream(proc, o)
      PROVE  ProcOK(proc', obj') /\ ObjOK(obj') /\ obj'["b"].srv = 0
  <2>1. /\ ProcOK(CloseStream(proc, o), obj') /\ ObjOK(obj')
        /\ obj'[o].srv = 0 /\ \A x \in Clients : x # o => obj'[x] = obj[x]
    BY <1>1, <1>5, DisconnectedKeeps
  <2> QED
    BY <1>3, <1>5, <2>1 DEF Clients
<1>6. CASE SendFails(o)
  <2>1. proc' = CloseStream(proc, o) /\ obj' = [obj EXCEPT ![o] = Disconnected(@)] /\ UNCHANGED <<call, late>>
        /\ call[o].st = "idle"
    BY <1>6 DEF SendFails
  <2>2. \A x \in Users : call'[x].st = "idle"
    BY <1>1, <2>1
  <2> QED
    BY <1>1, <1>2, <1>5, <2>1, <2>2, RaiseKeeps
<1>7. CASE ReceiveFails(o)
  <2>1. /\ LateOK(late') /\ proc' = CloseStream(proc, o) /\ obj' = [obj EXCEPT ![o] = Disconnected(@)]
        /\ call' = [call EXCEPT ![o] = Idle]
    BY <1>1, <1>7, GivenUpKeeps
  <2> QED
    BY <1>1, <1>2, <1>4, <1>5, <2>1, RaiseKeeps
<1>8. CASE Receive(o, AfterAnswer(o))
  <2>1. /\ proc' = (IF call[o].keep THEN proc ELSE CloseStream(proc, o)) /\ obj' = AfterAnswer(o)
        /\ call' = [call EXCEPT ![o] = Idle] /\ UNCHANGED late /\ call[o].st # "idle"
    BY <1>8 DEF Receive
  <2>2. /\ ProcOK(proc', obj') /\ ObjOK(obj') /\ (~call[o].keep => obj'[o].srv = 0)
        /\ \A x \in Clients : x # o => obj'[x] = obj[x]
    BY <1>1, <2>1, AfterAnswerKeeps
  <2>3. o = "b" => ~call[o].keep
    BY <1>1, <2>1, CurrentSound
  <2>4. obj'["b"].srv = 0
    BY <1>3, <2>2, <2>3 DEF Clients
  <2> QED
    BY <1>1, <1>2, <1>4, <2>1, <2>2, <2>4, RaiseKeeps
<1> QED
  BY <1>1, <1>6, <1>7, <1>8 DEF CallFails, o

\* The objects nb as a call that has returned leaves them, which were ob
\* when its answer was read.
Settled(ob, nb) ==
  /\ ObjOK(nb) /\ nb["b"].srv = 0
  /\ \A x \in Clients : nb[x].srv = ob[x].srv \/ ob[x].srv = 0
  /\ ~ob["m"].nil => ~nb["m"].nil
  /\ ob["m"].srv = 0 => nb["m"].srv = 0

LEMMA ReturnedKeeps ==
  ASSUME NEW o \in Users, NEW then \in Thens, NEW v, NEW ob, ob = AfterAnswer(o), ObjOK(ob), ob["b"].srv = 0,
         then = "swap" => ob["m"].srv = 0 /\ ~ob["b"].nil,
         then = "backup" => v \in Pids /\ ~ob["m"].nil,
         then \in {"address", "rolled_back"} => v \in Nat /\ v # Closed,
         grand \in Nat, grand # Closed, NEW nb, nb = Returned(then, o, v)
  PROVE  Settled(ob, nb)
<1> USE DEF Settled
<1>1. /\ DOMAIN ob = Clients /\ o \in Clients /\ "m" \in Clients /\ "b" \in Clients /\ "o" \in Clients
      /\ ObjectOK(ob["m"]) /\ ObjectOK(ob["b"]) /\ ObjectOK(ob["o"]) /\ (~ob["b"].nil => ~ob["m"].nil)
      /\ ObjectOK(ob[o]) /\ \A x \in Clients : x \in {"m", "b", "o"}
  BY DEF ObjOK, Clients, Users
<1>2. /\ ObjectOK(NilObject) /\ NilObject.nil /\ NilObject.srv = 0
  BY AddressFacts DEF NilObject, ObjectOK, ObjFields
<1>3. ASSUME NEW a \in Nat, a # Closed
      PROVE  ObjectOK(NewObject(a)) /\ ~NewObject(a).nil /\ NewObject(a).srv = 0
  BY <1>3 DEF NewObject, ObjectOK, ObjFields
<1>4. ASSUME NEW x, ObjectOK(x), NEW y, y = [x EXCEPT !.ok = FALSE]
      PROVE  ObjectOK(y) /\ y.srv = x.srv /\ y.nil = x.nil
  <2>1. DOMAIN y = ObjFields /\ y.srv = x.srv /\ y.nil = x.nil /\ y.addr = x.addr /\ y.ok = FALSE
    BY <1>4 DEF ObjectOK, ObjFields
  <2> QED
    BY <1>4, <2>1 DEF ObjectOK
<1>5. ASSUME NEW x, ObjectOK(x), NEW a \in Nat, a # Closed, NEW y, y = [x EXCEPT !.addr = a]
      PROVE  ObjectOK(y) /\ y.srv = x.srv /\ y.nil = x.nil
  <2>1. DOMAIN y = ObjFields /\ y.srv = x.srv /\ y.nil = x.nil /\ y.addr = a /\ y.ok = x.ok
    BY <1>5 DEF ObjectOK, ObjFields
  <2> QED
    BY <1>5, <2>1 DEF ObjectOK
<1>6. CASE then = "reset"
  <2> DEFINE y == [ob[o] EXCEPT !.ok = FALSE]
  <2>1. nb = [ob EXCEPT ![o] = y]
    BY <1>6 DEF Returned
  <2>2. ObjectOK(y) /\ y.srv = ob[o].srv /\ y.nil = ob[o].nil
    BY <1>1, <1>4
  <2> HIDE DEF y
  <2> QED
    BY <1>1, <2>1, <2>2 DEF ObjOK
<1>7. CASE then = "no_backup"
  <2>1. nb = [ob EXCEPT !["b"] = NilObject]
    BY <1>7 DEF Returned
  <2> QED
    BY <1>1, <1>2, <2>1 DEF ObjOK
<1>8. CASE then = "backup"
  <2>1. nb = [ob EXCEPT !["b"] = NewObject(v)]
    BY <1>8 DEF Returned
  <2>2. ObjectOK(NewObject(v)) /\ ~NewObject(v).nil /\ NewObject(v).srv = 0
    BY <1>3, <1>8, AddressFacts
  <2> QED
    BY <1>1, <1>8, <2>1, <2>2 DEF ObjOK
<1>9. CASE then = "swap"
  <2> DEFINE y == [ob["m"] EXCEPT !.ok = FALSE]
  <2>1. nb = [ob EXCEPT !["m"] = ob["b"], !["b"] = y]
    BY <1>9 DEF Returned
  <2>2. ObjectOK(y) /\ y.srv = ob["m"].srv /\ y.nil = ob["m"].nil
    BY <1>1, <1>4
  <2> HIDE DEF y
  <2> QED
    BY <1>1, <1>9, <2>1, <2>2 DEF ObjOK
<1>10. CASE then = "rolled_back"
  <2> DEFINE y == [ob["m"] EXCEPT !.addr = v]
  <2>1. nb = [ob EXCEPT !["m"] = y, !["b"] = NilObject]
    BY <1>10 DEF Returned
  <2>2. ObjectOK(y) /\ y.srv = ob["m"].srv /\ y.nil = ob["m"].nil
    BY <1>1, <1>5, <1>10
  <2> HIDE DEF y
  <2> QED
    BY <1>1, <1>2, <2>1, <2>2 DEF ObjOK
<1>11. ASSUME NEW a \in Nat, a # Closed, nb = [ob EXCEPT ![o].addr = a]
       PROVE  Settled(ob, nb)
  <2> DEFINE y == [ob[o] EXCEPT !.addr = a]
  <2>1. nb = [ob EXCEPT ![o] = y]
    BY <1>11
  <2>2. ObjectOK(y) /\ y.srv = ob[o].srv /\ y.nil = ob[o].nil
    BY <1>1, <1>5, <1>11
  <2> HIDE DEF y
  <2> QED
    BY <1>1, <2>1, <2>2 DEF ObjOK
<1>12. CASE then = "address"
  BY <1>11, <1>12 DEF Returned
<1>13. CASE then = "grand_address"
  BY <1>11, <1>13 DEF Returned
<1>14. CASE then \in {"none", "grand", "seen", "check"}
  <2>1. nb = ob
    BY <1>14 DEF Returned
  <2> QED
    BY <2>1
<1> QED
  BY <1>6, <1>7, <1>8, <1>9, <1>10, <1>12, <1>13, <1>14 DEF Thens

LEMMA CommitSteps == do_commit \in Seq(PlainSteps)
<1>1. Call("b", "shutdown", Closed, FALSE, "no_backup") \in Seq(PlainSteps)
  BY CallIsStep, AddressFacts DEF Users, Methods, Thens, SoundCall
<1>2. CASE obj["b"].nil
  <2>1. do_commit = <<>>
    BY <1>2 DEF do_commit
  <2> QED
    BY <2>1
<1>3. CASE ~obj["b"].nil
  BY <1>1, <1>3 DEF do_commit
<1> QED
  BY <1>2, <1>3

LEMMA CallReturnsKeeps ==
  ASSUME IInv, CallReturns
  PROVE  IInv'
<1> DEFINE c == todo[1]
           o == c.o
           v == call[o].res[1]
           ob == AfterAnswer(o)
<1>1. /\ todo # <<>> /\ Head(todo) = c /\ c.op = "call" /\ SoundCall(c) /\ o \in Users /\ o \in Clients
      /\ c.then \in Thens /\ todo \in Seq(Steps) /\ Len(todo) \in Nat \ {0}
      /\ \A x \in Users : x # o => call[x].st = "idle"
  BY DoingCall DEF CallReturns
<1>2. /\ call[o].st = "answered" /\ call[o].res # <<>> /\ Receive(o, Returned(c.then, o, v))
      /\ grand' = IF c.then = "grand" THEN v ELSE grand
      /\ UNCHANGED <<opts, next>>
  BY <1>1 DEF CallReturns, KeepScript
<1>3. todo' = Tail(todo) \/ todo' = do_commit \o Local("after")
  BY <1>1 DEF CallReturns
<1>4. /\ proc' = (IF call[o].keep THEN proc ELSE CloseStream(proc, o))
      /\ obj' = Returned(c.then, o, v)
      /\ call' = [call EXCEPT ![o] = Idle] /\ UNCHANGED late
  BY <1>2 DEF Receive
<1>5. /\ CallOK(call, todo, obj) /\ DOMAIN call = Clients /\ CallRecordOK(call[o]) /\ TodoOK(todo, obj) /\ LateOK(late)
      /\ ScriptOK /\ Current(call[o], todo, o) /\ ~obj[o].nil /\ (call["b"].st = "idle" => obj["b"].srv = 0)
      /\ (~obj["b"].nil => ~obj["m"].nil)
  BY <1>1, <1>2 DEF IInv, CallOK, ObjOK
<1>6. /\ call[o].m = c.m /\ call[o].arg = c.arg /\ call[o].keep = c.keep
  BY <1>5 DEF Current
<1>7. (c.m = "fork" => v \in Pids) /\ (c.m = "rebind" => v = c.arg)
  BY <1>2, <1>5, <1>6 DEF CallRecordOK
<1>8. c.arg \in Nat
  <2>1. c \in Steps
    BY <1>1
  <2>2. c \in CallSteps
    BY <1>1, <2>1 DEF Steps, LocalOps, SpawnOps
  <2> QED
    BY <2>2 DEF CallSteps, CallRecords
<1>9. /\ ProcOK(proc', ob) /\ ObjOK(ob) /\ ob[o].nil = obj[o].nil /\ (~c.keep => ob[o].srv = 0)
      /\ \A x \in Clients : x # o => ob[x] = obj[x]
  BY <1>1, <1>4, <1>6, AfterAnswerKeeps
<1>10. ob["m"].nil = obj["m"].nil /\ ob["b"].nil = obj["b"].nil
  BY <1>1, <1>9 DEF Clients, Users
<1> HIDE DEF ob
<1>11. ob["b"].srv = 0
  <2>1. CASE o = "b"
    BY <1>1, <1>9, <2>1 DEF SoundCall
  <2>2. CASE o # "b"
    BY <1>1, <1>5, <1>9, <2>2 DEF Users, Clients
  <2> QED
    BY <2>1, <2>2
<1>12. c.then = "swap" => ob["m"].srv = 0 /\ ~ob["b"].nil
  <2> SUFFICES ASSUME c.then = "swap" PROVE ob["m"].srv = 0 /\ ~ob["b"].nil
    OBVIOUS
  <2>1. o = "m" /\ ~c.keep
    BY <1>1 DEF SoundCall
  <2>2. ~obj["b"].nil
    BY <1>1, <1>5 DEF TodoOK, StepOK, Swaps
  <2> QED
    BY <1>9, <1>10, <2>1, <2>2
<1>13. c.then = "backup" => v \in Pids /\ ~ob["m"].nil
  BY <1>1, <1>5, <1>7, <1>10 DEF SoundCall
<1>14. c.then \in {"address", "rolled_back"} => v \in Nat /\ v # Closed
  BY <1>1, <1>7, <1>8 DEF SoundCall
<1>15. grand \in Nat /\ grand # Closed
  BY <1>5 DEF ScriptOK
<1>16. /\ ObjOK(obj') /\ obj'["b"].srv = 0
       /\ \A x \in Clients : obj'[x].srv = ob[x].srv \/ ob[x].srv = 0
       /\ ~ob["m"].nil => ~obj'["m"].nil
       /\ ob["m"].srv = 0 => obj'["m"].srv = 0
  <2>1. ob = AfterAnswer(o)
    BY DEF ob
  <2> HIDE DEF c, o, v
  <2>2. Settled(ob, obj')
    BY <1>1, <1>4, <1>9, <1>11, <1>12, <1>13, <1>14, <1>15, <2>1, ReturnedKeeps
  <2> QED
    BY <2>2 DEF Settled
<1>17. ProcOK(proc', obj')
  BY <1>9, <1>16, OtherObjects
<1>18. TodoOK(todo', obj')
  <2>1. CASE todo' = Tail(todo)
    <3>1. (c.op = "spawn" \/ ~obj["m"].nil) => ~obj'["m"].nil
      BY <1>1, <1>10, <1>16
    <3>2. (c.op = "call" /\ c.o = "m" /\ ~c.keep) => obj'["m"].srv = 0
      BY <1>9, <1>16
    <3> QED
      BY <1>1, <1>5, <2>1, <3>1, <3>2, TailTodo
  <2>2. CASE todo' = do_commit \o Local("after")
    <3>1. todo' \in Seq(PlainSteps)
      <4>1. Local("after") \in Seq(PlainSteps)
        BY LocalIsStep DEF LocalOps
      <4> QED
        BY <2>2, <4>1, CommitSteps
    <3> QED
      BY <3>1, PlainTodo
  <2> QED
    BY <1>3, <2>1, <2>2
<1>19. CallOK(call', todo', obj')
  <2>1. \A x \in Users : call'[x].st = "idle"
    BY <1>1, <1>4, <1>5, IdleField DEF Users, Clients
  <2> QED
    BY <1>1, <1>4, <1>5, <1>16, <2>1, IdleKeeps
<1>20. ScriptOK'
  <2>1. grand' \in Nat /\ grand' # Closed
    BY <1>1, <1>2, <1>7, <1>15, AddressFacts DEF SoundCall
  <2> QED
    BY <1>2, <1>5, <2>1 DEF ScriptOK, Inputs
<1> QED
  BY <1>4, <1>5, <1>16, <1>17, <1>18, <1>19, <1>20 DEF IInv

\* A step of the script that touches neither servers nor objects.
LEMMA QuietKeeps ==
  ASSUME IInv, UNCHANGED remoteVars, todo = <<>> \/ todo[1].op # "call", TodoOK(todo', obj), ScriptOK'
  PROVE  IInv'
<1>1. UNCHANGED <<proc, obj, call, late>>
  BY DEF remoteVars
<1>2. CallOK(call, todo, obj) /\ \A x \in Users : call[x].st = "idle"
  BY UsersIdle DEF IInv
<1>3. obj["b"].srv = 0
  BY <1>2 DEF CallOK, Users
<1>4. "o" \in Clients
  BY DEF Clients
<1>5. CallOK(call, todo', obj)
  BY <1>2, <1>3, <1>4, IdleKeeps
<1> QED
  BY <1>1, <1>5 DEF IInv

LEMMA DoingLocal ==
  ASSUME IInv, NEW op, Doing(op), op # "call"
  PROVE  todo # <<>> /\ todo[1].op = op /\ todo \in Seq(Steps) /\ TodoOK(todo, obj)
BY DEF IInv, TodoOK, Doing

LEMMA LocalStepKeeps ==
  ASSUME IInv, LocalStep
  PROVE  IInv'
<1>1. CASE Doing("raise") /\ Raise /\ UNCHANGED remoteVars
  <2>1. todo # <<>> /\ todo[1].op = "raise"
    BY <1>1, DoingLocal
  <2>2. UNCHANGED <<proc, obj, call, late>>
    BY <1>1 DEF remoteVars
  <2>3. \A x \in Users : call[x].st = "idle"
    BY <2>1, UsersIdle DEF IInv
  <2>4. obj["b"].srv = 0 /\ "o" \in Clients
    BY <2>3 DEF IInv, CallOK, Users, Clients
  <2>5. ProcOK(proc', obj') /\ ObjOK(obj') /\ LateOK(late')
    BY <2>2 DEF IInv
  <2> QED
    BY <1>1, <2>2, <2>3, <2>4, <2>5, RaiseKeeps
<1>2. ASSUME NEW op, Doing(op), op \notin {"call", "spawn", "connect"}, todo' = Tail(todo),
             UNCHANGED <<opts, next, grand>>, UNCHANGED remoteVars
      PROVE  IInv'
  <2>1. todo # <<>> /\ todo[1].op = op /\ TodoOK(todo, obj)
    BY <1>2, DoingLocal
  <2>2. TodoOK(Tail(todo), obj)
    BY <1>2, <2>1, TailTodo
  <2>3. ScriptOK'
    BY <1>2, ScriptKept DEF IInv
  <2> QED
    BY <1>2, <2>1, <2>2, <2>3, QuietKeeps
<1>3. CASE Doing("flush") /\ todo' = Tail(todo) /\ UNCHANGED <<opts, next, grand>> /\ UNCHANGED remoteVars
  BY <1>2, <1>3
<1>4. ASSUME NEW ph \in {"start", "loop", "after", "closing", "gc", "ended"}, Doing(ph), todo' = Tail(todo),
             UNCHANGED <<seen, grand>>, UNCHANGED remoteVars, KeepScript
      PROVE  IInv'
  <2>1. ph \notin {"call", "spawn", "connect"} /\ UNCHANGED <<opts, next, grand>>
    BY <1>4 DEF KeepScript
  <2> QED
    BY <1>2, <1>4, <2>1
<1> QED
  BY <1>1, <1>3, <1>4 DEF LocalStep

LEMMA SpawnStepKeeps ==
  ASSUME IInv, SpawnStep
  PROVE  IInv'
<1>1. todo' = Tail(todo) /\ UNCHANGED <<call, late, grand, opts, next>>
  BY DEF SpawnStep, KeepScript
<1>2. ProcOK(proc, obj) /\ ObjOK(obj) /\ DOMAIN obj = Clients /\ LateOK(late) /\ "m" \in Clients /\ "b" \in Clients
  BY DEF IInv, ObjOK, Clients
<1>3. ASSUME NEW op, Doing(op), op # "call", ProcOK(proc', obj'), ObjOK(obj'), obj'["b"] = obj["b"],
             (op = "spawn" \/ ~obj["m"].nil) => ~obj'["m"].nil,
             obj["m"].srv = 0 => obj'["m"].srv = 0
      PROVE  IInv'
  <2>1. todo # <<>> /\ todo[1].op = op /\ TodoOK(todo, obj)
    BY <1>3, DoingLocal
  <2>2. TodoOK(todo', obj')
    BY <1>1, <1>3, <2>1, TailTodo
  <2>3. CallOK(call, todo, obj) /\ \A x \in Users : call[x].st = "idle"
    BY <1>3, <2>1, UsersIdle DEF IInv
  <2>4. obj'["b"].srv = 0
    BY <1>3, <2>3 DEF CallOK, Users
  <2>5. CallOK(call, todo', obj')
    BY <1>2, <2>3, <2>4, IdleKeeps
  <2>6. ScriptOK'
    BY <1>1, ScriptKept DEF IInv
  <2> QED
    BY <1>1, <1>2, <1>3, <2>2, <2>5, <2>6 DEF IInv
<1>4. ASSUME NEW a \in Nat, a # Closed, obj' = [obj EXCEPT !["m"] = NewObject(a)], obj["m"].srv = 0,
             NEW pr, ProcOK(pr, obj)
      PROVE  ObjOK(obj') /\ obj'["b"] = obj["b"] /\ ~obj'["m"].nil /\ obj'["m"].srv = 0 /\ ProcOK(pr, obj')
  <2>1. ObjectOK(NewObject(a)) /\ ~NewObject(a).nil /\ NewObject(a).srv = 0
    BY <1>4 DEF NewObject, ObjectOK, ObjFields
  <2>2. /\ DOMAIN obj' = Clients /\ obj'["m"] = NewObject(a) /\ obj'["b"] = obj["b"]
        /\ \A x \in Clients : x # "m" => obj'[x] = obj[x]
    BY <1>2, <1>4
  <2>3. ObjOK(obj')
    BY <1>2, <2>1, <2>2 DEF ObjOK
  <2>4. ProcOK(pr, obj')
    BY <1>4, <2>2, OtherObjects
  <2> QED
    BY <2>1, <2>2, <2>3, <2>4
<1>5. CASE /\ Doing("spawn")
           /\ proc' = [proc EXCEPT ![1] = [NoProcess EXCEPT !.st = "up", !.addr = Home]]
           /\ obj' = [obj EXCEPT !["m"] = NewObject(Home)]
  <2>1. todo # <<>> /\ todo[1].op = "spawn" /\ todo \in Seq(Steps) /\ TodoOK(todo, obj)
    BY <1>5, DoingLocal
  <2>2. obj["m"].srv = 0
    BY <2>1 DEF TodoOK, StepOK
  <2>3. ProcOK(proc', obj)
    BY <1>2, <1>5, SpawnedKeeps
  <2>4. ObjOK(obj') /\ obj'["b"] = obj["b"] /\ ~obj'["m"].nil /\ obj'["m"].srv = 0 /\ ProcOK(proc', obj')
    BY <1>4, <1>5, <2>2, <2>3, AddressFacts
  <2> QED
    BY <1>3, <1>5, <2>4
<1>6. CASE Doing("kill") /\ proc' = (IF grand = 0 THEN proc ELSE Killed(grand)) /\ UNCHANGED obj
  <2>1. ProcOK(proc', obj)
    BY <1>2, <1>6, KilledKeeps
  <2> QED
    BY <1>2, <1>3, <1>6, <2>1
<1>7. CASE Doing("terminate") /\ proc' = Terminated(1) /\ UNCHANGED obj
  <2>1. ProcOK(proc', obj)
    BY <1>2, <1>7, TerminatedKeeps
  <2> QED
    BY <1>2, <1>3, <1>7, <2>1
<1>8. CASE (Doing("wait") \/ Doing("end")) /\ UNCHANGED <<proc, obj>>
  BY <1>2, <1>3, <1>8
<1>9. CASE Doing("connect") /\ obj' = [obj EXCEPT !["m"] = NewObject(obj["m"].addr)] /\ UNCHANGED proc
  <2>1. todo # <<>> /\ todo[1].op = "connect" /\ todo \in Seq(Steps) /\ TodoOK(todo, obj)
    BY <1>9, DoingLocal
  <2>2. ~obj["m"].nil /\ Released(todo, 1, obj)
    BY <2>1 DEF TodoOK, StepOK
  <2>3. obj["m"].srv = 0
    BY <2>2 DEF Released
  <2>4. obj["m"].addr \in Nat /\ obj["m"].addr # Closed
    BY <1>2, <2>2 DEF ObjOK, ObjectOK
  <2>5. ObjOK(obj') /\ obj'["b"] = obj["b"] /\ ~obj'["m"].nil /\ obj'["m"].srv = 0 /\ ProcOK(proc, obj')
    BY <1>2, <1>4, <1>9, <2>3, <2>4
  <2> QED
    BY <1>3, <1>9, <2>5
<1> QED
  BY <1>5, <1>6, <1>7, <1>8, <1>9 DEF SpawnStep

LEMMA RollbackTodo ==
  ASSUME IInv, NEW rest \in Seq(PlainSteps)
  PROVE  do_rollback \in Seq(Steps) /\ TodoOK(do_rollback \o rest, obj)
<1> DEFINE s == Call("m", "shutdown", Closed, FALSE, "swap")
           t == Call("m", "rebind", obj["m"].addr, FALSE, "rolled_back")
<1>1. CASE obj["b"].nil
  <2>1. do_rollback = Local("raise") /\ Local("raise") \in Seq(PlainSteps)
    BY <1>1, LocalIsStep DEF do_rollback, LocalOps
  <2>2. do_rollback \o rest \in Seq(PlainSteps)
    BY <2>1
  <2>3. do_rollback \in Seq(Steps)
    BY <2>1 DEF PlainSteps
  <2> QED
    BY <2>2, <2>3, PlainTodo
<1>2. CASE ~obj["b"].nil
  <2>1. obj["m"].addr \in Nat /\ obj["m"].addr # Closed
    BY <1>2 DEF IInv, ObjOK, ObjectOK, Clients
  <2>2. s \in Seq(CallSteps) /\ Len(s) = 1
    <3>1. s \in Seq(CallSteps)
      BY CallIsStep, AddressFacts DEF Users, Methods, Thens, SoundCall
    <3> QED
      BY <3>1 DEF Call
  <2>3. t \in Seq(PlainSteps)
    BY <2>1, CallIsStep DEF Users, Methods, Thens, SoundCall
  <2>4. do_rollback = s \o t
    BY <1>2 DEF do_rollback
  <2> HIDE DEF s, t
  <2>5. s \in Seq(Steps) /\ t \in Seq(Steps) /\ rest \in Seq(Steps) /\ t \o rest \in Seq(PlainSteps)
    BY <2>2, <2>3 DEF Steps, PlainSteps
  <2>6. do_rollback \o rest = s \o (t \o rest)
    BY <2>4, <2>5, ConcatAssociative
  <2>7. TodoOK(s \o (t \o rest), obj)
    BY <1>2, <2>2, <2>5, SwapTodo
  <2> QED
    BY <2>4, <2>5, <2>6, <2>7
<1> QED
  BY <1>1, <1>2

\* The calls that the loop and the closers make.
LEMMA LoopSteps ==
  /\ Check \in Seq(PlainSteps) /\ Proof \in Seq(PlainSteps)
  /\ \A h \in BOOLEAN : do_snapshot(h) \in Seq(PlainSteps)
  /\ \A i \in Nat : Call("m", "send_cmio_response", i, TRUE, "none") \in Seq(PlainSteps)
  /\ Call("m", "run", Closed, TRUE, "seen") \in Seq(PlainSteps)
  /\ Call("m", "destroy", Closed, TRUE, "none") \in Seq(PlainSteps)
  /\ Call("m", "shutdown", Closed, FALSE, "reset") \in Seq(PlainSteps)
  /\ \A op \in LocalOps : Local(op) \in Seq(PlainSteps)
<1> USE AddressFacts DEF Users, Methods, Thens, SoundCall
<1>1. Check \in Seq(PlainSteps)
  BY CallIsStep DEF Check
<1>2. Proof \in Seq(PlainSteps)
  BY CallIsStep DEF Proof
<1>3. \A h \in BOOLEAN : do_snapshot(h) \in Seq(PlainSteps)
  <2>1. Call("b", "shutdown", Closed, FALSE, "reset") \in Seq(PlainSteps)
    BY CallIsStep
  <2>2. Call("m", "fork", Closed, FALSE, "backup") \in Seq(PlainSteps)
    BY CallIsStep
  <2>3. <<>> \in Seq(PlainSteps)
    OBVIOUS
  <2>4. \A u, w \in Seq(PlainSteps) : u \o w \in Seq(PlainSteps)
    OBVIOUS
  <2> QED
    BY <2>1, <2>2, <2>3, <2>4 DEF do_snapshot
<1>4. \A i \in Nat : Call("m", "send_cmio_response", i, TRUE, "none") \in Seq(PlainSteps)
  BY CallIsStep
<1>5. Call("m", "run", Closed, TRUE, "seen") \in Seq(PlainSteps)
  BY CallIsStep
<1>6. Call("m", "destroy", Closed, TRUE, "none") \in Seq(PlainSteps)
  BY CallIsStep
<1>7. Call("m", "shutdown", Closed, FALSE, "reset") \in Seq(PlainSteps)
  BY CallIsStep
<1>8. \A op \in LocalOps : Local(op) \in Seq(PlainSteps)
  BY LocalIsStep
<1> QED
  BY <1>1, <1>2, <1>3, <1>4, <1>5, <1>6, <1>7, <1>8

LEMMA PlainConcat ==
  /\ <<>> \in Seq(PlainSteps)
  /\ \A u, w \in Seq(PlainSteps) : u \o w \in Seq(PlainSteps)
OBVIOUS

\* The input that comes next, and the end of the epoch.
LEMMA NextInputKeeps ==
  ASSUME IInv, NEW at, YieldNextInput(at), UNCHANGED grand
  PROVE  TodoOK(todo', obj) /\ ScriptOK'
<1> DEFINE feed == do_snapshot(FALSE) \o Call("m", "send_cmio_response", next + 1, TRUE, "none") \o Check
<1>1. ScriptOK /\ next \in Nat /\ next + 1 \in Nat /\ next < Inputs /\ UNCHANGED opts /\ (next' = next \/ next' = next + 1)
  <2>1. next < Inputs /\ UNCHANGED opts /\ (next' = next \/ next' = next + 1)
    BY DEF YieldNextInput
  <2>2. ScriptOK /\ next \in Nat
    BY DEF IInv, ScriptOK
  <2> QED
    BY <2>1, <2>2
<1>2. ScriptOK'
  BY <1>1 DEF ScriptOK, Inputs
<1>3. feed \in Seq(PlainSteps)
  <2>1. /\ do_snapshot(FALSE) \in Seq(PlainSteps) /\ Check \in Seq(PlainSteps)
        /\ Call("m", "send_cmio_response", next + 1, TRUE, "none") \in Seq(PlainSteps)
    BY <1>1, LoopSteps
  <2> QED
    BY <2>1, PlainConcat
<1>4. CASE at = "accepted" /\ todo' = do_commit \o (IF next > 0 THEN Local("flush") \o Proof ELSE <<>>) \o feed
  <2>1. (IF next > 0 THEN Local("flush") \o Proof ELSE <<>>) \in Seq(PlainSteps)
    BY LoopSteps, PlainConcat DEF LocalOps
  <2> HIDE DEF feed
  <2>2. todo' \in Seq(PlainSteps)
    BY <1>3, <1>4, <2>1, CommitSteps, PlainConcat
  <2> QED
    BY <1>2, <2>2, PlainTodo
<1>5. CASE at = "rejected" /\ todo' = do_rollback \o feed
  BY <1>2, <1>3, <1>5, RollbackTodo
<1>6. CASE at = "other" /\ todo' = Local("raise")
  <2>1. todo' \in Seq(PlainSteps)
    BY <1>6, LoopSteps DEF LocalOps
  <2> QED
    BY <1>2, <2>1, PlainTodo
<1> QED
  BY <1>4, <1>5, <1>6 DEF YieldNextInput

LEMMA LastInputKeeps ==
  ASSUME IInv, NEW at, YieldLast(at), UNCHANGED grand
  PROVE  TodoOK(todo', obj) /\ ScriptOK'
<1> DEFINE closes == next \in 1 .. Inputs
           left == ~obj["b"].nil /\ (~closes \/ at = "other")
           epoch == CASE ~closes -> <<>>
                      [] closes /\ at = "accepted" -> Proof \o do_commit
                      [] closes /\ at = "rejected" -> do_rollback
                      [] OTHER -> <<>>
           inspect == CASE opts.inspect = "no" -> <<>>
                        [] opts.inspect = "query" ->
                             do_snapshot(left) \o Call("m", "send_cmio_response", Query, TRUE, "none")
                        [] opts.inspect = "fed" -> do_rollback
<1>1. /\ next >= Inputs /\ todo' = epoch \o inspect \o Check /\ next' = (IF closes THEN Query ELSE next)
      /\ opts' = [opts EXCEPT !.inspect = CASE @ = "query" -> "fed" [] @ = "fed" -> "no" [] OTHER -> @]
  BY DEF YieldLast
<1>2. /\ ScriptOK /\ next \in Nat /\ opts.inspect \in {"no", "query", "fed"} /\ Inputs \in 0 .. MaxServers - 1
      /\ (opts.inspect = "fed" => ~closes)
  BY DEF IInv, ScriptOK, Inputs
<1>3. ScriptOK'
  <2>1. opts' \in [inputs : 0 .. MaxServers - 1, inspect : {"no", "query", "fed"}, shutdown : BOOLEAN]
        /\ opts'.inputs = opts.inputs /\ (opts'.inspect = "fed" => opts.inspect = "query")
    BY <1>1, <1>2 DEF ScriptOK
  <2>2. Query \in Nat /\ Query > Inputs
    BY <1>2, BoundsAssumption DEF Query
  <2>3. next' \in Nat /\ next' >= Inputs /\ next' \notin 1 .. Inputs
    BY <1>1, <1>2, <2>2
  <2> QED
    BY <1>2, <2>1, <2>3 DEF ScriptOK, Inputs
<1>4. left \in BOOLEAN /\ Check \in Seq(PlainSteps)
  BY LoopSteps
<1> HIDE DEF left
<1>5. opts.inspect # "fed" => inspect \in Seq(PlainSteps)
  <2>1. do_snapshot(left) \in Seq(PlainSteps) /\ Call("m", "send_cmio_response", Query, TRUE, "none") \in Seq(PlainSteps)
    BY <1>4, LoopSteps, AddressFacts
  <2> QED
    BY <1>2, <2>1, PlainConcat
<1>6. CASE closes /\ at = "rejected"
  <2>1. epoch = do_rollback /\ inspect \in Seq(PlainSteps)
    BY <1>2, <1>5, <1>6
  <2> HIDE DEF epoch, inspect
  <2>2. inspect \o Check \in Seq(PlainSteps)
    BY <1>4, <2>1, PlainConcat
  <2>3. do_rollback \in Seq(Steps) /\ TodoOK(do_rollback \o (inspect \o Check), obj)
    BY <2>2, RollbackTodo
  <2>4. inspect \in Seq(Steps) /\ Check \in Seq(Steps)
    BY <1>4, <2>1 DEF PlainSteps
  <2>5. todo' = do_rollback \o (inspect \o Check)
    BY <1>1, <2>1, <2>3, <2>4, ConcatAssociative
  <2> QED
    BY <1>3, <2>3, <2>5
<1>7. CASE ~(closes /\ at = "rejected") /\ opts.inspect # "fed"
  <2>1. Proof \in Seq(PlainSteps) /\ do_commit \in Seq(PlainSteps) /\ inspect \in Seq(PlainSteps)
    BY <1>5, <1>7, LoopSteps, CommitSteps
  <2>2. epoch \in Seq(PlainSteps)
    BY <1>7, <2>1, PlainConcat
  <2> HIDE DEF epoch, inspect
  <2>3. todo' \in Seq(PlainSteps)
    BY <1>1, <1>4, <2>1, <2>2, PlainConcat
  <2> QED
    BY <1>3, <2>3, PlainTodo
<1>8. CASE opts.inspect = "fed"
  <2>1. epoch = <<>> /\ inspect = do_rollback
    BY <1>2, <1>8
  <2> HIDE DEF epoch, inspect
  <2>2. do_rollback \in Seq(Steps) /\ TodoOK(do_rollback \o Check, obj)
    BY <1>4, RollbackTodo
  <2>3. epoch \o inspect = do_rollback
    BY <2>1, <2>2, ConcatEmptySeq
  <2> QED
    BY <1>1, <1>3, <2>2, <2>3
<1> QED
  BY <1>6, <1>7, <1>8

LEMMA LoopKeeps ==
  ASSUME IInv, Loop
  PROVE  IInv'
<1>1. todo = <<>> /\ UNCHANGED grand /\ UNCHANGED remoteVars
  BY DEF Loop
<1>2. PICK c \in seen :
        \/ c.at = "exception" /\ YieldException
        \/ YieldNextInput(c.at) \/ YieldLast(c.at)
        \/ c.at = "output" /\ YieldOutput
        \/ todo' = Local("after") /\ UNCHANGED <<next, opts>>
  BY DEF Loop
<1>3. ASSUME UNCHANGED <<next, opts>> PROVE ScriptOK'
  BY <1>1, <1>3, ScriptKept DEF IInv
<1>4. TodoOK(todo', obj) /\ ScriptOK'
  <2>1. CASE YieldException
    <3>1. todo' = do_rollback \o Local("after") /\ UNCHANGED <<next, opts>>
      BY <2>1 DEF YieldException
    <3>2. Local("after") \in Seq(PlainSteps)
      BY LoopSteps DEF LocalOps
    <3> QED
      BY <1>3, <3>1, <3>2, RollbackTodo
  <2>2. CASE YieldNextInput(c.at)
    BY <1>1, <2>2, NextInputKeeps
  <2>3. CASE YieldLast(c.at)
    BY <1>1, <2>3, LastInputKeeps
  <2>4. CASE YieldOutput
    <3>1. todo' = Call("m", "run", Closed, TRUE, "seen") /\ UNCHANGED <<next, opts>>
      BY <2>4 DEF YieldOutput
    <3>2. todo' \in Seq(PlainSteps)
      BY <3>1, LoopSteps
    <3> QED
      BY <1>3, <3>1, <3>2, PlainTodo
  <2>5. CASE todo' = Local("after") /\ UNCHANGED <<next, opts>>
    <3>1. todo' \in Seq(PlainSteps)
      BY <2>5, LoopSteps DEF LocalOps
    <3> QED
      BY <1>3, <2>5, <3>1, PlainTodo
  <2> QED
    BY <1>2, <2>1, <2>2, <2>3, <2>4, <2>5
<1> QED
  BY <1>1, <1>4, QuietKeeps

LEMMA LoopRunKeeps ==
  ASSUME IInv, LoopRun
  PROVE  IInv'
<1>1. todo = <<>> /\ UNCHANGED <<opts, next, grand>> /\ UNCHANGED remoteVars
      /\ todo' = Call("m", "run", Closed, TRUE, "seen")
  BY DEF LoopRun
<1>2. todo' \in Seq(PlainSteps)
  BY <1>1, LoopSteps
<1>3. TodoOK(todo', obj) /\ ScriptOK'
  BY <1>1, <1>2, PlainTodo, ScriptKept DEF IInv
<1> QED
  BY <1>1, <1>3, QuietKeeps

LEMMA ClosersKeeps ==
  ASSUME IInv, Closers
  PROVE  IInv'
<1>1. todo = <<>> /\ UNCHANGED <<next, grand>> /\ UNCHANGED remoteVars
      /\ (opts' = opts \/ opts' = [opts EXCEPT !.shutdown = TRUE])
  BY DEF Closers
<1>2. ScriptOK'
  <2>1. opts' \in [inputs : 0 .. MaxServers - 1, inspect : {"no", "query", "fed"}, shutdown : BOOLEAN]
        /\ opts'.inputs = opts.inputs /\ opts'.inspect = opts.inspect
    BY <1>1 DEF IInv, ScriptOK
  <2> QED
    BY <1>1, <2>1 DEF IInv, ScriptOK, Inputs
<1>3. Local("closing") \in Seq(PlainSteps) /\ Local("gc") \in Seq(PlainSteps) /\ Local("ended") \in Seq(PlainSteps)
  BY LoopSteps DEF LocalOps
<1>4. TodoOK(todo', obj)
  <2>1. CASE todo' = Call("m", "destroy", Closed, TRUE, "none") \o Local("closing")
    <3>1. todo' \in Seq(PlainSteps)
      BY <1>3, <2>1, LoopSteps, PlainConcat
    <3> QED
      BY <3>1, PlainTodo
  <2>2. CASE todo' = Local("closing") \/ todo' = Local("ended")
    BY <1>3, <2>2, PlainTodo
  <2>3. CASE todo' = (IF obj["b"].nil THEN <<>> ELSE do_rollback) \o Local("gc")
    <3>1. CASE obj["b"].nil
      <4>1. todo' \in Seq(PlainSteps)
        BY <1>3, <2>3, <3>1, PlainConcat
      <4> QED
        BY <4>1, PlainTodo
    <3>2. CASE ~obj["b"].nil
      BY <1>3, <2>3, <3>2, RollbackTodo
    <3> QED
      BY <3>1, <3>2
  <2>4. CASE todo' = Call("m", "shutdown", Closed, FALSE, "reset") \o Local("ended")
    <3>1. todo' \in Seq(PlainSteps)
      BY <1>3, <2>4, LoopSteps, PlainConcat
    <3> QED
      BY <3>1, PlainTodo
  <2> QED
    BY <2>1, <2>2, <2>3, <2>4 DEF Closers
<1> QED
  BY <1>1, <1>2, <1>4, QuietKeeps

----------------
(* The servers' own steps, and the theorem *)

\* A step of a server that leaves the calls alone.
LEMMA ServerKeeps ==
  ASSUME IInv, UNCHANGED scriptVars, UNCHANGED <<obj, call>>, ProcOK(proc', obj), LateOK(late')
  PROVE  IInv'
<1>1. UNCHANGED <<opts, todo, next, grand>>
  BY DEF scriptVars
<1>2. ScriptOK'
  BY <1>1, ScriptKept DEF IInv
<1> QED
  BY <1>1, <1>2 DEF IInv

LEMMA ChildKeeps ==
  ASSUME IInv, NEW p \in Pids, Child(p)
  PROVE  IInv'
<1> DEFINE x == [proc[p] EXCEPT !.st = "up", !.inherits = {}, !.copies = {}]
<1>1. ProcOK(proc, obj) /\ ProcessOK(proc[p], p, obj) /\ DOMAIN proc[p] = ProcFields /\ LateOK(late)
  BY DEF IInv, ProcOK, ProcessOK
<1>2. proc' = [proc EXCEPT ![p] = x] /\ UNCHANGED <<obj, call, late>> /\ UNCHANGED scriptVars
  BY DEF Child, ForkChild
<1>3. DOMAIN x = ProcFields /\ x.sess = proc[p].sess /\ x.addr = proc[p].addr /\ x.copies = {}
  BY <1>1 DEF ProcFields
<1> HIDE DEF x
<1>4. ProcessOK(x, p, obj)
  BY <1>1, <1>3 DEF ProcessOK
<1>5. ProcOK(proc', obj)
  BY <1>1, <1>2, <1>4, ProcUpdate
<1> QED
  BY <1>1, <1>2, <1>5, ServerKeeps

LEMMA EndKeeps ==
  ASSUME IInv, NEW p \in Pids, Leave(p) \/ (Crash(p) /\ UNCHANGED scriptVars)
  PROVE  IInv'
<1>1. proc' = Killed(p) /\ UNCHANGED <<obj, call, late>> /\ UNCHANGED scriptVars
  BY DEF Leave, Exit, Crash
<1>2. ProcOK(Killed(p), obj) /\ LateOK(late)
  BY KilledKeeps DEF IInv
<1>3. ProcOK(proc', obj) /\ LateOK(late')
  BY <1>1, <1>2
<1> QED
  BY <1>1, <1>3, ServerKeeps

WithMachine(p, S) == [proc EXCEPT ![p].machine = S]
AtMostOne(S) == S = {} \/ \E d : S = {d}

\* A late request stops the server, rebinds it, forks it or changes its machine.
LEMMA LateMeans ==
  ASSUME NEW c, NEW contents, HandleLate(c, contents)
  PROVE  \/ c.m = "shutdown" /\ proc' = jsonrpc_shutdown_handler(c.srv, "none").proc
         \/ c.m = "rebind" /\ proc' = jsonrpc_rebind_handler(c.srv, "none", c.arg).proc
         \/ c.m = "fork" /\ Unused # {} /\ proc' = jsonrpc_fork_handler(c.srv, "none").proc
         \/ \E S : AtMostOne(S) /\ proc' = WithMachine(c.srv, S)
<1>1. CASE c.m = "destroy" /\ proc' = jsonrpc_machine_destroy_handler(c.srv, "none").proc
  <2>1. proc' = WithMachine(c.srv, {}) /\ AtMostOne({})
    BY <1>1 DEF jsonrpc_machine_destroy_handler, Ok, WithMachine, AtMostOne
  <2> QED
    BY <2>1
<1>2. CASE \E content \in contents : proc' = [proc EXCEPT ![c.srv].machine = {content}]
  <2>1. PICK content \in contents : proc' = [proc EXCEPT ![c.srv].machine = {content}]
    BY <1>2
  <2>2. proc' = WithMachine(c.srv, {content}) /\ AtMostOne({content})
    BY <2>1 DEF WithMachine, AtMostOne
  <2> QED
    BY <2>2
<1> QED
  BY <1>1, <1>2, Zenon DEF HandleLate

LEMMA HandleLateKeeps ==
  ASSUME IInv, NEW c \in late, HandleLate(c, LateContents(c)), UNCHANGED scriptVars
  PROVE  IInv'
<1>1. c.srv \in Pids /\ (c.m = "rebind" => c.arg # Closed) /\ LateOK(late) /\ ProcOK(proc, obj)
  BY DEF IInv, LateOK
<1>2. LateOK(late') /\ UNCHANGED <<obj, call>>
  BY <1>1 DEF HandleLate, LateOK
<1>3. CASE proc' = jsonrpc_shutdown_handler(c.srv, "none").proc
  <2> DEFINE x == [[[proc[c.srv] EXCEPT !.machine = {}] EXCEPT !.addr = Closed] EXCEPT !.sess = @ \cap {"none"}]
  <2>1. ProcessOK(proc[c.srv], c.srv, obj) /\ DOMAIN proc[c.srv] = ProcFields /\ proc[c.srv].sess \subseteq Clients
    BY <1>1 DEF ProcOK, ProcessOK
  <2>2. proc' = [proc EXCEPT ![c.srv] = x]
    BY <1>3 DEF jsonrpc_shutdown_handler, Ok, close_sessions, close_acceptor
  <2>3. DOMAIN x = ProcFields /\ x.st = proc[c.srv].st /\ x.copies = proc[c.srv].copies
        /\ x.sess = proc[c.srv].sess \cap {"none"}
    BY <2>1 DEF ProcFields
  <2> HIDE DEF x
  <2>4. x.sess = {}
    BY <2>1, <2>3 DEF Clients
  <2>5. ProcessOK(x, c.srv, obj)
    BY <2>1, <2>3, <2>4 DEF ProcessOK
  <2>6. ProcOK(proc', obj)
    BY <1>1, <2>2, <2>5, ProcUpdate
  <2> QED
    BY <1>2, <2>6, ServerKeeps
<1>4. CASE c.m = "rebind" /\ proc' = jsonrpc_rebind_handler(c.srv, "none", c.arg).proc
  <2>1. ProcOK(proc', obj)
    BY <1>1, <1>4, RebindKeeps
  <2> QED
    BY <1>2, <2>1, ServerKeeps
<1>5. CASE Unused # {} /\ proc' = jsonrpc_fork_handler(c.srv, "none").proc
  <2>1. ProcOK(proc', obj)
    BY <1>1, <1>5, ForkKeeps
  <2> QED
    BY <1>2, <2>1, ServerKeeps
<1>6. CASE \E S : proc' = WithMachine(c.srv, S)
  <2>1. PICK S : proc' = WithMachine(c.srv, S)
    BY <1>6
  <2>2. ProcOK([proc EXCEPT ![c.srv].machine = S], obj)
    BY <1>1, MachineKeeps
  <2>3. ProcOK(proc', obj)
    BY <2>1, <2>2 DEF WithMachine
  <2> QED
    BY <1>2, <2>3, ServerKeeps
<1> QED
  BY <1>3, <1>4, <1>5, <1>6, LateMeans

LEMMA HandleStepKeeps ==
  ASSUME IInv, NEW p \in Pids, NEW o \in Clients, Handle(p, o)
  PROVE  IInv'
<1>1. Answered(o, p) /\ UNCHANGED scriptVars
  BY HandleKeeps DEF Handle
<1>2. UNCHANGED <<opts, todo, next, grand>>
  BY <1>1 DEF scriptVars
<1>3. ScriptOK'
  BY <1>2, ScriptKept DEF IInv
<1> QED
  BY <1>1, <1>2, <1>3 DEF IInv, Answered

\* The sequence s lists the first n values of f, which are in S.
Lists(S, s, n, f) == s \in Seq(S) /\ Len(s) = n /\ \A i \in 1 .. n : s[i] = f[i]

LEMMA ListsOneMore ==
  ASSUME NEW S, NEW s, NEW n \in Nat, NEW f, Lists(S, s, n, f), f[n + 1] \in S, NEW x, x = f[n + 1]
  PROVE  Lists(S, s \o <<x>>, n + 1, f)
<1>1. s \in Seq(S) /\ <<x>> \in Seq(S) /\ Len(s) = n /\ Len(<<x>>) = 1 /\ <<x>>[1] = f[n + 1]
      /\ \A i \in 1 .. n : s[i] = f[i]
  BY DEF Lists
<1>2. /\ s \o <<x>> \in Seq(S) /\ Len(s \o <<x>>) = n + 1
      /\ \A i \in 1 .. n + 1 : (s \o <<x>>)[i] = IF i <= n THEN s[i] ELSE <<x>>[i - n]
  BY <1>1, ConcatProperties
<1>3. \A i \in 1 .. n + 1 : (s \o <<x>>)[i] = f[i]
  BY <1>1, <1>2
<1> QED
  BY <1>2, <1>3 DEF Lists

LEMMA InitHolds ==
  ASSUME Init
  PROVE  IInv
<1>1. ProcOK(proc, obj)
  <2>1. DOMAIN NoProcess = ProcFields /\ NoProcess.st = "none" /\ NoProcess.sess = {}
    BY DEF NoProcess, ProcFields
  <2> QED
    BY <2>1 DEF Init, ProcOK, ProcessOK
<1>2. /\ ObjectOK(NilObject) /\ NilObject.nil /\ NilObject.srv = 0
      /\ ObjectOK(NewObject(Home)) /\ NewObject(Home).srv = 0
  BY AddressFacts DEF NilObject, NewObject, ObjectOK, ObjFields
<1>3. /\ DOMAIN obj = Clients /\ obj["m"] = NilObject /\ obj["b"] = NilObject /\ obj["o"] = NewObject(Home)
  BY DEF Init, Clients
<1>4. ObjOK(obj)
  BY <1>2, <1>3 DEF ObjOK, Clients
<1>5. CallOK(call, todo, obj)
  <2>1. CallRecordOK(Idle) /\ Idle.st = "idle"
    BY DEF Idle, CallRecordOK, CallFields
  <2>2. DOMAIN call = Clients /\ \A x \in Clients : call[x] = Idle
    BY DEF Init
  <2> QED
    BY <1>2, <1>3, <2>1, <2>2 DEF CallOK, Users, Clients
<1>6. LateOK(late) /\ ScriptOK
  <2>1. PICK e \in Epochs : opts = [inputs |-> e[1], inspect |-> e[2], shutdown |-> FALSE]
    BY DEF Init
  <2>2. e[1] \in 0 .. MaxServers - 1 /\ e[2] \in {"no", "query"}
    BY <2>1, EpochsAssumption
  <2> QED
    BY <2>1, <2>2, AddressFacts DEF Init, LateOK, ScriptOK, Home
<1>7. TodoOK(todo, obj)
  <2> DEFINE a(m, arg, keep, then) == [op |-> "call", o |-> "m", m |-> m, arg |-> arg, keep |-> keep, then |-> then]
             l(op) == [op |-> op]
             td == <<l("spawn"), a("get_version", Closed, FALSE, "none"), a("fork", Closed, TRUE, "grand"),
                     a("shutdown", Closed, FALSE, "grand_address"), a("rebind", Home, FALSE, "address"),
                     l("terminate"), l("wait"), l("connect"), a("get_version", Closed, FALSE, "none"),
                     l("start"), a("create", Closed, TRUE, "none"), l("loop")>>
             s1 == <<td[1]>>
             s2 == s1 \o <<td[2]>>
             s3 == s2 \o <<td[3]>>
             s4 == s3 \o <<td[4]>>
             s5 == s4 \o <<td[5]>>
             s6 == s5 \o <<td[6]>>
             s7 == s6 \o <<td[7]>>
             s8 == s7 \o <<td[8]>>
             s9 == s8 \o <<td[9]>>
             s10 == s9 \o <<td[10]>>
             s11 == s10 \o <<td[11]>>
             s12 == s11 \o <<td[12]>>
  <2>1. todo = s12
    BY DEF Init, SpawnSteps, Call, Local
  <2>2. /\ a("get_version", Closed, FALSE, "none") \in CallSteps /\ a("fork", Closed, TRUE, "grand") \in CallSteps
        /\ a("shutdown", Closed, FALSE, "grand_address") \in CallSteps
        /\ a("rebind", Home, FALSE, "address") \in CallSteps /\ a("create", Closed, TRUE, "none") \in CallSteps
    BY AddressFacts DEF CallSteps, CallRecords, SoundCall, Users, Methods, Thens
  <2>3. \A op \in LocalOps \cup SpawnOps : l(op) \in Steps
    BY DEF Steps
  <2>4. td[1] \in Steps /\ td[2] \in Steps /\ td[3] \in Steps /\ td[4] \in Steps /\ td[5] \in Steps /\ td[6] \in Steps
        /\ td[7] \in Steps /\ td[8] \in Steps /\ td[9] \in Steps /\ td[10] \in Steps /\ td[11] \in Steps /\ td[12] \in Steps
    BY <2>2, <2>3 DEF Steps, LocalOps, SpawnOps
  <2>5. \A i \in 1 .. 12 : (td[i].op = "spawn" => i = 1) /\ (td[i].op = "connect" => i = 8) /\ ~Swaps(td[i])
    BY DEF Swaps
  <2>6. td[1].op = "spawn" /\ td[5].op = "call" /\ td[5].o = "m" /\ ~td[5].keep /\ td[6].op # "call" /\ td[7].op # "call"
    OBVIOUS
  <2> HIDE DEF td, a, l
  <2>7. Lists(Steps, todo, 12, td)
    <3> HIDE DEF s2, s3, s4, s5, s6, s7, s8, s9, s10, s11, s12
    <3>1. Lists(Steps, s1, 1, td)
      BY <2>4 DEF Lists
    <3> HIDE DEF s1
    <3>2. Lists(Steps, s2, 2, td)
      <4>1. Lists(Steps, s1 \o <<td[2]>>, 1 + 1, td)
        BY <2>4, <3>1, ListsOneMore
      <4> QED
        BY <4>1 DEF s2
    <3>3. Lists(Steps, s3, 3, td)
      <4>1. Lists(Steps, s2 \o <<td[3]>>, 2 + 1, td)
        BY <2>4, <3>2, ListsOneMore
      <4> QED
        BY <4>1 DEF s3
    <3>4. Lists(Steps, s4, 4, td)
      <4>1. Lists(Steps, s3 \o <<td[4]>>, 3 + 1, td)
        BY <2>4, <3>3, ListsOneMore
      <4> QED
        BY <4>1 DEF s4
    <3>5. Lists(Steps, s5, 5, td)
      <4>1. Lists(Steps, s4 \o <<td[5]>>, 4 + 1, td)
        BY <2>4, <3>4, ListsOneMore
      <4> QED
        BY <4>1 DEF s5
    <3>6. Lists(Steps, s6, 6, td)
      <4>1. Lists(Steps, s5 \o <<td[6]>>, 5 + 1, td)
        BY <2>4, <3>5, ListsOneMore
      <4> QED
        BY <4>1 DEF s6
    <3>7. Lists(Steps, s7, 7, td)
      <4>1. Lists(Steps, s6 \o <<td[7]>>, 6 + 1, td)
        BY <2>4, <3>6, ListsOneMore
      <4> QED
        BY <4>1 DEF s7
    <3>8. Lists(Steps, s8, 8, td)
      <4>1. Lists(Steps, s7 \o <<td[8]>>, 7 + 1, td)
        BY <2>4, <3>7, ListsOneMore
      <4> QED
        BY <4>1 DEF s8
    <3>9. Lists(Steps, s9, 9, td)
      <4>1. Lists(Steps, s8 \o <<td[9]>>, 8 + 1, td)
        BY <2>4, <3>8, ListsOneMore
      <4> QED
        BY <4>1 DEF s9
    <3>10. Lists(Steps, s10, 10, td)
      <4>1. Lists(Steps, s9 \o <<td[10]>>, 9 + 1, td)
        BY <2>4, <3>9, ListsOneMore
      <4> QED
        BY <4>1 DEF s10
    <3>11. Lists(Steps, s11, 11, td)
      <4>1. Lists(Steps, s10 \o <<td[11]>>, 10 + 1, td)
        BY <2>4, <3>10, ListsOneMore
      <4> QED
        BY <4>1 DEF s11
    <3>12. Lists(Steps, s12, 12, td)
      <4>1. Lists(Steps, s11 \o <<td[12]>>, 11 + 1, td)
        BY <2>4, <3>11, ListsOneMore
      <4> QED
        BY <4>1 DEF s12
    <3> QED
      BY <2>1, <3>12
  <2> HIDE DEF s1, s2, s3, s4, s5, s6, s7, s8, s9, s10, s11, s12
  <2>8. todo \in Seq(Steps) /\ Len(todo) = 12 /\ \A i \in 1 .. 12 : todo[i] = td[i]
    BY <2>7 DEF Lists
  <2>9. /\ todo[1].op = "spawn" /\ todo[5].op = "call" /\ todo[5].o = "m" /\ ~todo[5].keep
        /\ todo[6].op # "call" /\ todo[7].op # "call"
    BY <2>6, <2>8
  <2>10. Released(todo, 8, obj)
    <3>1. 5 \in 0 .. 8 - 1 /\ \A j \in 5 + 1 .. 8 - 1 : j = 6 \/ j = 7
      OBVIOUS
    <3> QED
      BY <2>9, <3>1 DEF Released
  <2>11. \A i \in 1 .. Len(todo) : StepOK(todo, i, obj)
    BY <1>2, <1>3, <2>5, <2>8, <2>9, <2>10 DEF StepOK
  <2> QED
    BY <2>8, <2>11 DEF TodoOK
<1> QED
  BY <1>1, <1>4, <1>5, <1>6, <1>7 DEF IInv

LEMMA NextKeeps ==
  ASSUME IInv, [Next]_vars
  PROVE  IInv'
<1>1. CASE Script
  BY <1>1, CallSendKeeps, CallReturnsKeeps, CallFailsKeeps, LocalStepKeeps, SpawnStepKeeps, LoopKeeps,
     LoopRunKeeps, ClosersKeeps DEF Script
<1>2. CASE Observer
  BY <1>2, ObserverKeeps
<1>3. CASE \E p \in Pids : \E o \in Clients : Handle(p, o)
  BY <1>3, HandleStepKeeps
<1>4. CASE \E p \in Pids : Child(p) \/ Leave(p) \/ (Crash(p) /\ UNCHANGED scriptVars)
  BY <1>4, ChildKeeps, EndKeeps
<1>5. CASE \E c \in late : HandleLate(c, LateContents(c)) /\ UNCHANGED scriptVars
  BY <1>5, HandleLateKeeps
<1>6. CASE UNCHANGED vars
  <2>1. UNCHANGED scriptVars /\ UNCHANGED <<proc, obj, call, late>>
    BY <1>6 DEF vars, scriptVars
  <2>2. ProcOK(proc', obj) /\ LateOK(late')
    BY <2>1 DEF IInv
  <2> QED
    BY <2>1, <2>2, ServerKeeps
<1> QED
  BY <1>1, <1>2, <1>3, <1>4, <1>5, <1>6 DEF Next

\* What a step does to the calls: only a handler answers one.
LEMMA NextAnswers ==
  ASSUME IInv, [Next]_vars, NEW o \in Clients, call[o].st = "sent", call'[o].st = "answered"
  PROVE  call'[o].by = obj[o].srv /\ proc[obj[o].srv].addr # Closed
<1>1. DOMAIN call = Clients
  BY DEF IInv, CallOK
<1>2. \E p \in Pids : \E u \in Clients : Handle(p, u)
  <2>1. ASSUME NEW u, call' = [call EXCEPT ![u] = Idle] PROVE FALSE
    BY <1>1, <2>1, IdleField
  <2>2. ASSUME NEW u, SendFails(u) \/ ReceiveFails(u) \/ Receive(u, obj') PROVE FALSE
    BY <2>1, <2>2 DEF SendFails, ReceiveFails, Receive
  <2>3. ASSUME NEW u, NEW m, NEW arg, NEW keep, Send(u, m, arg, keep) PROVE FALSE
    <3>1. call' = [call EXCEPT ![u] = [Idle EXCEPT !.st = "sent", !.m = m, !.arg = arg, !.keep = keep]]
      BY <2>3 DEF Send
    <3>2. [Idle EXCEPT !.st = "sent", !.m = m, !.arg = arg, !.keep = keep].st = "sent"
      BY DEF Idle
    <3> QED
      BY <1>1, <3>1, <3>2
  <2>4. ASSUME UNCHANGED call PROVE FALSE
    BY <2>4
  <2>5. CASE Script
    <3>1. CASE CallSend
      BY <2>3, <3>1 DEF CallSend
    <3>2. CASE CallReturns
      BY <2>1, <3>2 DEF CallReturns, Receive
    <3>3. CASE CallFails
      BY <2>1, <2>2, <3>3 DEF CallFails, Receive
    <3>4. CASE LocalStep \/ SpawnStep \/ Loop \/ LoopRun \/ Closers
      BY <2>4, <3>4 DEF LocalStep, SpawnStep, Loop, LoopRun, Closers, remoteVars
    <3> QED
      BY <2>5, <3>1, <3>2, <3>3, <3>4 DEF Script
  <2>6. CASE Observer
    BY <2>1, <2>2, <2>3, <2>6 DEF Observer, Receive
  <2>7. CASE \E p \in Pids : Child(p) \/ Leave(p) \/ (Crash(p) /\ UNCHANGED scriptVars)
    BY <2>4, <2>7 DEF Child, ForkChild, Leave, Exit, Crash
  <2>8. CASE \E c \in late : HandleLate(c, LateContents(c)) /\ UNCHANGED scriptVars
    BY <2>4, <2>8 DEF HandleLate
  <2>9. CASE UNCHANGED vars
    BY <2>4, <2>9 DEF vars
  <2> QED
    BY <2>5, <2>6, <2>7, <2>8, <2>9 DEF Next
<1>3. PICK p \in Pids, u \in Clients : Handle(p, u)
  BY <1>2
<1>4. Answered(u, p) /\ proc[p].st = "up" /\ u \in proc[p].sess \cup proc[p].copies
  BY <1>3, HandleKeeps
<1>5. u = o /\ call'[o].by = p
  BY <1>4 DEF Answered
<1>6. ProcessOK(proc[p], p, obj)
  BY DEF IInv, ProcOK
<1>7. o \in proc[p].sess /\ obj[o].srv = p /\ proc[p].addr # Closed
  BY <1>4, <1>5, <1>6 DEF ProcessOK
<1> QED
  BY <1>5, <1>7

\* The sessions, objects, calls and plans of the system always fit together:
\* in particular every session of a server is of a client whose stream leads
\* to it, a server that was told to stop has none, and no plan of the script
\* swaps or connects an object whose stream is open (close_sessions,
\* jsonrpc_fork_handler, jsonrpc_shutdown_handler, do_rollback).
THEOREM InductiveInvariant == Spec => []IInv
<1>1. Init => IInv
  BY InitHolds
<1>2. IInv /\ [Next]_vars => IInv'
  BY NextKeeps
<1> QED
  BY <1>1, <1>2, PTL DEF Spec

\* A request is answered by the process its client connected to, and only
\* while it listens: neither a forked child that inherited the session nor a
\* server that was shut down answers (jsonrpc_fork_handler, close_sessions,
\* jsonrpc_shutdown_handler), however many servers there are and whatever
\* fails.
THEOREM AnswersComeFromListeners == Spec => AnsweredByListener
<1> DEFINE A == \A o \in Clients :
                  (call[o].st = "sent" /\ call'[o].st = "answered") =>
                      call'[o].by = obj[o].srv /\ proc[obj[o].srv].addr # Closed
<1>1. IInv /\ [Next]_vars => [A]_vars
  BY NextAnswers
<1> HIDE DEF A
<1>2. Spec => [][A]_vars
  BY <1>1, InductiveInvariant, PTL DEF Spec
<1> QED
  BY <1>2 DEF A, AnsweredByListener

----------------
(* The plan of the script, and the processes that hold an address           *)

Phases == {"spawn", "connect", "start", "loop", "after", "closing", "gc", "ended"}
Spawning(td) == \E k \in 1 .. Len(td) : td[k].op = "connect"

\* Kinds of calls: a rebind, a fork, a shutdown that frees the address of the
\* next rebind, a call after which there is no backup that answers.
Rebinds(c) == c.op = "call" /\ c.m = "rebind"
Forks(c) == c.op = "call" /\ c.m = "fork"
Frees(c) == c.op = "call" /\ c.then \in {"swap", "grand_address"}
Drops(c) == c.op = "call" /\ (c.then \in {"no_backup", "swap"} \/ (c.then = "reset" /\ c.o = "b"))
Backs(c) == c.op = "call" /\ c.then = "backup"
Leads(c, then) == c.op = "call" /\ c.then = then
Simple(c) == c.op \in {"start", "loop"} \/ (c.op = "call" /\ ~Rebinds(c) /\ ~Forks(c) /\ ~Frees(c) /\ c.then # "check")

\* The order of a plan.
RebindOrder(td, i) ==
  /\ ~td[i].keep /\ td[i].then \in {"address", "rolled_back"}
  /\ i = 1 \/ Frees(td[i - 1])
FreesOrder(td, i) ==
  /\ td[i].m = "shutdown" /\ i < Len(td) /\ Rebinds(td[i + 1])
GrandOrder(td, i, gr) ==
  /\ Spawning(td)
  /\ \A j \in 1 .. i - 1 : ~Rebinds(td[j])
  /\ gr \in Pids \/ \E j \in 1 .. i - 1 : Leads(td[j], "grand")
ForkedOrder(td, i, gr) ==
  /\ gr \notin Pids /\ \A j \in 1 .. i - 1 : ~Leads(td[j], "grand")
  /\ \E k \in i + 1 .. Len(td) : Leads(td[k], "grand_address")
BackupOrder(td, i, bok) ==
  /\ ~bok \/ \E j \in 1 .. i - 1 : Drops(td[j])
  /\ \A j \in 1 .. i - 1 : ~Backs(td[j])
PhaseOrder(td, i, ph) ==
  /\ td[i].op \in {"start", "loop", "after"} => Spawning(td) \/ ph \in {"connect", "start", "loop"}
  /\ td[i].op \in {"spawn", "connect", "end"} => ph = "spawn"
  /\ td[i].op = "closing" => ph = "after"
  /\ td[i].op = "gc" => ph = "closing"
  /\ td[i].op = "ended" => ph = "gc"
  /\ td[i].op \in {"loop", "after", "closing", "gc", "ended", "end"} => i = Len(td)
  /\ td[i].op \in {"connect", "start"} => \A j \in i + 1 .. Len(td) : Simple(td[j])

PlanStep(td, i, ph, bok, gr) ==
  /\ Rebinds(td[i]) => RebindOrder(td, i) /\ (Spawning(td) \/ ph \in {"loop", "closing"})
  /\ Frees(td[i]) => FreesOrder(td, i)
  /\ Leads(td[i], "grand_address") => GrandOrder(td, i, gr)
  /\ Forks(td[i]) => td[i].then \in {"backup", "grand"} /\ (Spawning(td) \/ ph = "loop")
  /\ Leads(td[i], "grand") => ForkedOrder(td, i, gr)
  /\ Leads(td[i], "check") => ph = "loop"
  /\ Leads(td[i], "no_backup") => td[i].o = "b"
  /\ Forks(td[i]) \/ Rebinds(td[i]) => BackupOrder(td, i, bok)
  /\ PhaseOrder(td, i, ph)
APlan(td, ph, bok, gr) ==
  /\ ph \in Phases /\ (ph = "ended" => td = <<>>)
  /\ \A i \in 1 .. Len(td) : PlanStep(td, i, ph, bok, gr)

Runs(x) == x.st \in {"child", "up"}
AProc(pr) ==
  /\ \A p \in Pids :
       /\ pr[p].st \in {"none", "child", "up", "gone"}
       /\ Runs(pr[p]) => pr[p].addr \in {p, Home, Closed}
       /\ pr[p].st = "child" => pr[p].addr = p
       /\ pr[p].st = "up" => pr[p].inherits = {}
       /\ pr[p].st \in {"none", "gone"} => pr[p].addr = Closed
  /\ pr[1].st # "child"
  /\ pr[1].st = "none" => \A p \in Pids : pr[p].st = "none"
  /\ \A p, q \in Pids : (Runs(pr[p]) /\ Runs(pr[q]) /\ pr[p].addr = Home /\ pr[q].addr = Home) => p = q
AObj(ob) ==
  /\ \A o \in Clients : (ob[o].srv # 0 /\ ob[o].ep \in Pids) => ob[o].srv = ob[o].ep
  /\ ob["o"].ep \in {Home, Closed} /\ ob["o"].addr = Home
  /\ ob["b"].ok => ob["b"].addr \in Pids
ACall(cl, ob, pr) ==
  \A o \in Clients : cl[o].st # "idle" =>
    /\ ob[o].ok /\ ob[o].srv # 0 /\ ob[o].ep = ob[o].addr
    /\ pr[ob[o].srv].st # "none"
    /\ pr[ob[o].srv].st = "child" => cl[o].st = "sent" /\ o \in pr[ob[o].srv].sess

RebindNext(td) == td # <<>> /\ Rebinds(td[1])
Live(td, ph, ob) ==
  \/ Spawning(td) \/ ph \in {"connect", "start", "loop", "after"}
  \/ ph = "closing" /\ (ob["b"].ok \/ (RebindNext(td) /\ ob["m"].ok))

Harmless(lt) == \A c \in lt : c.m \notin {"fork", "rebind"}
SessionsLead(pr, ob) == \A p \in Pids : \A o \in pr[p].sess : pr[p].addr = ob[o].ep
Inheritors(pr) == {p \in Pids : pr[p].st = "child" /\ Home \in pr[p].inherits}
Expected(td, ob, cl, gr) ==
  {ob["m"].addr} \cup {a \in {ob["b"].addr} : ob["b"].ok}
  \cup {a \in {gr} : \E i \in 1 .. Len(td) : Leads(td[i], "grand_address")}
  \cup {r \in Pids : cl["m"].st = "answered" /\ cl["m"].m = "fork" /\ cl["m"].res = <<r>>}
AtHome(td, ob) == ob["m"].nil \/ ob["m"].addr = Home \/ RebindNext(td)
Freed(td, cl) ==
  td # <<>> /\ (\/ Rebinds(td[1]) /\ cl["m"].st # "answered"
                \/ Frees(td[1]) /\ cl["m"].st = "answered")
HomeFree(pr) == \A p \in Pids : Runs(pr[p]) => pr[p].addr # Home
HomeRebinds(td) == \A i \in 1 .. Len(td) : Rebinds(td[i]) => td[i].arg = Home

ALive(td, ph, ob, cl, pr, lt, gr) ==
  Live(td, ph, ob) =>
    /\ Harmless(lt) /\ SessionsLead(pr, ob) /\ Inheritors(pr) \subseteq Expected(td, ob, cl, gr)
    /\ AtHome(td, ob) /\ HomeRebinds(td)
    /\ Freed(td, cl) => HomeFree(pr)
ALate(lt) == \A c \in lt : c.m = "rebind" => c.arg = Home
ASpawn(td, pr) == (td # <<>> /\ td[1].op = "spawn") => \A p \in Pids : pr[p].st = "none"

\* The plan fits what the script has left behind, on the servers and in its
\* objects: AnswersComeFromListeners does not need it, the free address and
\* the order of the outputs do.
AInv ==
  /\ APlan(todo, phase, obj["b"].ok, grand) /\ AProc(proc) /\ AObj(obj) /\ ACall(call, obj, proc)
  /\ ALive(todo, phase, obj, call, proc, late, grand) /\ ASpawn(todo, proc)
  /\ ALate(late)

----------------
LEMMA TailOf ==
  ASSUME NEW td \in Seq(Steps), td # <<>>
  PROVE  /\ Len(td) \in Nat \ {0} /\ Tail(td) \in Seq(Steps) /\ Len(Tail(td)) = Len(td) - 1
         /\ \A i \in 1 .. Len(td) - 1 : Tail(td)[i] = td[i + 1]
OBVIOUS

\* The first step is done.
LEMMA PlanTail ==
  ASSUME NEW td \in Seq(Steps), td # <<>>, NEW ph, NEW nph \in Phases, NEW bok, NEW nbok, NEW gr, NEW ngr,
         APlan(td, ph, bok, gr),
         Drops(td[1]) => ~nbok,
         nbok => bok \/ Backs(td[1]),
         ngr = gr \/ Leads(td[1], "grand"), Leads(td[1], "grand") => ngr \in Pids,
         td[1].op = "connect" => nph = "connect",
         td[1].op = "start" => nph = "start",
         td[1].op \notin {"connect", "start", "loop", "after", "closing", "gc", "ended", "end"} => nph = ph
  PROVE  APlan(Tail(td), nph, nbok, ngr)
<1>1. PICK n \in Nat : /\ Len(td) = n /\ n # 0 /\ Len(Tail(td)) = n - 1
                       /\ \A i \in 1 .. n - 1 : Tail(td)[i] = td[i + 1]
  BY TailOf
<1> DEFINE t == Tail(td)
<1>0. nph = "ended" => t = <<>>
  <2>1. PlanStep(td, 1, ph, bok, gr) /\ ph # "ended"
    BY <1>1 DEF APlan
  <2>2. td[1].op \in {"loop", "after", "closing", "gc", "ended", "end"} => n = 1
    BY <1>1, <2>1 DEF PlanStep, PhaseOrder
  <2>3. nph = "ended" => n = 1
    BY <2>1, <2>2
  <2>4. t \in Seq(Steps) /\ Len(t) = n - 1
    BY <1>1, TailOf
  <2> HIDE DEF t
  <2> QED
    BY <2>3, <2>4
<1> SUFFICES ASSUME NEW i \in 1 .. n - 1 PROVE PlanStep(t, i, nph, nbok, ngr)
  BY <1>0, <1>1 DEF APlan
<1> HIDE DEF t
<1>2. Len(t) = n - 1 /\ \A j \in 1 .. n - 1 : t[j] = td[j + 1]
  BY <1>1 DEF t
<1>3. i \in Nat /\ i >= 1 /\ i + 1 <= n /\ i + 1 \in 1 .. n /\ 1 \in 1 .. n /\ n > 1 /\ t[i] = td[i + 1]
  BY <1>2
<1>4. PlanStep(td, i + 1, ph, bok, gr) /\ PlanStep(td, 1, ph, bok, gr)
  BY <1>1, <1>3 DEF APlan
<1>5. td[1].op \notin {"loop", "after", "closing", "gc", "ended", "end"}
  BY <1>1, <1>3, <1>4 DEF PlanStep, PhaseOrder
<1>6. td[1].op \in {"connect", "start"} => Simple(t[i])
  <2>1. td[1].op \in {"connect", "start"} => \A j \in 1 + 1 .. n : Simple(td[j])
    BY <1>1, <1>4 DEF PlanStep, PhaseOrder
  <2> QED
    BY <1>3, <2>1
<1>7. td[1].op \notin {"connect", "start"} => nph = ph
  BY <1>5
<1>8. td[1].op # "connect" /\ Spawning(td) => Spawning(t)
  <2> SUFFICES ASSUME td[1].op # "connect", Spawning(td) PROVE Spawning(t)
    OBVIOUS
  <2>1. PICK k \in 1 .. n : td[k].op = "connect"
    BY <1>1 DEF Spawning
  <2>2. k - 1 \in 1 .. n - 1 /\ t[k - 1] = td[k]
    BY <1>2, <2>1
  <2> QED
    BY <1>2, <2>1, <2>2 DEF Spawning
<1>9. Rebinds(t[i]) => RebindOrder(t, i) /\ (Spawning(t) \/ nph \in {"loop", "closing"})
  <2> SUFFICES ASSUME Rebinds(t[i]) PROVE RebindOrder(t, i) /\ (Spawning(t) \/ nph \in {"loop", "closing"})
    OBVIOUS
  <2>1. RebindOrder(td, i + 1) /\ (Spawning(td) \/ ph \in {"loop", "closing"})
    BY <1>3, <1>4 DEF PlanStep
  <2>2. td[1].op \notin {"connect", "start"}
    BY <1>6 DEF Simple, Rebinds
  <2>3. i # 1 => i - 1 \in 1 .. n - 1 /\ t[i - 1] = td[i]
    BY <1>2, <1>3
  <2>4. Frees(td[i])
    BY <1>3, <2>1 DEF RebindOrder
  <2> QED
    BY <1>3, <1>7, <1>8, <2>1, <2>2, <2>3, <2>4 DEF RebindOrder
<1>10. Frees(t[i]) => FreesOrder(t, i)
  <2> SUFFICES ASSUME Frees(t[i]) PROVE FreesOrder(t, i)
    OBVIOUS
  <2>1. FreesOrder(td, i + 1)
    BY <1>3, <1>4 DEF PlanStep
  <2>2. i + 1 < n /\ Rebinds(td[(i + 1) + 1]) /\ td[i + 1].m = "shutdown"
    BY <1>1, <2>1 DEF FreesOrder
  <2>3. i + 1 \in 1 .. n - 1 /\ t[i + 1] = td[(i + 1) + 1] /\ i < n - 1
    BY <1>2, <1>3, <2>2
  <2> QED
    BY <1>2, <1>3, <2>2, <2>3 DEF FreesOrder
<1>11. Leads(t[i], "grand_address") => GrandOrder(t, i, ngr)
  <2> SUFFICES ASSUME Leads(t[i], "grand_address") PROVE GrandOrder(t, i, ngr)
    OBVIOUS
  <2>1. GrandOrder(td, i + 1, gr)
    BY <1>3, <1>4 DEF PlanStep
  <2>2. td[1].op # "connect"
    BY <1>6 DEF Simple, Leads, Frees
  <2>3. ASSUME NEW j \in 1 .. i - 1 PROVE ~Rebinds(t[j])
    <3>1. j + 1 \in 1 .. (i + 1) - 1 /\ j \in 1 .. n - 1
      BY <1>3
    <3> QED
      BY <1>2, <2>1, <3>1 DEF GrandOrder
  <2>4. CASE gr \in Pids
    BY <1>8, <2>1, <2>2, <2>3, <2>4 DEF GrandOrder
  <2>5. CASE gr \notin Pids
    <3>1. PICK j \in 1 .. (i + 1) - 1 : Leads(td[j], "grand")
      BY <2>1, <2>5 DEF GrandOrder
    <3>2. CASE j = 1
      BY <1>8, <2>1, <2>2, <2>3, <3>1, <3>2 DEF GrandOrder
    <3>3. CASE j # 1
      <4>1. j - 1 \in 1 .. i - 1 /\ j - 1 \in 1 .. n - 1 /\ (j - 1) + 1 = j
        BY <1>3, <3>3
      <4>2. t[j - 1] = td[j]
        BY <1>2, <4>1
      <4> QED
        BY <1>8, <2>1, <2>2, <2>3, <3>1, <4>1, <4>2 DEF GrandOrder
    <3> QED
      BY <3>2, <3>3
  <2> QED
    BY <2>4, <2>5
<1>12. Forks(t[i]) => t[i].then \in {"backup", "grand"} /\ (Spawning(t) \/ nph = "loop")
  <2> SUFFICES ASSUME Forks(t[i]) PROVE t[i].then \in {"backup", "grand"} /\ (Spawning(t) \/ nph = "loop")
    OBVIOUS
  <2>1. td[1].op \notin {"connect", "start"}
    BY <1>6 DEF Simple, Forks
  <2> QED
    BY <1>3, <1>4, <1>7, <1>8, <2>1 DEF PlanStep
<1>13. Leads(t[i], "grand") => ForkedOrder(t, i, ngr)
  <2> SUFFICES ASSUME Leads(t[i], "grand") PROVE ForkedOrder(t, i, ngr)
    OBVIOUS
  <2>0. ForkedOrder(td, i + 1, gr)
    BY <1>3, <1>4 DEF PlanStep
  <2>1. PICK k \in (i + 1) + 1 .. n : Leads(td[k], "grand_address")
    BY <1>1, <2>0 DEF ForkedOrder
  <2>2. k - 1 \in i + 1 .. n - 1 /\ k - 1 \in 1 .. n - 1 /\ (k - 1) + 1 = k
    BY <1>3
  <2>3. t[k - 1] = td[k]
    BY <1>2, <2>2
  <2>4. 1 \in 1 .. (i + 1) - 1
    BY <1>3
  <2>5. ngr \notin Pids
    BY <2>0, <2>4 DEF ForkedOrder
  <2>6. ASSUME NEW j \in 1 .. i - 1 PROVE ~Leads(t[j], "grand")
    <3>1. j + 1 \in 1 .. (i + 1) - 1 /\ j \in 1 .. n - 1
      BY <1>3
    <3> QED
      BY <1>2, <2>0, <3>1 DEF ForkedOrder
  <2> QED
    BY <1>2, <2>1, <2>2, <2>3, <2>5, <2>6 DEF ForkedOrder
<1>16. Leads(t[i], "check") => nph = "loop"
  BY <1>3, <1>4, <1>6, <1>7 DEF PlanStep, Simple, Leads
<1>17. Leads(t[i], "no_backup") => t[i].o = "b"
  BY <1>3, <1>4 DEF PlanStep
<1>14. Forks(t[i]) \/ Rebinds(t[i]) => BackupOrder(t, i, nbok)
  <2> SUFFICES ASSUME Forks(t[i]) \/ Rebinds(t[i]) PROVE BackupOrder(t, i, nbok)
    OBVIOUS
  <2>1. BackupOrder(td, i + 1, bok)
    BY <1>3, <1>4 DEF PlanStep
  <2>2. ASSUME NEW j \in 1 .. i - 1 PROVE ~Backs(t[j])
    <3>1. j + 1 \in 1 .. (i + 1) - 1 /\ j \in 1 .. n - 1
      BY <1>3
    <3> QED
      BY <1>2, <2>1, <3>1 DEF BackupOrder
  <2>3. ~Backs(td[1])
    BY <1>3, <2>1 DEF BackupOrder
  <2>4. CASE ~nbok
    BY <2>2, <2>4 DEF BackupOrder
  <2>5. CASE nbok
    <3>1. PICK j \in 1 .. (i + 1) - 1 : Drops(td[j])
      BY <2>1, <2>3, <2>5 DEF BackupOrder
    <3>2. j # 1
      BY <2>5, <3>1
    <3>3. j - 1 \in 1 .. i - 1 /\ t[j - 1] = td[j]
      BY <1>2, <1>3, <3>2
    <3> QED
      BY <2>2, <3>1, <3>3 DEF BackupOrder
  <2> QED
    BY <2>4, <2>5
<1>15. PhaseOrder(t, i, nph)
  <2>1. PhaseOrder(td, i + 1, ph)
    BY <1>4 DEF PlanStep
  <2>2. td[1].op \in {"connect", "start"} => t[i].op \in {"start", "loop", "call"}
    BY <1>6 DEF Simple
  <2>3. t[i].op \in {"start", "loop", "after"} => Spawning(t) \/ nph \in {"connect", "start", "loop"}
    BY <1>3, <1>7, <1>8, <2>1, <2>2 DEF PhaseOrder
  <2>4. t[i].op \in {"loop", "after", "closing", "gc", "ended", "end"} => i = Len(t)
    BY <1>1, <1>2, <1>3, <2>1 DEF PhaseOrder
  <2>5. t[i].op \in {"connect", "start"} => \A j \in i + 1 .. Len(t) : Simple(t[j])
    <3> SUFFICES ASSUME t[i].op \in {"connect", "start"}, NEW j \in i + 1 .. n - 1 PROVE Simple(t[j])
      BY <1>2
    <3>1. j + 1 \in (i + 1) + 1 .. n /\ j \in 1 .. n - 1
      BY <1>3
    <3> QED
      BY <1>1, <1>2, <1>3, <2>1, <3>1 DEF PhaseOrder
  <2>6. /\ t[i].op \in {"spawn", "connect", "end"} => nph = "spawn"
        /\ t[i].op = "closing" => nph = "after"
        /\ t[i].op = "gc" => nph = "closing"
        /\ t[i].op = "ended" => nph = "gc"
    <3>1. CASE td[1].op \in {"connect", "start"}
      BY <2>2, <3>1
    <3>2. CASE td[1].op \notin {"connect", "start"}
      BY <1>3, <1>7, <2>1, <3>2 DEF PhaseOrder
    <3> QED
      BY <3>1, <3>2
  <2> QED
    BY <2>3, <2>4, <2>5, <2>6 DEF PhaseOrder
<1> QED
  BY <1>9, <1>10, <1>11, <1>12, <1>13, <1>14, <1>15, <1>16, <1>17 DEF PlanStep

----------------
(* Processes *)

LEMMA OneIsPid == 1 \in Pids
BY BoundsAssumption DEF Pids

\* Only sessions change.
SameSockets(pr, qr) ==
  \A p \in Pids : qr[p].st = pr[p].st /\ qr[p].addr = pr[p].addr /\ qr[p].inherits = pr[p].inherits

LEMMA SameSocketsProc ==
  ASSUME NEW pr, NEW qr, AProc(pr), SameSockets(pr, qr)
  PROVE  AProc(qr) /\ Inheritors(qr) = Inheritors(pr) /\ (HomeFree(pr) => HomeFree(qr))
<1>1. AProc(qr)
  BY OneIsPid DEF AProc, SameSockets, Runs
<1>2. Inheritors(qr) = Inheritors(pr)
  BY DEF Inheritors, SameSockets
<1>3. HomeFree(pr) => HomeFree(qr)
  BY DEF HomeFree, SameSockets, Runs
<1> QED
  BY <1>1, <1>2, <1>3

\* The process p may become x.
Fits(pr, p, x) ==
  /\ x.st \in {"none", "child", "up", "gone"}
  /\ Runs(x) => x.addr \in {p, Home, Closed}
  /\ x.st = "child" => x.addr = p /\ p # 1
  /\ x.st = "up" => x.inherits = {}
  /\ x.st \in {"none", "gone"} => x.addr = Closed
  /\ x.st = "none" => pr[p].st = "none"
  /\ x.st # "none" /\ p # 1 => pr[1].st # "none"
  /\ (Runs(x) /\ x.addr = Home) => \A q \in Pids : q # p => ~(Runs(pr[q]) /\ pr[q].addr = Home)

LEMMA OneProcess ==
  ASSUME NEW pr, DOMAIN pr = Pids, AProc(pr), NEW p \in Pids, NEW x, Fits(pr, p, x)
  PROVE  AProc([pr EXCEPT ![p] = x])
<1> USE DEF Fits
<1> DEFINE qr == [pr EXCEPT ![p] = x]
<1>1. qr[p] = x /\ \A q \in Pids : q # p => qr[q] = pr[q]
  OBVIOUS
<1> HIDE DEF qr
<1>2. ASSUME NEW q \in Pids
      PROVE  /\ qr[q].st \in {"none", "child", "up", "gone"}
             /\ Runs(qr[q]) => qr[q].addr \in {q, Home, Closed}
             /\ qr[q].st = "child" => qr[q].addr = q
             /\ qr[q].st = "up" => qr[q].inherits = {}
             /\ qr[q].st \in {"none", "gone"} => qr[q].addr = Closed
  <2>1. CASE q = p
    BY <1>1, <2>1
  <2>2. CASE q # p
    BY <1>1, <2>2 DEF AProc
  <2> QED
    BY <2>1, <2>2
<1>3. qr[1].st # "child"
  BY <1>1, OneIsPid DEF AProc
<1>4. qr[1].st = "none" => \A q \in Pids : qr[q].st = "none"
  BY <1>1, OneIsPid DEF AProc
<1>5. ASSUME NEW u \in Pids, NEW v \in Pids, Runs(qr[u]), Runs(qr[v]), qr[u].addr = Home, qr[v].addr = Home
      PROVE  u = v
  <2>1. CASE u = p /\ v # p
    BY <1>1, <1>5, <2>1
  <2>2. CASE v = p /\ u # p
    BY <1>1, <1>5, <2>2
  <2>3. CASE u # p /\ v # p
    BY <1>1, <1>5, <2>3 DEF AProc
  <2> QED
    BY <2>1, <2>2, <2>3
<1>6. AProc(qr)
  BY <1>2, <1>3, <1>4, <1>5 DEF AProc
<1> QED
  BY <1>6 DEF qr

\* What the processes did since pr: none starts again or is a child again,
\* and the sessions of a child stay.
Ages(pr, qr) ==
  \A p \in Pids : pr[p].st # "none" =>
    qr[p].st # "none" /\ (qr[p].st = "child" => pr[p].st = "child" /\ pr[p].sess \subseteq qr[p].sess)

LEMMA AgesCall ==
  ASSUME NEW cl, NEW ob, NEW pr, NEW qr, ACall(cl, ob, pr), Ages(pr, qr), ObjOK(ob)
  PROVE  ACall(cl, ob, qr)
<1> SUFFICES ASSUME NEW o \in Clients, cl[o].st # "idle"
             PROVE  /\ ob[o].ok /\ ob[o].srv # 0 /\ ob[o].ep = ob[o].addr
                    /\ qr[ob[o].srv].st # "none"
                    /\ qr[ob[o].srv].st = "child" => cl[o].st = "sent" /\ o \in qr[ob[o].srv].sess
  BY DEF ACall
<1>1. /\ ob[o].ok /\ ob[o].srv # 0 /\ ob[o].ep = ob[o].addr
      /\ pr[ob[o].srv].st # "none"
      /\ pr[ob[o].srv].st = "child" => cl[o].st = "sent" /\ o \in pr[ob[o].srv].sess
  BY DEF ACall
<1>2. ob[o].srv \in Pids
  BY <1>1 DEF ObjOK, ObjectOK
<1> QED
  BY <1>1, <1>2 DEF Ages

\* The facts about a process pr[p] replaced by x.
LEMMA UpdateFacts ==
  ASSUME NEW pr, DOMAIN pr = Pids, NEW p \in Pids, NEW x, NEW qr, qr = [pr EXCEPT ![p] = x]
  PROVE  qr[p] = x /\ DOMAIN qr = Pids /\ \A q \in Pids : q # p => qr[q] = pr[q]
OBVIOUS

\* A process p stops, or stops listening: x is what is left.
Winds(y, x) ==
  /\ x.st \in {"up", "gone"} /\ y.st # "none"
  /\ x.st = "up" => y.st = "up" /\ x.inherits = {}
  /\ x.addr = Closed /\ x.sess = {}

Wound(pr, qr, p) ==
  /\ AProc(qr) /\ Ages(pr, qr) /\ Inheritors(qr) \subseteq Inheritors(pr) /\ (HomeFree(pr) => HomeFree(qr))
  /\ \A q \in Pids : q # p => qr[q] = pr[q]
  /\ qr[p].addr = Closed /\ qr[p].sess = {}

LEMMA WindsProc ==
  ASSUME NEW pr, DOMAIN pr = Pids, AProc(pr), NEW p \in Pids, NEW x, Winds(pr[p], x), NEW qr, qr = [pr EXCEPT ![p] = x]
  PROVE  Wound(pr, qr, p)
<1>1. qr[p] = x /\ DOMAIN qr = Pids /\ \A q \in Pids : q # p => qr[q] = pr[q]
  BY UpdateFacts
<1>2. Closed # Home
  BY AddressFacts
<1>3. pr[1].st # "none"
  <2>1. pr[p].st # "none"
    BY DEF Winds
  <2> QED
    BY <2>1 DEF AProc
<1>4. AProc(qr)
  <2>1. Fits(pr, p, x)
    BY <1>2, <1>3 DEF Winds, Runs, Fits
  <2> QED
    BY <2>1, OneProcess
<1>5. Ages(pr, qr)
  BY <1>1 DEF Ages, Winds
<1>6. Inheritors(qr) \subseteq Inheritors(pr)
  BY <1>1 DEF Inheritors, Winds
<1>7. HomeFree(pr) => HomeFree(qr)
  BY <1>1, <1>2 DEF HomeFree, Winds
<1> QED
  BY <1>1, <1>4, <1>5, <1>6, <1>7 DEF Winds, Wound

\* A fork: the child q is new, and inherits the address of its parent.
Forked(pr, qr, p, q) ==
  /\ pr[q].st = "none" /\ q # p /\ DOMAIN qr = Pids
  /\ qr[q].st = "child" /\ qr[q].addr = q /\ qr[q].inherits = {pr[p].addr} /\ qr[q].sess = {}
  /\ qr[q].machine = pr[p].machine
  /\ AProc(qr) /\ Ages(pr, qr)
  /\ \A r \in Pids : r # q => qr[r] = pr[r]

LEMMA ForkedProc ==
  ASSUME ProcOK(proc, obj), AProc(proc), NEW o, NEW p \in Pids, proc[p].st = "up", Unused # {},
         NEW qr, qr = jsonrpc_fork_handler(p, o).proc
  PROVE  \E q \in Pids : jsonrpc_fork_handler(p, o).res = <<q>> /\ Forked(proc, qr, p, q)
<1>1. PICK q \in Pids : /\ jsonrpc_fork_handler(p, o).res = <<q>> /\ proc[q].st = "none"
                        /\ qr = [proc EXCEPT ![q] = [proc[p] EXCEPT !.st = "child", !.addr = q,
                                !.inherits = @ \cup {proc[p].addr}, !.sess = {}, !.copies = proc[p].sess]]
  <2>1. PICK q \in Unused : \A r \in Unused : q <= r
    <3>1. Unused \subseteq Nat
      BY AddressFacts DEF Unused
    <3> QED
      BY <3>1, LeastNat
  <2>2. (CHOOSE u \in Unused : \A r \in Unused : u <= r) \in Unused
    BY <2>1
  <2> QED
    BY <2>2 DEF jsonrpc_fork_handler, Ok, Unused
<1> DEFINE x == [proc[p] EXCEPT !.st = "child", !.addr = q,
                   !.inherits = @ \cup {proc[p].addr}, !.sess = {}, !.copies = proc[p].sess]
<1>2. DOMAIN proc[p] = ProcFields /\ DOMAIN proc = Pids /\ proc[p].inherits = {}
  BY DEF ProcOK, ProcessOK, AProc
<1>3. /\ x.st = "child" /\ x.addr = q /\ x.inherits = {proc[p].addr} /\ x.sess = {} /\ x.machine = proc[p].machine
  BY <1>2 DEF ProcFields
<1>4. qr = [proc EXCEPT ![q] = x]
  BY <1>1
<1> HIDE DEF x
<1>5. qr[q] = x /\ \A r \in Pids : r # q => qr[r] = proc[r]
  BY <1>2, <1>4, UpdateFacts
<1>6. proc[1].st # "none" /\ q # 1 /\ q # p /\ q # Home
  BY <1>1, AddressFacts DEF AProc, Home
<1>7. AProc(qr)
  <2>1. Fits(proc, q, x)
    BY <1>3, <1>6 DEF Runs, Fits
  <2>2. AProc([proc EXCEPT ![q] = x])
    BY <1>2, <2>1, OneProcess
  <2> QED
    BY <1>4, <2>2
<1>8. Ages(proc, qr)
  BY <1>1, <1>5 DEF Ages
<1>9. DOMAIN qr = Pids
  BY <1>2, <1>4
<1>10. Forked(proc, qr, p, q)
  BY <1>1, <1>3, <1>5, <1>6, <1>7, <1>8, <1>9 DEF Forked
<1> QED
  BY <1>1, <1>10

\* A rebind to Home succeeds only when nobody else has the address.
LEMMA ReboundProc ==
  ASSUME ProcOK(proc, obj), AProc(proc), NEW o, NEW p \in Pids, proc[p].st = "up", NEW a, a # Closed,
         a \in {p, Home} \/ proc[p].addr = a \/ jsonrpc_rebind_handler(p, o, a).res = <<>>,
         NEW qr, qr = jsonrpc_rebind_handler(p, o, a).proc
  PROVE  /\ AProc(qr) /\ Ages(proc, qr) /\ Inheritors(qr) = Inheritors(proc)
         /\ \A q \in Pids : q # p => qr[q] = proc[q]
         /\ qr[p].sess = proc[p].sess /\ qr[p].st = "up" /\ qr[p].machine = proc[p].machine
         /\ qr[p].addr \in {proc[p].addr, a}
<1>1. DOMAIN proc[p] = ProcFields /\ DOMAIN proc = Pids /\ proc[p].inherits = {} /\ proc[1].st # "none"
      /\ proc[p].addr \in {p, Home, Closed}
  BY DEF ProcOK, ProcessOK, AProc, Runs
<1>2. CASE qr = proc
  <2>1. AProc(qr) /\ Ages(proc, qr)
    BY <1>2 DEF Ages
  <2> QED
    BY <1>2, <2>1
<1>3. CASE qr # proc
  <2>1. /\ proc[p].addr # a /\ ~(\E q \in Pids : Holds(q, a)) /\ qr = [proc EXCEPT ![p].addr = a]
        /\ jsonrpc_rebind_handler(p, o, a).res = <<a>>
    BY <1>3 DEF jsonrpc_rebind_handler, Ok, Error
  <2>2. a \in {p, Home}
    BY <2>1
  <2> DEFINE x == [proc[p] EXCEPT !.addr = a]
  <2>3. qr = [proc EXCEPT ![p] = x]
    BY <2>1
  <2>4. x.addr = a /\ x.st = "up" /\ x.sess = proc[p].sess /\ x.inherits = {} /\ x.machine = proc[p].machine
    BY <1>1 DEF ProcFields
  <2> HIDE DEF x
  <2>5. qr[p] = x /\ \A r \in Pids : r # p => qr[r] = proc[r]
    BY <1>1, <2>3, UpdateFacts
  <2>6. (Runs(x) /\ x.addr = Home) => \A q \in Pids : q # p => ~(Runs(proc[q]) /\ proc[q].addr = Home)
    BY <2>1, <2>4 DEF Holds, Alive, Runs
  <2>7. AProc(qr)
    <3>1. Fits(proc, p, x)
      BY <1>1, <2>2, <2>4, <2>6 DEF Fits
    <3>2. AProc([proc EXCEPT ![p] = x])
      BY <1>1, <3>1, OneProcess
    <3> QED
      BY <2>3, <3>2
  <2>8. Ages(proc, qr)
    BY <2>4, <2>5 DEF Ages
  <2>9. Inheritors(qr) = Inheritors(proc)
    BY <2>4, <2>5 DEF Inheritors
  <2> QED
    BY <2>4, <2>5, <2>7, <2>8, <2>9
<1> QED
  BY <1>2, <1>3

----------------
(* Servers: what their steps keep *)

\* What has to be shown of a step that leaves the script and the objects.
LEMMA ServerStep ==
  ASSUME IInv, AInv, UNCHANGED scriptVars, UNCHANGED obj, AProc(proc'), ACall(call', obj, proc'), ALate(late'),
         \E p \in Pids : proc[p].st # "none",
         Live(todo, phase, obj) => /\ Harmless(late') /\ SessionsLead(proc', obj)
                                   /\ Inheritors(proc') \subseteq Expected(todo, obj, call', grand)
                                   /\ Freed(todo, call') => HomeFree(proc')
  PROVE  AInv'
<1>1. UNCHANGED <<todo, phase, grand, obj>>
  BY DEF scriptVars
<1>2. ~(todo # <<>> /\ todo[1].op = "spawn")
  BY DEF AInv, ASpawn
<1>3. ASpawn(todo', proc')
  BY <1>1, <1>2 DEF ASpawn
<1>4. ALive(todo, phase, obj, call', proc', late', grand)
  BY DEF AInv, ALive
<1> QED
  BY <1>1, <1>3, <1>4 DEF AInv

\* The request a server handles came by a session of its own.
LEMMA RequestFacts ==
  ASSUME IInv, AInv, NEW p \in Pids, NEW o \in Clients, Handle(p, o)
  PROVE  /\ call[o].st = "sent" /\ proc[p].st = "up" /\ o \in proc[p].sess /\ obj[o].srv = p
         /\ proc[p].addr # Closed
         /\ DOMAIN proc = Pids /\ DOMAIN proc[p] = ProcFields /\ DOMAIN call = Clients /\ DOMAIN call[o] = CallFields
<1>1. call[o].st = "sent" /\ proc[p].st = "up" /\ o \in proc[p].sess \cup proc[p].copies
  BY DEF Handle, HandleServer, HandleMachine, Requested
<1>2. ProcessOK(proc[p], p, obj) /\ DOMAIN proc = Pids /\ DOMAIN call = Clients /\ CallRecordOK(call[o])
  BY DEF IInv, ProcOK, CallOK
<1> QED
  BY <1>1, <1>2 DEF ProcessOK, CallRecordOK

\* What the plan says of a request under way.
LEMMA RequestPlan ==
  ASSUME IInv, AInv, NEW o \in Clients, call[o].st # "idle"
  PROVE  /\ call[o].m \in {"rebind", "fork"} => o = "m"
         /\ o \in Users => /\ todo # <<>> /\ todo[1].op = "call" /\ todo[1].o = o /\ todo[1].m = call[o].m
                           /\ todo[1].arg = call[o].arg /\ todo[1].keep = call[o].keep /\ ~obj[o].nil
                           /\ SoundCall(todo[1]) /\ PlanStep(todo, 1, phase, obj["b"].ok, grand)
                           /\ todo \in Seq(Steps) /\ Len(todo) \in Nat \ {0}
         /\ o \notin Users => call[o].m = "get_version"
<1>1. CASE o \notin Users
  <2>1. o = "o"
    BY <1>1 DEF Users, Clients
  <2> QED
    BY <1>1, <2>1 DEF IInv, CallOK
<1>2. CASE o \in Users
  <2>1. Current(call[o], todo, o) /\ todo \in Seq(Steps) /\ ~obj[o].nil
    BY <1>2 DEF IInv, CallOK, TodoOK
  <2>2. todo[1] \in Steps /\ todo[1].op = "call" /\ Len(todo) \in Nat \ {0}
    BY <2>1 DEF Current
  <2>3. todo[1] \in CallSteps
    BY <2>2 DEF Steps, LocalOps, SpawnOps
  <2>4. SoundCall(todo[1])
    BY <2>3 DEF CallSteps
  <2>5. 1 \in 1 .. Len(todo)
    BY <2>2
  <2>6. PlanStep(todo, 1, phase, obj["b"].ok, grand)
    BY <2>5 DEF AInv, APlan
  <2>7. call[o].m \in {"rebind", "fork"} => o = "m"
    BY <2>1, <2>4, <2>6 DEF PlanStep, RebindOrder, Rebinds, Forks, Current, SoundCall
  <2> QED
    BY <1>2, <2>1, <2>2, <2>4, <2>6, <2>7 DEF Current
<1> QED
  BY <1>1, <1>2

\* A rebind under way is one that the script still depends on.
LEMMA RebindLive ==
  ASSUME IInv, AInv, NEW o \in Clients, call[o].st # "idle", call[o].m = "rebind"
  PROVE  /\ o = "m" /\ Live(todo, phase, obj) /\ call[o].arg = Home /\ ~call[o].keep
         /\ Rebinds(todo[1]) /\ ~Frees(todo[1]) /\ todo # <<>>
<1>1. o = "m" /\ o \in Users /\ obj["m"].ok
  BY RequestPlan DEF Users, AInv, ACall
<1>2. /\ todo # <<>> /\ todo[1].op = "call" /\ todo[1].m = "rebind" /\ todo[1].arg = call[o].arg
      /\ todo[1].keep = call[o].keep /\ PlanStep(todo, 1, phase, obj["b"].ok, grand) /\ Len(todo) \in Nat \ {0}
  BY <1>1, RequestPlan
<1>3. Rebinds(todo[1]) /\ RebindNext(todo)
  BY <1>2 DEF Rebinds, RebindNext
<1>4. Live(todo, phase, obj) /\ RebindOrder(todo, 1)
  BY <1>1, <1>2, <1>3 DEF PlanStep, Live
<1>5. HomeRebinds(todo)
  BY <1>4 DEF AInv, ALive
<1>6. todo[1].arg = Home
  BY <1>2, <1>3, <1>5 DEF HomeRebinds
<1>7. ~Frees(todo[1])
  BY <1>2, <1>3 DEF PlanStep, FreesOrder
<1> QED
  BY <1>1, <1>2, <1>3, <1>4, <1>6, <1>7 DEF RebindOrder

\* The sessions lead where they should, but for the one of o with p.
LeadExcept(pr, ob, p, o) == \A q \in Pids : \A x \in pr[q].sess : (q = p /\ x = o) \/ pr[q].addr = ob[x].ep

LEMMA AnswerStep ==
  ASSUME IInv, AInv, NEW p \in Pids, NEW o \in Clients, Handle(p, o), NEW r, Reply(p, o, r),
         DOMAIN r.proc = Pids, DOMAIN r.proc[p] = ProcFields, r.proc[p].st = "up",
         AProc(r.proc), Ages(proc, r.proc),
         Live(todo, phase, obj) =>
           /\ SessionsLead(r.proc, obj) \/ (~call[o].keep /\ LeadExcept(r.proc, obj, p, o))
           /\ Inheritors(r.proc) \subseteq Inheritors(proc) \cup {q \in Pids : call[o].m = "fork" /\ r.res = <<q>>}
           /\ (o = "m" /\ Frees(todo[1])) => HomeFree(r.proc)
           /\ o = "m" \/ HomeFree(r.proc) \/ ~HomeFree(proc)
  PROVE  AInv'
<1>1. /\ call[o].st = "sent" /\ proc[p].st = "up" /\ o \in proc[p].sess /\ obj[o].srv = p
      /\ DOMAIN call = Clients /\ DOMAIN call[o] = CallFields
  BY RequestFacts
<1>2. /\ proc' = (IF call[o].keep THEN r.proc ELSE [r.proc EXCEPT ![p].sess = @ \ {o}])
      /\ call' = [call EXCEPT ![o].st = "answered", ![o].by = p, ![o].res = r.res] /\ UNCHANGED <<obj, late>>
      /\ UNCHANGED scriptVars
  BY DEF Reply, Handle
<1>3. /\ call'[o].st = "answered" /\ call'[o].m = call[o].m /\ call'[o].res = r.res
      /\ \A x \in Clients : x # o => call'[x] = call[x]
  BY <1>1, <1>2 DEF CallFields
<1> DEFINE z == [r.proc[p] EXCEPT !.sess = @ \ {o}]
<1>4. /\ z.st = "up" /\ z.addr = r.proc[p].addr /\ z.inherits = r.proc[p].inherits /\ z.sess = r.proc[p].sess \ {o}
  BY DEF ProcFields
<1>5. [r.proc EXCEPT ![p].sess = @ \ {o}] = [r.proc EXCEPT ![p] = z]
  OBVIOUS
<1> HIDE DEF z
<1>6. /\ \A q \in Pids : q # p => proc'[q] = r.proc[q]
      /\ proc'[p].st = "up" /\ proc'[p].addr = r.proc[p].addr /\ proc'[p].inherits = r.proc[p].inherits
      /\ proc'[p].sess = IF call[o].keep THEN r.proc[p].sess ELSE r.proc[p].sess \ {o}
  BY <1>2, <1>4, <1>5
<1>7. SameSockets(r.proc, proc')
  BY <1>6 DEF SameSockets
<1>8. AProc(proc') /\ Inheritors(proc') = Inheritors(r.proc) /\ (HomeFree(r.proc) => HomeFree(proc'))
  BY <1>7, SameSocketsProc
<1>9. Ages(proc, proc')
  BY <1>6 DEF Ages
<1>10. ACall(call, obj, proc')
  BY <1>9, AgesCall DEF AInv, IInv
<1>11. ACall(call', obj, proc')
  <2> SUFFICES ASSUME NEW x \in Clients, call'[x].st # "idle"
               PROVE  /\ obj[x].ok /\ obj[x].srv # 0 /\ obj[x].ep = obj[x].addr
                      /\ proc'[obj[x].srv].st # "none"
                      /\ proc'[obj[x].srv].st = "child" => call'[x].st = "sent" /\ x \in proc'[obj[x].srv].sess
    BY DEF ACall
  <2>1. CASE x # o
    BY <1>3, <1>10, <2>1 DEF ACall
  <2>2. CASE x = o
    BY <1>1, <1>3, <1>6, <1>10, <2>2 DEF ACall
  <2> QED
    BY <2>1, <2>2
<1>12. ASSUME Live(todo, phase, obj)
       PROVE  /\ Harmless(late') /\ SessionsLead(proc', obj)
              /\ Inheritors(proc') \subseteq Expected(todo, obj, call', grand)
              /\ Freed(todo, call') => HomeFree(proc')
  <2>1. /\ Harmless(late) /\ SessionsLead(proc, obj) /\ Inheritors(proc) \subseteq Expected(todo, obj, call, grand)
        /\ Freed(todo, call) => HomeFree(proc)
    BY <1>12 DEF AInv, ALive
  <2>2. SessionsLead(proc', obj)
    <3> SUFFICES ASSUME NEW q \in Pids, NEW x \in proc'[q].sess PROVE proc'[q].addr = obj[x].ep
      BY DEF SessionsLead
    <3>1. x \in r.proc[q].sess /\ proc'[q].addr = r.proc[q].addr /\ (q = p /\ x = o => call[o].keep)
      BY <1>6
    <3>2. CASE SessionsLead(r.proc, obj)
      BY <3>1, <3>2 DEF SessionsLead
    <3>3. CASE ~call[o].keep /\ LeadExcept(r.proc, obj, p, o)
      BY <3>1, <3>3 DEF LeadExcept
    <3> QED
      BY <1>12, <3>2, <3>3
  <2>3. Expected(todo, obj, call, grand) \subseteq Expected(todo, obj, call', grand)
    BY <1>1, <1>3 DEF Expected, Clients
  <2>4. call[o].m = "fork" => o = "m"
    BY <1>1, RequestPlan
  <2>5. {q \in Pids : call[o].m = "fork" /\ r.res = <<q>>} \subseteq Expected(todo, obj, call', grand)
    BY <1>3, <2>4 DEF Expected
  <2>6. Inheritors(proc') \subseteq Expected(todo, obj, call', grand)
    BY <1>8, <1>12, <2>1, <2>3, <2>5
  <2>7. Freed(todo, call') => HomeFree(proc')
    <3>1. CASE o = "m"
      <4>1. Freed(todo, call') => Frees(todo[1])
        BY <1>3, <3>1 DEF Freed
      <4> QED
        BY <1>8, <1>12, <3>1, <4>1
    <3>2. CASE o # "m"
      <4>1. call'["m"] = call["m"]
        BY <1>3, <3>2 DEF Clients
      <4>2. Freed(todo, call') => Freed(todo, call)
        BY <4>1 DEF Freed
      <4> QED
        BY <1>8, <1>12, <2>1, <3>2, <4>2
    <3> QED
      BY <3>1, <3>2
  <2> QED
    BY <1>2, <2>1, <2>2, <2>6, <2>7
<1>13. ALate(late') /\ \E q \in Pids : proc[q].st # "none"
  BY <1>1, <1>2 DEF AInv
<1> QED
  BY <1>2, <1>8, <1>11, <1>12, <1>13, ServerStep

\* A handler that only changes a machine.
LEMMA MachineStep ==
  ASSUME IInv, AInv, NEW p \in Pids, NEW o \in Clients, Handle(p, o), call[o].m # "shutdown",
         NEW r, Reply(p, o, r), r.proc = proc \/ \E S : r.proc = [proc EXCEPT ![p].machine = S]
  PROVE  AInv'
<1>1. /\ call[o].st = "sent" /\ proc[p].st = "up" /\ o \in proc[p].sess
      /\ DOMAIN proc = Pids /\ DOMAIN proc[p] = ProcFields
  BY RequestFacts
<1>2. /\ DOMAIN r.proc = Pids /\ DOMAIN r.proc[p] = ProcFields
      /\ \A q \in Pids : r.proc[q].st = proc[q].st /\ r.proc[q].addr = proc[q].addr
                         /\ r.proc[q].inherits = proc[q].inherits /\ r.proc[q].sess = proc[q].sess
  <2>1. CASE r.proc = proc
    BY <1>1, <2>1
  <2>2. ASSUME NEW S, r.proc = [proc EXCEPT ![p].machine = S]
        PROVE  /\ DOMAIN r.proc = Pids /\ DOMAIN r.proc[p] = ProcFields
               /\ \A q \in Pids : r.proc[q].st = proc[q].st /\ r.proc[q].addr = proc[q].addr
                         /\ r.proc[q].inherits = proc[q].inherits /\ r.proc[q].sess = proc[q].sess
    <3> DEFINE x == [proc[p] EXCEPT !.machine = S]
    <3>1. /\ DOMAIN x = ProcFields /\ x.st = proc[p].st /\ x.addr = proc[p].addr /\ x.inherits = proc[p].inherits
          /\ x.sess = proc[p].sess
      BY <1>1 DEF ProcFields
    <3>2. r.proc = [proc EXCEPT ![p] = x]
      BY <2>2
    <3> HIDE DEF x
    <3>3. DOMAIN r.proc = Pids /\ r.proc[p] = x /\ \A q \in Pids : q # p => r.proc[q] = proc[q]
      BY <1>1, <3>2
    <3> QED
      BY <3>1, <3>3
  <2> QED
    BY <2>1, <2>2
<1>3. SameSockets(proc, r.proc) /\ Ages(proc, r.proc)
  BY <1>2 DEF SameSockets, Ages
<1>4. AProc(r.proc) /\ Inheritors(r.proc) = Inheritors(proc) /\ (HomeFree(proc) => HomeFree(r.proc))
  BY <1>3, SameSocketsProc DEF AInv
<1>5. o = "m" => ~Frees(todo[1])
  <2> SUFFICES ASSUME o = "m", Frees(todo[1]) PROVE FALSE
    OBVIOUS
  <2>1. PlanStep(todo, 1, phase, obj["b"].ok, grand) /\ todo[1].m = call[o].m
    BY <1>1, RequestPlan DEF Users
  <2> QED
    BY <2>1 DEF PlanStep, FreesOrder
<1>6. Live(todo, phase, obj) => SessionsLead(r.proc, obj)
  BY <1>2 DEF AInv, ALive, SessionsLead
<1> QED
  BY <1>1, <1>2, <1>3, <1>4, <1>5, <1>6, AnswerStep

LEMMA ShutdownStep ==
  ASSUME IInv, AInv, NEW p \in Pids, NEW o \in Clients, Handle(p, o), call[o].m = "shutdown",
         Reply(p, o, jsonrpc_shutdown_handler(p, o))
  PROVE  AInv'
<1> DEFINE r == jsonrpc_shutdown_handler(p, o)
           x == [[[proc[p] EXCEPT !.machine = {}] EXCEPT !.addr = Closed] EXCEPT !.sess = @ \cap {o}]
<1>1. /\ call[o].st = "sent" /\ proc[p].st = "up" /\ o \in proc[p].sess /\ obj[o].srv = p
      /\ DOMAIN proc = Pids /\ DOMAIN proc[p] = ProcFields
  BY RequestFacts
<1>2. r.proc = [proc EXCEPT ![p] = x] /\ r.res = <<TRUE>>
  BY DEF jsonrpc_shutdown_handler, Ok, close_sessions, close_acceptor
<1>3. DOMAIN x = ProcFields /\ x.st = "up" /\ x.addr = Closed /\ x.inherits = proc[p].inherits /\ x.sess \subseteq {o}
  BY <1>1 DEF ProcFields
<1>4. Reply(p, o, r)
  OBVIOUS
<1> HIDE DEF x, r
<1>5. r.proc[p] = x /\ DOMAIN r.proc = Pids /\ \A q \in Pids : q # p => r.proc[q] = proc[q]
  BY <1>1, <1>2, UpdateFacts
<1>6. AProc(proc) /\ proc[p].inherits = {} /\ proc[1].st # "none"
  BY <1>1 DEF AInv, AProc
<1>7. AProc(r.proc)
  <2>1. Fits(proc, p, x)
    BY <1>1, <1>3, <1>6, AddressFacts DEF Fits, Runs
  <2>2. AProc([proc EXCEPT ![p] = x])
    BY <1>1, <1>6, <2>1, OneProcess
  <2> QED
    BY <1>2, <2>2
<1>8. Ages(proc, r.proc)
  BY <1>3, <1>5 DEF Ages
<1>9. Inheritors(r.proc) = Inheritors(proc)
  BY <1>1, <1>3, <1>5 DEF Inheritors
<1>10. HomeFree(proc) => HomeFree(r.proc)
  BY <1>3, <1>5, AddressFacts DEF HomeFree
<1>11. ASSUME Live(todo, phase, obj)
       PROVE  /\ ~call[o].keep /\ LeadExcept(r.proc, obj, p, o)
              /\ (o = "m" /\ Frees(todo[1])) => HomeFree(r.proc)
  <2>1. SessionsLead(proc, obj) /\ AtHome(todo, obj)
    BY <1>11 DEF AInv, ALive
  <2>2. ~call[o].keep
    BY <1>1, CurrentSound
  <2>3. LeadExcept(r.proc, obj, p, o)
    BY <1>3, <1>5, <2>1 DEF LeadExcept, SessionsLead
  <2>4. ASSUME o = "m" PROVE HomeFree(r.proc)
    <3>1. ~obj["m"].nil /\ todo[1].m = "shutdown" /\ obj["m"].ep = obj["m"].addr
      BY <1>1, <2>4, RequestPlan DEF Users, AInv, ACall
    <3>2. obj["m"].addr = Home
      BY <2>1, <3>1 DEF AtHome, RebindNext, Rebinds
    <3>3. proc[p].addr = Home
      BY <1>1, <2>1, <2>4, <3>1, <3>2 DEF SessionsLead
    <3>4. \A q \in Pids : q # p => ~(Runs(proc[q]) /\ proc[q].addr = Home)
      BY <1>1, <1>6, <3>3 DEF AProc, Runs
    <3> QED
      BY <1>3, <1>5, <3>4, AddressFacts DEF HomeFree
  <2> QED
    BY <2>2, <2>3, <2>4
<1> QED
  BY <1>3, <1>4, <1>5, <1>7, <1>8, <1>9, <1>10, <1>11, AnswerStep

LEMMA ForkStep ==
  ASSUME IInv, AInv, NEW p \in Pids, NEW o \in Clients, Handle(p, o), call[o].m = "fork", Unused # {},
         Reply(p, o, jsonrpc_fork_handler(p, o))
  PROVE  AInv'
<1> DEFINE r == jsonrpc_fork_handler(p, o)
<1>1. /\ call[o].st = "sent" /\ proc[p].st = "up" /\ o \in proc[p].sess /\ obj[o].srv = p
      /\ DOMAIN proc = Pids /\ DOMAIN proc[p] = ProcFields /\ ProcOK(proc, obj) /\ AProc(proc)
  BY RequestFacts DEF IInv, AInv
<1>2. PICK q \in Pids : r.res = <<q>> /\ Forked(proc, r.proc, p, q)
  <2>1. r.proc = jsonrpc_fork_handler(p, o).proc
    OBVIOUS
  <2> QED
    BY <1>1, <2>1, ForkedProc
<1>3. Reply(p, o, r)
  OBVIOUS
<1> HIDE DEF r
<1>4. DOMAIN r.proc = Pids /\ DOMAIN r.proc[p] = ProcFields /\ r.proc[p].st = "up"
  BY <1>1, <1>2 DEF Forked
<1>5. o = "m" /\ ~Frees(todo[1])
  <2>1. o = "m"
    BY <1>1, RequestPlan
  <2>2. PlanStep(todo, 1, phase, obj["b"].ok, grand) /\ todo[1].m = call[o].m
    BY <1>1, <2>1, RequestPlan DEF Users
  <2> QED
    BY <2>1, <2>2 DEF PlanStep, FreesOrder
<1>6. Live(todo, phase, obj) => SessionsLead(r.proc, obj)
  BY <1>2 DEF AInv, ALive, SessionsLead, Forked
<1>7. Inheritors(r.proc) \subseteq Inheritors(proc) \cup {u \in Pids : call[o].m = "fork" /\ r.res = <<u>>}
  BY <1>2 DEF Inheritors, Forked
<1> QED
  BY <1>2, <1>3, <1>4, <1>5, <1>6, <1>7, AnswerStep DEF Forked

LEMMA RebindStep ==
  ASSUME IInv, AInv, NEW p \in Pids, NEW o \in Clients, Handle(p, o), call[o].m = "rebind",
         Reply(p, o, jsonrpc_rebind_handler(p, o, call[o].arg))
  PROVE  AInv'
<1> DEFINE r == jsonrpc_rebind_handler(p, o, Home)
<1>1. /\ call[o].st = "sent" /\ proc[p].st = "up" /\ o \in proc[p].sess /\ obj[o].srv = p /\ proc[p].addr # Closed
      /\ DOMAIN proc = Pids /\ DOMAIN proc[p] = ProcFields /\ ProcOK(proc, obj) /\ AProc(proc)
  BY RequestFacts DEF IInv, AInv
<1>2. o = "m" /\ Live(todo, phase, obj) /\ call[o].arg = Home /\ ~call[o].keep /\ ~Frees(todo[1])
  BY <1>1, RebindLive
<1>3. Reply(p, o, r) /\ Home # Closed
  BY <1>2, AddressFacts
<1>4. /\ AProc(r.proc) /\ Ages(proc, r.proc) /\ Inheritors(r.proc) = Inheritors(proc)
      /\ \A q \in Pids : q # p => r.proc[q] = proc[q]
      /\ r.proc[p].sess = proc[p].sess /\ r.proc[p].st = "up"
      /\ r.proc[p].addr \in {proc[p].addr, Home}
  BY <1>1, <1>3, ReboundProc
<1>5. DOMAIN r.proc = Pids /\ DOMAIN r.proc[p] = ProcFields
  <2>1. DOMAIN [proc EXCEPT ![p].addr = Home] = Pids /\ DOMAIN [proc EXCEPT ![p].addr = Home][p] = ProcFields
    BY <1>1
  <2> QED
    BY <1>1, <2>1 DEF jsonrpc_rebind_handler, Ok, Error
<1>6. (proc[p].addr = Home) => r.proc = proc
  BY DEF jsonrpc_rebind_handler, Ok
<1> HIDE DEF r
<1>7. LeadExcept(r.proc, obj, p, o)
  <2> SUFFICES ASSUME NEW q \in Pids, NEW x \in r.proc[q].sess, ~(q = p /\ x = o) PROVE r.proc[q].addr = obj[x].ep
    BY DEF LeadExcept
  <2>1. SessionsLead(proc, obj)
    BY <1>2 DEF AInv, ALive
  <2>2. x \in proc[q].sess /\ proc[q].addr = obj[x].ep
    BY <1>4, <2>1 DEF SessionsLead
  <2>3. CASE q # p
    BY <1>4, <2>2, <2>3
  <2>4. CASE q = p
    <3>1. x \in Clients /\ obj[x].srv = p
      BY <2>2, <2>4 DEF IInv, ProcOK, ProcessOK
    <3>2. x # "m"
      BY <1>2, <2>4
    <3>3. x # "b"
      <4>1. call["b"].st = "idle"
        BY <1>1, <1>2, RequestPlan DEF Users, IInv, CallOK, Current, Clients
      <4> QED
        BY <3>1, <4>1, AddressFacts DEF IInv, CallOK
    <3>4. x = "o"
      BY <3>1, <3>2, <3>3 DEF Clients
    <3>5. proc[p].addr = Home
      BY <1>1, <2>2, <2>4, <3>4 DEF AInv, AObj
    <3> QED
      BY <1>6, <2>2, <2>4, <3>5
  <2> QED
    BY <2>3, <2>4
<1> QED
  BY <1>2, <1>3, <1>4, <1>5, <1>7, AnswerStep

LEMMA HandleAInv ==
  ASSUME IInv, AInv, NEW p \in Pids, NEW o \in Clients, Handle(p, o)
  PROVE  AInv'
<1>1. ASSUME NEW m, Requested(p, o, m), m # "shutdown", NEW S, NEW v,
             Reply(p, o, Ok([proc EXCEPT ![p].machine = S], v))
      PROVE  AInv'
  <2> DEFINE r == Ok([proc EXCEPT ![p].machine = S], v)
  <2>1. r.proc = [proc EXCEPT ![p].machine = S] /\ Reply(p, o, r)
    BY <1>1 DEF Ok
  <2> HIDE DEF r
  <2>2. call[o].m # "shutdown"
    BY <1>1 DEF Requested
  <2> QED
    BY <2>1, <2>2, MachineStep
<1>2. ASSUME NEW m, Requested(p, o, m), m # "shutdown", NEW r, Reply(p, o, r), r.proc = proc
      PROVE  AInv'
  <2>1. call[o].m # "shutdown"
    BY <1>2 DEF Requested
  <2> QED
    BY <1>2, <2>1, MachineStep
<1>3. CASE HandleServer(p, o)
  <2>1. CASE Requested(p, o, "get_version") /\ Reply(p, o, jsonrpc_get_version_handler(p, o))
    BY <1>2, <2>1 DEF jsonrpc_get_version_handler, Ok
  <2>2. CASE Requested(p, o, "shutdown") /\ Reply(p, o, jsonrpc_shutdown_handler(p, o))
    <3>1. call[o].m = "shutdown"
      BY <2>2 DEF Requested
    <3> QED
      BY <2>2, <3>1, ShutdownStep
  <2>3. CASE Requested(p, o, "rebind") /\ Reply(p, o, jsonrpc_rebind_handler(p, o, call[o].arg))
    <3>1. call[o].m = "rebind"
      BY <2>3 DEF Requested
    <3> QED
      BY <2>3, <3>1, RebindStep
  <2>4. CASE Requested(p, o, "rebind") /\ Reply(p, o, Error(proc))
    BY <1>2, <2>4 DEF Error
  <2>5. CASE Requested(p, o, "fork") /\ Unused # {} /\ Reply(p, o, jsonrpc_fork_handler(p, o))
    <3>1. call[o].m = "fork"
      BY <2>5 DEF Requested
    <3> QED
      BY <2>5, <3>1, ForkStep
  <2>6. CASE Requested(p, o, "fork") /\ Reply(p, o, Error(proc))
    BY <1>2, <2>6 DEF Error
  <2>7. CASE Requested(p, o, "destroy") /\ Reply(p, o, jsonrpc_machine_destroy_handler(p, o))
    BY <1>1, <2>7 DEF jsonrpc_machine_destroy_handler
  <2> QED
    BY <1>3, <2>1, <2>2, <2>3, <2>4, <2>5, <2>6, <2>7 DEF HandleServer
<1>4. CASE HandleMachine(p, o)
  <2>1. ASSUME NEW m, Requested(p, o, m), m # "shutdown", Reply(p, o, Error(proc)) PROVE AInv'
    BY <1>2, <2>1 DEF Error
  <2>2. CASE Requested(p, o, "create") /\ Reply(p, o, jsonrpc_machine_create_handler(p, o, Booted))
    BY <1>1, <2>1, <2>2 DEF jsonrpc_machine_create_handler
  <2>3. ASSUME NEW m \in {"run", "send_cmio_response", "read"}, Requested(p, o, m), NEW d,
               Reply(p, o, MachineHandler(p, d))
        PROVE  AInv'
    BY <1>1, <2>1, <2>3 DEF MachineHandler
  <2> QED
    BY <1>4, <2>1, <2>2, <2>3 DEF HandleMachine
<1> QED
  BY <1>3, <1>4 DEF Handle

LEMMA ChildAInv ==
  ASSUME IInv, AInv, NEW p \in Pids, Child(p)
  PROVE  AInv'
<1> DEFINE x == [proc[p] EXCEPT !.st = "up", !.inherits = {}, !.copies = {}]
<1>1. AProc(proc) /\ DOMAIN proc[p] = ProcFields /\ DOMAIN proc = Pids /\ proc[p].st = "child"
  BY DEF IInv, AInv, ProcOK, ProcessOK, Child, ForkChild
<1>2. proc' = [proc EXCEPT ![p] = x] /\ UNCHANGED <<obj, call, late>> /\ UNCHANGED scriptVars
  BY DEF Child, ForkChild
<1>3. x.st = "up" /\ x.sess = proc[p].sess /\ x.addr = proc[p].addr /\ x.inherits = {}
  BY <1>1 DEF ProcFields
<1> HIDE DEF x
<1>4. proc'[p] = x /\ \A q \in Pids : q # p => proc'[q] = proc[q]
  BY <1>1, <1>2, UpdateFacts
<1>5. AProc(proc')
  <2>1. proc[1].st # "none" /\ p # Home /\ p # Closed /\ proc[p].addr = p
    BY <1>1, AddressFacts DEF AProc, Home
  <2>2. Fits(proc, p, x)
    BY <1>3, <2>1 DEF Fits, Runs
  <2>3. AProc([proc EXCEPT ![p] = x])
    BY <1>1, <2>2, OneProcess
  <2> QED
    BY <1>2, <2>3
<1>6. Ages(proc, proc')
  BY <1>1, <1>3, <1>4 DEF Ages
<1>7. ACall(call', obj, proc')
  BY <1>2, <1>6, AgesCall DEF IInv, AInv
<1>8. Inheritors(proc') \subseteq Inheritors(proc)
  BY <1>3, <1>4 DEF Inheritors
<1>9. HomeFree(proc) => HomeFree(proc')
  BY <1>1, <1>3, <1>4 DEF HomeFree, Runs
<1>10. Live(todo, phase, obj) => SessionsLead(proc', obj)
  BY <1>3, <1>4 DEF AInv, ALive, SessionsLead
<1>11. ALate(late') /\ \E q \in Pids : proc[q].st # "none"
  BY <1>1, <1>2 DEF AInv
<1>12. Live(todo, phase, obj) => /\ Harmless(late') /\ SessionsLead(proc', obj)
                                 /\ Inheritors(proc') \subseteq Expected(todo, obj, call', grand)
                                 /\ Freed(todo, call') => HomeFree(proc')
  BY <1>2, <1>8, <1>9, <1>10 DEF AInv, ALive
<1> QED
  BY <1>2, <1>5, <1>7, <1>11, <1>12, ServerStep

\* A process winds down.
LEMMA WindsStep ==
  ASSUME IInv, AInv, NEW p \in Pids, NEW x, Winds(proc[p], x), proc' = [proc EXCEPT ![p] = x],
         UNCHANGED scriptVars, UNCHANGED <<obj, call>>, late' \subseteq late
  PROVE  AInv'
<1>1. AProc(proc) /\ DOMAIN proc = Pids /\ proc[p].st # "none"
  BY DEF IInv, AInv, ProcOK, Winds
<1>2. Wound(proc, proc', p)
  BY <1>1, WindsProc
<1> USE DEF Wound
<1>3. ACall(call', obj, proc')
  BY <1>2, AgesCall DEF IInv, AInv
<1>4. Live(todo, phase, obj) => SessionsLead(proc', obj)
  BY <1>2 DEF AInv, ALive, SessionsLead
<1>5. ALate(late') /\ (Harmless(late) => Harmless(late'))
  BY DEF AInv, ALate, Harmless
<1>6. Live(todo, phase, obj) => /\ Harmless(late') /\ SessionsLead(proc', obj)
                                /\ Inheritors(proc') \subseteq Expected(todo, obj, call', grand)
                                /\ Freed(todo, call') => HomeFree(proc')
  BY <1>2, <1>4, <1>5 DEF AInv, ALive
<1> QED
  BY <1>1, <1>2, <1>3, <1>5, <1>6, ServerStep

LEMMA EndAInv ==
  ASSUME IInv, AInv, NEW p \in Pids, Leave(p) \/ (Crash(p) /\ UNCHANGED scriptVars)
  PROVE  AInv'
<1> DEFINE x == [NoProcess EXCEPT !.st = "gone"]
<1>1. proc' = Killed(p) /\ UNCHANGED <<obj, call, late>> /\ UNCHANGED scriptVars /\ proc[p].st \in {"child", "up"}
  BY DEF Leave, Exit, Crash, Alive
<1>2. proc' = [proc EXCEPT ![p] = x]
  BY <1>1 DEF Killed
<1>3. x.st = "gone" /\ x.addr = Closed /\ x.sess = {}
  BY DEF NoProcess
<1> HIDE DEF x
<1>4. Winds(proc[p], x)
  BY <1>1, <1>3 DEF Winds
<1> QED
  BY <1>1, <1>2, <1>4, WindsStep

LEMMA LateAInv ==
  ASSUME IInv, AInv, NEW c \in late, HandleLate(c, LateContents(c)), UNCHANGED scriptVars
  PROVE  AInv'
<1> DEFINE p == c.srv
<1>1. /\ p \in Pids /\ (c.m = "rebind" => c.arg = Home) /\ ProcOK(proc, obj) /\ AProc(proc) /\ Home # Closed
      /\ proc[p].st = "up" /\ proc[p].addr # Closed /\ UNCHANGED <<obj, call>> /\ late' \subseteq late
  BY AddressFacts DEF IInv, LateOK, AInv, ALate, HandleLate
<1>2. DOMAIN proc = Pids /\ DOMAIN proc[p] = ProcFields /\ proc[p].sess \subseteq Clients /\ proc[p].inherits = {}
  BY <1>1 DEF ProcOK, ProcessOK, AProc
<1> HIDE DEF p
<1>3. ALate(late') /\ (Harmless(late) => Harmless(late')) /\ \E q \in Pids : proc[q].st # "none"
  BY <1>1 DEF AInv, ALate, Harmless
<1>4. ASSUME AProc(proc'), Ages(proc, proc'), c.m \in {"fork", "rebind"} PROVE AInv'
  <2>1. ACall(call', obj, proc')
    BY <1>1, <1>4, AgesCall DEF IInv, AInv
  <2>2. ~Live(todo, phase, obj)
    BY <1>4 DEF AInv, ALive, Harmless
  <2> QED
    BY <1>1, <1>3, <1>4, <2>1, <2>2, ServerStep
<1>5. CASE c.m = "shutdown" /\ proc' = jsonrpc_shutdown_handler(p, "none").proc
  <2> DEFINE x == [[[proc[p] EXCEPT !.machine = {}] EXCEPT !.addr = Closed] EXCEPT !.sess = @ \cap {"none"}]
  <2>1. proc' = [proc EXCEPT ![p] = x]
    BY <1>5 DEF jsonrpc_shutdown_handler, Ok, close_sessions, close_acceptor
  <2>2. x.st = proc[p].st /\ x.addr = Closed /\ x.inherits = proc[p].inherits /\ x.sess = proc[p].sess \cap {"none"}
    BY <1>2 DEF ProcFields
  <2> HIDE DEF x
  <2>3. x.sess = {}
    BY <1>2, <2>2 DEF Clients
  <2>4. Winds(proc[p], x)
    BY <1>1, <1>2, <2>2, <2>3 DEF Winds
  <2> QED
    BY <1>1, <2>1, <2>4, WindsStep
<1>6. CASE c.m = "rebind" /\ proc' = jsonrpc_rebind_handler(p, "none", c.arg).proc
  <2>1. AProc(proc') /\ Ages(proc, proc')
    BY <1>1, <1>6, ReboundProc
  <2> QED
    BY <1>4, <1>6, <2>1
<1>7. CASE c.m = "fork" /\ Unused # {} /\ proc' = jsonrpc_fork_handler(p, "none").proc
  <2>1. PICK q \in Pids : Forked(proc, proc', p, q)
    BY <1>1, <1>7, ForkedProc
  <2> QED
    BY <1>4, <1>7, <2>1 DEF Forked
<1>8. CASE \E S : proc' = WithMachine(p, S)
  <2>0. PICK S : proc' = WithMachine(p, S)
    BY <1>8
  <2> DEFINE x == [proc[p] EXCEPT !.machine = S]
  <2>1. proc' = [proc EXCEPT ![p] = x]
    BY <2>0 DEF WithMachine
  <2>2. x.st = proc[p].st /\ x.addr = proc[p].addr /\ x.inherits = proc[p].inherits /\ x.sess = proc[p].sess
    BY <1>2 DEF ProcFields
  <2> HIDE DEF x
  <2>3. proc'[p] = x /\ \A q \in Pids : q # p => proc'[q] = proc[q]
    BY <1>1, <1>2, <2>1, UpdateFacts
  <2>4. SameSockets(proc, proc') /\ Ages(proc, proc')
    BY <2>2, <2>3 DEF SameSockets, Ages
  <2>5. AProc(proc') /\ Inheritors(proc') = Inheritors(proc) /\ (HomeFree(proc) => HomeFree(proc'))
    BY <1>1, <2>4, SameSocketsProc
  <2>6. ACall(call', obj, proc')
    BY <1>1, <2>4, AgesCall DEF IInv, AInv
  <2>7. Live(todo, phase, obj) => SessionsLead(proc', obj)
    BY <2>2, <2>3 DEF AInv, ALive, SessionsLead
  <2>8. Live(todo, phase, obj) => /\ Harmless(late') /\ SessionsLead(proc', obj)
                                  /\ Inheritors(proc') \subseteq Expected(todo, obj, call', grand)
                                  /\ Freed(todo, call') => HomeFree(proc')
    BY <1>1, <1>3, <2>5, <2>7 DEF AInv, ALive
  <2> QED
    BY <1>1, <1>3, <2>5, <2>6, <2>8, ServerStep
<1> QED
  BY <1>5, <1>6, <1>7, <1>8, LateMeans DEF p

----------------
(* Clients *)

\* The stream of o is closed, kept, or carries a request.
Cut(o, nb, qr, cl) ==
  nb[o].srv = 0 /\ nb[o].ep = Closed /\ cl[o].st = "idle" /\ \A p \in Pids : o \notin qr[p].sess
Kept(o, nb, qr, cl) ==
  nb[o] = obj[o] /\ cl[o].st = "idle" /\ \A p \in Pids : o \in qr[p].sess => o \in proc[p].sess
Linked(o, nb, qr, cl) ==
  /\ cl[o].st = "sent" /\ nb[o].ok /\ nb[o].srv \in Pids /\ nb[o].ep = nb[o].addr
  /\ nb[o].ep \in Pids => nb[o].srv = nb[o].ep
  /\ Runs(proc[nb[o].srv]) /\ o \in qr[nb[o].srv].sess
  /\ Live(todo, phase, obj) => proc[nb[o].srv].addr = nb[o].ep

\* Only the stream and the call of o change.
Touches(o, nb, qr, cl) ==
  /\ SameSockets(proc, qr) /\ ProcOK(qr, nb)
  /\ \A x \in Clients : x # o => /\ nb[x] = obj[x] /\ cl[x] = call[x]
                                 /\ \A p \in Pids : x \in qr[p].sess <=> x \in proc[p].sess
  /\ nb[o].nil = obj[o].nil /\ nb[o].addr = obj[o].addr /\ nb[o].ok = obj[o].ok
  /\ Cut(o, nb, qr, cl) \/ Kept(o, nb, qr, cl) \/ Linked(o, nb, qr, cl)

Touched(nb, qr, cl) ==
  /\ AProc(qr) /\ AObj(nb) /\ ACall(cl, nb, qr) /\ Inheritors(qr) = Inheritors(proc)
  /\ HomeFree(proc) => HomeFree(qr)
  /\ Live(todo, phase, obj) => SessionsLead(qr, nb)
  /\ \A x \in Clients : nb[x].nil = obj[x].nil /\ nb[x].addr = obj[x].addr /\ nb[x].ok = obj[x].ok

LEMMA TouchedFacts ==
  ASSUME IInv, AInv, NEW o \in Clients, NEW nb, NEW qr, NEW cl, Touches(o, nb, qr, cl)
  PROVE  Touched(nb, qr, cl)
<1>1. /\ SameSockets(proc, qr) /\ ProcOK(qr, nb) /\ AProc(proc) /\ AObj(obj) /\ ACall(call, obj, proc) /\ ObjOK(obj)
      /\ nb[o].nil = obj[o].nil /\ nb[o].addr = obj[o].addr /\ nb[o].ok = obj[o].ok
  BY DEF Touches, IInv, AInv
<1>2. \A x \in Clients : x # o => /\ nb[x] = obj[x] /\ cl[x] = call[x]
                                  /\ \A p \in Pids : x \in qr[p].sess <=> x \in proc[p].sess
  BY DEF Touches
<1>3. AProc(qr) /\ Inheritors(qr) = Inheritors(proc) /\ (HomeFree(proc) => HomeFree(qr))
  BY <1>1, SameSocketsProc
<1>4. \A x \in Clients : nb[x].nil = obj[x].nil /\ nb[x].addr = obj[x].addr /\ nb[x].ok = obj[x].ok
  BY <1>1, <1>2
<1>5. /\ nb[o].srv # 0 /\ nb[o].ep \in Pids => nb[o].srv = nb[o].ep
      /\ nb[o].ep \in {obj[o].ep, obj[o].addr, Closed}
  BY <1>1 DEF Touches, Cut, Kept, Linked, AObj
<1>6. AObj(nb)
  <2>1. \A x \in Clients : (nb[x].srv # 0 /\ nb[x].ep \in Pids) => nb[x].srv = nb[x].ep
    BY <1>1, <1>2, <1>5 DEF AObj
  <2>2. nb["o"].ep \in {Home, Closed} /\ nb["o"].addr = Home
    BY <1>1, <1>2, <1>5 DEF AObj, Clients
  <2>3. nb["b"].ok => nb["b"].addr \in Pids
    BY <1>1, <1>4 DEF AObj, Clients
  <2> QED
    BY <2>1, <2>2, <2>3 DEF AObj
<1>7. ACall(cl, nb, qr)
  <2> SUFFICES ASSUME NEW x \in Clients, cl[x].st # "idle"
               PROVE  /\ nb[x].ok /\ nb[x].srv # 0 /\ nb[x].ep = nb[x].addr
                      /\ qr[nb[x].srv].st # "none"
                      /\ qr[nb[x].srv].st = "child" => cl[x].st = "sent" /\ x \in qr[nb[x].srv].sess
    BY DEF ACall
  <2>1. CASE x = o
    <3>1. Linked(o, nb, qr, cl)
      BY <2>1 DEF Touches, Cut, Kept
    <3>2. qr[nb[o].srv].st = proc[nb[o].srv].st
      BY <1>1, <3>1 DEF Linked, SameSockets
    <3> QED
      BY <2>1, <3>1, <3>2, AddressFacts DEF Linked, Runs
  <2>2. CASE x # o
    <3>1. nb[x] = obj[x] /\ cl[x] = call[x]
      BY <1>2, <2>2
    <3>2. obj[x].srv \in Pids
      BY <1>1, <3>1 DEF ACall, ObjOK, ObjectOK
    <3> QED
      BY <1>1, <1>2, <2>2, <3>1, <3>2 DEF ACall, SameSockets
  <2> QED
    BY <2>1, <2>2
<1>8. ASSUME Live(todo, phase, obj) PROVE SessionsLead(qr, nb)
  <2> SUFFICES ASSUME NEW p \in Pids, NEW x \in qr[p].sess PROVE qr[p].addr = nb[x].ep
    BY DEF SessionsLead
  <2>1. x \in Clients /\ nb[x].srv = p /\ qr[p].addr = proc[p].addr /\ SessionsLead(proc, obj)
    BY <1>1, <1>8 DEF ProcOK, ProcessOK, SameSockets, AInv, ALive
  <2>2. CASE x # o
    BY <1>2, <2>1, <2>2 DEF SessionsLead
  <2>3. CASE x = o
    <3>1. CASE Kept(o, nb, qr, cl)
      BY <2>1, <2>3, <3>1 DEF Kept, SessionsLead
    <3>2. CASE Linked(o, nb, qr, cl)
      BY <1>8, <2>1, <2>3, <3>2 DEF Linked
    <3>3. ~Cut(o, nb, qr, cl)
      BY <2>3 DEF Cut
    <3> QED
      BY <3>1, <3>2, <3>3 DEF Touches
  <2> QED
    BY <2>2, <2>3
<1> QED
  BY <1>3, <1>4, <1>6, <1>7, <1>8 DEF Touched

\* The ways in which a client changes its stream.
LEMMA CloseStreamFacts ==
  ASSUME NEW pr, NEW ob, ProcOK(pr, ob), NEW o, NEW qr, qr = CloseStream(pr, o)
  PROVE  /\ SameSockets(pr, qr) /\ \A p \in Pids : qr[p].sess = pr[p].sess \ {o} /\ DOMAIN qr[p] = ProcFields
         /\ DOMAIN qr = Pids
<1>1. \A p \in Pids : DOMAIN pr[p] = ProcFields
  BY DEF ProcOK, ProcessOK
<1>2. \A p \in Pids : /\ qr[p].sess = pr[p].sess \ {o} /\ qr[p].st = pr[p].st /\ qr[p].addr = pr[p].addr
                      /\ qr[p].inherits = pr[p].inherits /\ DOMAIN qr[p] = ProcFields
  BY <1>1 DEF CloseStream, ProcFields
<1> QED
  BY <1>2 DEF SameSockets, CloseStream

LEMMA CutTouches ==
  ASSUME IInv, AInv, NEW o \in Clients, NEW cl, cl[o].st = "idle", \A x \in Clients : x # o => cl[x] = call[x],
         NEW nb, nb = [obj EXCEPT ![o] = Disconnected(@)], NEW qr, qr = CloseStream(proc, o)
  PROVE  Touches(o, nb, qr, cl)
<1>1. ProcOK(proc, obj) /\ DOMAIN obj = Clients /\ DOMAIN obj[o] = ObjFields
  BY DEF IInv, ObjOK, ObjectOK
<1>2. SameSockets(proc, qr) /\ \A p \in Pids : qr[p].sess = proc[p].sess \ {o}
  BY <1>1, CloseStreamFacts
<1>3. ProcOK(qr, nb) /\ \A x \in Clients : x # o => nb[x] = obj[x]
  BY DisconnectedKeeps
<1>4. nb[o].srv = 0 /\ nb[o].ep = Closed /\ nb[o].nil = obj[o].nil /\ nb[o].addr = obj[o].addr /\ nb[o].ok = obj[o].ok
  BY <1>1 DEF Disconnected, ObjFields
<1>5. Cut(o, nb, qr, cl)
  BY <1>2, <1>4 DEF Cut
<1> QED
  BY <1>2, <1>3, <1>4, <1>5 DEF Touches

LEMMA AnswerTouches ==
  ASSUME IInv, AInv, NEW o \in Clients, NEW cl, cl[o].st = "idle", \A x \in Clients : x # o => cl[x] = call[x],
         NEW nb, nb = AfterAnswer(o), NEW qr, qr = IF call[o].keep THEN proc ELSE CloseStream(proc, o)
  PROVE  Touches(o, nb, qr, cl)
<1>1. CASE call[o].keep
  <2>1. DOMAIN obj = Clients /\ qr = proc /\ nb = [obj EXCEPT ![o] = obj[o]]
    BY <1>1 DEF IInv, ObjOK, AfterAnswer
  <2>2. \A x \in Clients : nb[x] = obj[x]
    BY <2>1
  <2>3. ProcOK(qr, nb)
    BY AfterAnswerKeeps
  <2>4. SameSockets(proc, qr) /\ Kept(o, nb, qr, cl)
    BY <2>1, <2>2 DEF SameSockets, Kept
  <2> QED
    BY <2>1, <2>2, <2>3, <2>4 DEF Touches
<1>2. CASE ~call[o].keep
  <2>1. nb = [obj EXCEPT ![o] = Disconnected(@)] /\ qr = CloseStream(proc, o)
    BY <1>2 DEF AfterAnswer
  <2> QED
    BY <2>1, CutTouches
<1> QED
  BY <1>1, <1>2

LEMMA SendTouches ==
  ASSUME IInv, AInv, NEW o \in Clients, NEW m, NEW arg, NEW keep \in BOOLEAN, Send(o, m, arg, keep)
  PROVE  /\ Touches(o, obj', proc', call') /\ call[o].st = "idle" /\ UNCHANGED late
         /\ call'[o].st = "sent" /\ call'[o].m = m
<1> DEFINE s == IF Reuses(o) THEN obj[o].srv ELSE CHOOSE p \in Listening(obj[o].addr) : TRUE
           pr == IF Reuses(o) THEN proc ELSE CloseStream(proc, o)
<1>1. /\ call[o].st = "idle" /\ CanSend(o) /\ UNCHANGED late
      /\ proc' = [pr EXCEPT ![s].sess = @ \cup {o}]
      /\ obj' = [obj EXCEPT ![o].srv = s, ![o].ep = obj[o].addr]
      /\ call' = [call EXCEPT ![o] = [Idle EXCEPT !.st = "sent", !.m = m, !.arg = arg, !.keep = keep]]
  BY DEF Send
<1>2. /\ ObjOK(obj) /\ ObjectOK(obj[o]) /\ DOMAIN obj = Clients /\ ProcOK(proc, obj) /\ AProc(proc) /\ AObj(obj)
      /\ DOMAIN call = Clients /\ DOMAIN proc = Pids
  BY DEF IInv, ObjOK, AInv, CallOK, ProcOK
<1>3. obj[o].ok /\ ~obj[o].nil /\ obj[o].addr # Closed
  BY <1>1, <1>2 DEF CanSend, ObjectOK
<1>4. /\ s \in Pids /\ Runs(proc[s]) /\ (Live(todo, phase, obj) => proc[s].addr = obj[o].addr)
      /\ obj[o].addr \in Pids => s = obj[o].addr
  <2>1. CASE Reuses(o)
    <3>1. s = obj[o].srv /\ s \in Pids /\ o \in proc[s].sess /\ obj[o].ep = obj[o].addr /\ obj[o].srv # 0
      BY <1>1, <1>2, <2>1 DEF Reuses, CanSend, ObjectOK
    <3> HIDE DEF s
    <3>2. proc[s].addr # Closed
      BY <1>2, <3>1 DEF ProcOK, ProcessOK
    <3>3. Runs(proc[s])
      BY <1>2, <3>1, <3>2 DEF AProc, Runs
    <3> QED
      BY <1>2, <3>1, <3>3 DEF AInv, ALive, SessionsLead, AObj
  <2>2. CASE ~Reuses(o)
    <3>1. s \in Listening(obj[o].addr)
      BY <1>1, <2>2 DEF CanSend
    <3> HIDE DEF s
    <3>2. s \in Pids /\ Runs(proc[s]) /\ proc[s].addr = obj[o].addr
      BY <3>1 DEF Listening, Alive, Runs
    <3> QED
      BY <1>2, <3>2, AddressFacts DEF AProc, Home
  <2> QED
    BY <2>1, <2>2
<1>5. /\ SameSockets(proc, pr) /\ DOMAIN pr = Pids /\ DOMAIN pr[s] = ProcFields
      /\ \A p \in Pids : \A x \in Clients : x # o => (x \in pr[p].sess <=> x \in proc[p].sess)
  <2>1. CASE Reuses(o)
    BY <1>2, <1>4, <2>1 DEF SameSockets, ProcOK, ProcessOK
  <2>2. CASE ~Reuses(o)
    <3>1. pr = CloseStream(proc, o)
      BY <2>2
    <3> HIDE DEF pr
    <3> QED
      BY <1>2, <1>4, <3>1, CloseStreamFacts
  <2> QED
    BY <2>1, <2>2
<1> HIDE DEF s, pr
<1>6. /\ DOMAIN obj' = Clients /\ obj'[o].srv = s /\ obj'[o].ep = obj[o].addr /\ obj'[o].nil = obj[o].nil
      /\ obj'[o].ok = obj[o].ok /\ obj'[o].addr = obj[o].addr
      /\ \A x \in Clients : x # o => obj'[x] = obj[x]
  BY <1>1, <1>2 DEF ObjectOK, ObjFields
<1>7. call'[o].st = "sent" /\ call'[o].m = m /\ \A x \in Clients : x # o => call'[x] = call[x]
  BY <1>1, <1>2 DEF Idle
<1> DEFINE z == [pr[s] EXCEPT !.sess = @ \cup {o}]
<1>8. z.st = pr[s].st /\ z.addr = pr[s].addr /\ z.inherits = pr[s].inherits /\ z.sess = pr[s].sess \cup {o}
  BY <1>5 DEF ProcFields
<1>9. proc' = [pr EXCEPT ![s] = z]
  BY <1>1
<1> HIDE DEF z
<1>10. proc'[s] = z /\ \A p \in Pids : p # s => proc'[p] = pr[p]
  BY <1>4, <1>5, <1>9
<1>11. /\ SameSockets(proc, proc') /\ o \in proc'[s].sess
       /\ \A p \in Pids : \A x \in Clients : x # o => (x \in proc'[p].sess <=> x \in proc[p].sess)
  BY <1>4, <1>5, <1>8, <1>10 DEF SameSockets
<1>12. ProcOK(proc', obj')
  BY SendKeeps DEF SentBy
<1>13. Linked(o, obj', proc', call')
  BY <1>3, <1>4, <1>6, <1>7, <1>11 DEF Linked
<1> QED
  BY <1>1, <1>6, <1>7, <1>11, <1>12, <1>13 DEF Touches

\* The script stays where it is.
LEMMA QuietClient ==
  ASSUME IInv, AInv, NEW o \in Clients, Touches(o, obj', proc', call'), UNCHANGED scriptVars,
         ALate(late'), Harmless(late) => Harmless(late'),
         call'["m"] = call["m"] \/ (call["m"].st = "idle" /\ call'["m"].st = "sent")
  PROVE  AInv'
<1>1. Touched(obj', proc', call')
  BY TouchedFacts
<1>2. UNCHANGED <<todo, phase, grand>>
  BY DEF scriptVars
<1>3. /\ obj'["b"].ok = obj["b"].ok /\ obj'["m"].ok = obj["m"].ok /\ obj'["m"].addr = obj["m"].addr
      /\ obj'["b"].addr = obj["b"].addr /\ obj'["m"].nil = obj["m"].nil
  BY <1>1 DEF Touched, Clients
<1>4. APlan(todo', phase', obj'["b"].ok, grand')
  BY <1>2, <1>3 DEF AInv
<1>5. ASpawn(todo', proc')
  BY <1>2 DEF Touches, SameSockets, AInv, ASpawn
<1>6. ALive(todo, phase, obj', call', proc', late', grand)
  <2> SUFFICES ASSUME Live(todo, phase, obj')
               PROVE  /\ Harmless(late') /\ SessionsLead(proc', obj')
                      /\ Inheritors(proc') \subseteq Expected(todo, obj', call', grand)
                      /\ AtHome(todo, obj') /\ HomeRebinds(todo)
                      /\ Freed(todo, call') => HomeFree(proc')
    BY DEF ALive
  <2>1. Live(todo, phase, obj)
    BY <1>3 DEF Live
  <2>2. /\ Harmless(late) /\ Inheritors(proc) \subseteq Expected(todo, obj, call, grand)
        /\ AtHome(todo, obj) /\ HomeRebinds(todo) /\ (Freed(todo, call) => HomeFree(proc))
    BY <2>1 DEF AInv, ALive
  <2>3. Expected(todo, obj, call, grand) \subseteq Expected(todo, obj', call', grand)
    BY <1>3 DEF Expected
  <2>4. AtHome(todo, obj')
    BY <1>3, <2>2 DEF AtHome
  <2>5. Freed(todo, call') => Freed(todo, call)
    BY DEF Freed
  <2> QED
    BY <1>1, <2>1, <2>2, <2>3, <2>4, <2>5 DEF Touched
<1> QED
  BY <1>1, <1>2, <1>4, <1>5, <1>6 DEF AInv, Touched

LEMMA CallSendAInv ==
  ASSUME IInv, AInv, CallSend
  PROVE  AInv'
<1> DEFINE c == todo[1]
<1>1. Head(todo) = c /\ c.o \in Clients /\ c.keep \in BOOLEAN
  BY DoingCall DEF CallSend
<1>2. Send(c.o, c.m, c.arg, c.keep) /\ UNCHANGED scriptVars
  BY <1>1 DEF CallSend
<1> HIDE DEF c
<1>3. /\ Touches(c.o, obj', proc', call') /\ call[c.o].st = "idle" /\ UNCHANGED late /\ call'[c.o].st = "sent"
  BY <1>1, <1>2, SendTouches
<1>4. call'["m"] = call["m"] \/ (call["m"].st = "idle" /\ call'["m"].st = "sent")
  BY <1>3 DEF Touches, Clients
<1>5. ALate(late') /\ (Harmless(late) => Harmless(late'))
  BY <1>3 DEF AInv
<1> QED
  BY <1>1, <1>2, <1>3, <1>4, <1>5, QuietClient

LEMMA ObserverAInv ==
  ASSUME IInv, AInv, Observer
  PROVE  AInv'
<1>1. /\ "o" \in Clients /\ UNCHANGED scriptVars /\ DOMAIN call = Clients /\ ALate(late)
      /\ call["o"].st # "idle" => call["o"].m = "get_version"
  BY DEF Clients, Observer, IInv, CallOK, AInv
<1>2. ASSUME Touches("o", obj', proc', call') PROVE call'["m"] = call["m"]
  BY <1>2 DEF Touches, Clients
<1>3. ASSUME call' = [call EXCEPT !["o"] = Idle]
      PROVE  call'["o"].st = "idle" /\ \A x \in Clients : x # "o" => call'[x] = call[x]
  BY <1>1, <1>3, IdleField
<1>4. CASE Send("o", "get_version", Closed, TRUE)
  <2>1. Touches("o", obj', proc', call') /\ UNCHANGED late
    BY <1>1, <1>4, SendTouches
  <2> QED
    BY <1>1, <1>2, <2>1, QuietClient
<1>5. CASE SendFails("o")
  <2>1. /\ proc' = CloseStream(proc, "o") /\ obj' = [obj EXCEPT !["o"] = Disconnected(@)] /\ UNCHANGED <<call, late>>
        /\ call["o"].st = "idle"
    BY <1>5 DEF SendFails
  <2>2. Touches("o", obj', proc', call')
    BY <1>1, <2>1, CutTouches
  <2> QED
    BY <1>1, <1>2, <2>1, <2>2, QuietClient
<1>6. CASE Receive("o", AfterAnswer("o"))
  <2>1. /\ proc' = (IF call["o"].keep THEN proc ELSE CloseStream(proc, "o")) /\ obj' = AfterAnswer("o")
        /\ call' = [call EXCEPT !["o"] = Idle] /\ UNCHANGED late
    BY <1>6 DEF Receive
  <2>2. Touches("o", obj', proc', call')
    BY <1>1, <1>3, <2>1, AnswerTouches
  <2> QED
    BY <1>1, <1>2, <2>1, <2>2, QuietClient
<1>7. CASE ReceiveFails("o")
  <2>1. /\ proc' = CloseStream(proc, "o") /\ obj' = [obj EXCEPT !["o"] = Disconnected(@)]
        /\ call' = [call EXCEPT !["o"] = Idle] /\ call["o"].st # "idle"
    BY <1>1, <1>7, GivenUpKeeps
  <2>2. Touches("o", obj', proc', call')
    BY <1>1, <1>3, <2>1, CutTouches
  <2>3. late' = late \/ late' = late \cup {[srv |-> obj["o"].srv, m |-> call["o"].m, arg |-> call["o"].arg]}
    BY <1>7 DEF ReceiveFails
  <2>4. \A x \in late' : x \in late \/ x.m = "get_version"
    BY <1>1, <2>1, <2>3
  <2>5. ALate(late') /\ (Harmless(late) => Harmless(late'))
    BY <1>1, <2>4 DEF ALate, Harmless
  <2> QED
    BY <1>1, <1>2, <2>2, <2>5, QuietClient
<1> QED
  BY <1>4, <1>5, <1>6, <1>7 DEF Observer

----------------
(* Errors *)

LEMMA CleanupList ==
  /\ Len(SpawnCleanup) = 4 /\ SpawnCleanup[1].op = "kill" /\ SpawnCleanup[2].op = "terminate"
  /\ SpawnCleanup[3].op = "wait" /\ SpawnCleanup[4].op = "end" /\ SpawnCleanup # <<>>
<1> DEFINE l(op) == [op |-> op]
           td == <<l("kill"), l("terminate"), l("wait"), l("end")>>
           S == [op : LocalOps]
           s1 == <<td[1]>>
           s2 == s1 \o <<td[2]>>
           s3 == s2 \o <<td[3]>>
<1>9. SpawnCleanup = s3 \o <<td[4]>>
  BY DEF SpawnCleanup, Local
<1>0. td[1] \in S /\ td[2] \in S /\ td[3] \in S /\ td[4] \in S
  BY DEF LocalOps
<1>1. /\ Lists(S, SpawnCleanup, 4, td) /\ td[1].op = "kill" /\ td[2].op = "terminate" /\ td[3].op = "wait"
      /\ td[4].op = "end"
  <2>1. td[1].op = "kill" /\ td[2].op = "terminate" /\ td[3].op = "wait" /\ td[4].op = "end"
    OBVIOUS
  <2> HIDE DEF td, S, s2, s3
  <2>2. Lists(S, s1, 1, td)
    BY <1>0 DEF Lists
  <2> HIDE DEF s1
  <2>3. Lists(S, s1 \o <<td[2]>>, 1 + 1, td)
    BY <1>0, <2>2, ListsOneMore
  <2>4. Lists(S, s2, 2, td)
    BY <2>3 DEF s2
  <2>5. Lists(S, s2 \o <<td[3]>>, 2 + 1, td)
    BY <1>0, <2>4, ListsOneMore
  <2>6. Lists(S, s3, 3, td)
    BY <2>5 DEF s3
  <2>7. Lists(S, s3 \o <<td[4]>>, 3 + 1, td)
    BY <1>0, <2>6, ListsOneMore
  <2> QED
    BY <1>9, <2>1, <2>7
<1> HIDE DEF td, S
<1>8. SpawnCleanup \in Seq(S) /\ Len(SpawnCleanup) = 4 /\ \A i \in 1 .. 4 : SpawnCleanup[i] = td[i]
  BY <1>1 DEF Lists
<1>7. SpawnCleanup # <<>>
  <2>1. Len(SpawnCleanup) = 4
    BY <1>8, Zenon
  <2>2. SpawnCleanup = <<>> => Len(SpawnCleanup) = 0
    OBVIOUS
  <2> HIDE DEF s1, s2, s3
  <2> QED
    BY <2>1, <2>2
<1> QED
  BY <1>1, <1>7, <1>8

LEMMA CleanupPlan ==
  ASSUME NEW bok, NEW gr
  PROVE  APlan(SpawnCleanup, "spawn", bok, gr) /\ ~Spawning(SpawnCleanup) /\ SpawnCleanup[1].op = "kill"
         /\ SpawnCleanup # <<>>
<1>1. \A i \in 1 .. 4 : PlanStep(SpawnCleanup, i, "spawn", bok, gr)
  BY CleanupList DEF PlanStep, Rebinds, Frees, Forks, Leads, PhaseOrder
<1>2. ~Spawning(SpawnCleanup)
  BY CleanupList DEF Spawning
<1> QED
  BY <1>1, <1>2, CleanupList DEF APlan, Phases

LEMMA EmptyPlan ==
  ASSUME NEW ph \in Phases, NEW bok, NEW gr
  PROVE  APlan(<<>>, ph, bok, gr) /\ ~Spawning(<<>>)
BY DEF APlan, Spawning

\* An error is raised.
LEMMA RaiseAInv ==
  ASSUME IInv, AInv, Raise, todo # <<>>, NEW o \in Clients, Touches(o, obj', proc', call'), call'["m"].st = "idle",
         ALate(late'), Live(todo, phase, obj) /\ obj["b"].ok /\ phase # "closing" => Harmless(late')
  PROVE  AInv'
<1>1. Touched(obj', proc', call')
  BY TouchedFacts
<1>2. /\ obj'["b"].ok = obj["b"].ok /\ obj'["m"].ok = obj["m"].ok /\ obj'["m"].addr = obj["m"].addr
      /\ obj'["b"].addr = obj["b"].addr /\ obj'["m"].nil = obj["m"].nil
  BY <1>1 DEF Touched, Clients
<1>3. phase \in Phases /\ UNCHANGED grand
  BY DEF AInv, APlan, Raise
<1>31. phase # "ended"
  BY DEF AInv, APlan
<1>4. APlan(todo', phase', obj'["b"].ok, grand') /\ ~Spawning(todo') /\ ASpawn(todo', proc')
  <2>1. CASE phase = "spawn"
    <3>1. phase' = "spawn" /\ todo' = SpawnCleanup
      BY <2>1 DEF Raise
    <3> QED
      BY <3>1, CleanupPlan DEF ASpawn
  <2>2. CASE phase # "spawn"
    <3>1. phase' \in Phases /\ todo' = <<>>
      BY <1>3, <1>31, <2>2 DEF Raise, Phases
    <3> QED
      BY <3>1, EmptyPlan DEF ASpawn
  <2> QED
    BY <2>1, <2>2
<1>5. ALive(todo', phase', obj', call', proc', late', grand')
  <2> SUFFICES ASSUME Live(todo', phase', obj')
               PROVE  /\ Harmless(late') /\ SessionsLead(proc', obj')
                      /\ Inheritors(proc') \subseteq Expected(todo', obj', call', grand')
                      /\ AtHome(todo', obj') /\ HomeRebinds(todo')
                      /\ Freed(todo', call') => HomeFree(proc')
    BY DEF ALive
  <2>1. phase \in {"start", "loop", "after"} /\ phase' = "closing" /\ todo' = <<>>
    BY <1>3, <1>31, <1>4 DEF Raise, Live, Phases, RebindNext
  <2>2. obj["b"].ok /\ Live(todo, phase, obj)
    BY <1>2, <1>4, <2>1 DEF Live, RebindNext
  <2>3. /\ Inheritors(proc) \subseteq Expected(todo, obj, call, grand) /\ AtHome(todo, obj)
    BY <2>2 DEF AInv, ALive
  <2>4. /\ todo \in Seq(Steps) /\ Len(todo) \in Nat \ {0} /\ \A i \in 1 .. Len(todo) : PlanStep(todo, i, phase, obj["b"].ok, grand)
    BY DEF IInv, TodoOK, AInv, APlan
  <2>5. PlanStep(todo, 1, phase, obj["b"].ok, grand)
    BY <2>4
  <2>6. ~Forks(todo[1]) /\ ~Rebinds(todo[1])
    BY <2>2, <2>5 DEF PlanStep, BackupOrder
  <2>7. \A i \in 1 .. Len(todo) : ~Leads(todo[i], "grand_address")
    <3> SUFFICES ASSUME NEW i \in 1 .. Len(todo), Leads(todo[i], "grand_address") PROVE FALSE
      OBVIOUS
    <3>1. Spawning(todo)
      BY <2>4 DEF PlanStep, GrandOrder
    <3>2. PICK k \in 1 .. Len(todo) : todo[k].op = "connect"
      BY <3>1 DEF Spawning
    <3> QED
      BY <2>1, <2>4, <3>2 DEF PlanStep, PhaseOrder
  <2>8. Expected(todo, obj, call, grand) \subseteq Expected(todo', obj', call', grand')
    <3>1. call["m"].st = "answered" => call["m"].m # "fork"
      BY <2>6, RequestPlan DEF Forks, Users, Clients
    <3> QED
      BY <1>2, <2>7, <3>1 DEF Expected
  <2>9. AtHome(todo', obj')
    BY <1>2, <2>3, <2>6 DEF AtHome, RebindNext
  <2>10. HomeRebinds(todo') /\ ~Freed(todo', call')
    BY <2>1 DEF HomeRebinds, Freed
  <2> QED
    BY <1>1, <2>1, <2>2, <2>3, <2>8, <2>9, <2>10 DEF Touched
<1> QED
  BY <1>1, <1>4, <1>5 DEF AInv, Touched

LEMMA CallFailsAInv ==
  ASSUME IInv, AInv, CallFails
  PROVE  AInv'
<1> DEFINE o == todo[1].o
<1>1. /\ Head(todo) = todo[1] /\ o \in Users /\ o \in Clients /\ todo # <<>> /\ todo[1].op = "call"
      /\ \A x \in Users : x # o => call[x].st = "idle"
  BY DoingCall DEF CallFails
<1>2. Raise /\ DOMAIN call = Clients /\ ALate(late)
  BY DEF CallFails, IInv, CallOK, AInv
<1> HIDE DEF o
<1>3. ASSUME call' = [call EXCEPT ![o] = Idle]
      PROVE  /\ call'[o].st = "idle" /\ call'["m"].st = "idle"
             /\ \A x \in Clients : x # o => call'[x] = call[x]
  BY <1>1, <1>2, <1>3, IdleField DEF Users, Clients
<1>4. ASSUME late' = late PROVE ALate(late') /\ (Live(todo, phase, obj) /\ obj["b"].ok /\ phase # "closing" => Harmless(late'))
  BY <1>2, <1>4 DEF AInv, ALive
<1>5. CASE SendFails(o)
  <2>1. /\ proc' = CloseStream(proc, o) /\ obj' = [obj EXCEPT ![o] = Disconnected(@)] /\ UNCHANGED <<call, late>>
        /\ call[o].st = "idle"
    BY <1>5 DEF SendFails
  <2>2. Touches(o, obj', proc', call') /\ call'["m"].st = "idle"
    BY <1>1, <2>1, CutTouches DEF Users
  <2> QED
    BY <1>1, <1>2, <1>4, <2>1, <2>2, RaiseAInv
<1>6. CASE ReceiveFails(o)
  <2>1. /\ proc' = CloseStream(proc, o) /\ obj' = [obj EXCEPT ![o] = Disconnected(@)]
        /\ call' = [call EXCEPT ![o] = Idle] /\ call[o].st # "idle"
    BY <1>1, <1>6, GivenUpKeeps
  <2>2. Touches(o, obj', proc', call')
    BY <1>1, <1>3, <2>1, CutTouches
  <2>3. late' = late \/ late' = late \cup {[srv |-> obj[o].srv, m |-> call[o].m, arg |-> call[o].arg]}
    BY <1>6 DEF ReceiveFails
  <2>4. call[o].m = "rebind" => call[o].arg = Home
    BY <1>1, <2>1, RebindLive
  <2>5. ALate(late')
    BY <1>2, <2>3, <2>4 DEF ALate
  <2>6. ASSUME obj["b"].ok PROVE call[o].m \notin {"rebind", "fork"}
    <3>1. PlanStep(todo, 1, phase, obj["b"].ok, grand) /\ todo[1].m = call[o].m
      BY <1>1, <2>1, RequestPlan
    <3> QED
      BY <1>1, <2>6, <3>1 DEF PlanStep, BackupOrder, Forks, Rebinds
  <2>7. Live(todo, phase, obj) /\ obj["b"].ok /\ phase # "closing" => Harmless(late')
    BY <2>3, <2>6 DEF AInv, ALive, Harmless
  <2> QED
    BY <1>1, <1>2, <1>3, <2>1, <2>2, <2>5, <2>7, RaiseAInv
<1>7. CASE Receive(o, AfterAnswer(o))
  <2>1. /\ proc' = (IF call[o].keep THEN proc ELSE CloseStream(proc, o)) /\ obj' = AfterAnswer(o)
        /\ call' = [call EXCEPT ![o] = Idle] /\ UNCHANGED late
    BY <1>7 DEF Receive
  <2>2. Touches(o, obj', proc', call')
    BY <1>1, <1>3, <2>1, AnswerTouches
  <2> QED
    BY <1>1, <1>2, <1>3, <1>4, <2>1, <2>2, RaiseAInv
<1> QED
  BY <1>1, <1>5, <1>6, <1>7 DEF CallFails, o

----------------
(* Plans of the loop and the closers, put together from pieces *)

Turns == {"after", "closing", "gc", "ended"}
Ready(op) ==
  CASE op = "after" -> {"loop"}
    [] op = "closing" -> {"after"}
    [] op = "gc" -> {"closing"}
    [] op = "ended" -> {"gc"}

PieceStep(s, i, ph, bok) ==
  /\ s[i].op \in {"call", "flush", "raise"} \cup Turns
  /\ Rebinds(s[i]) => /\ ~s[i].keep /\ s[i].then = "rolled_back" /\ i > 1 /\ Frees(s[i - 1])
                      /\ ph \in {"loop", "closing"} /\ s[i].arg = obj["m"].addr /\ ~obj["m"].nil
  /\ Frees(s[i]) => FreesOrder(s, i)
  /\ ~Leads(s[i], "grand_address") /\ ~Leads(s[i], "grand")
  /\ Forks(s[i]) => s[i].then = "backup" /\ ph = "loop"
  /\ Leads(s[i], "check") => ph = "loop"
  /\ Leads(s[i], "no_backup") => s[i].o = "b"
  /\ Forks(s[i]) \/ Rebinds(s[i]) => BackupOrder(s, i, bok)
  /\ s[i].op \in Turns => i = Len(s) /\ ph \in Ready(s[i].op)
Piece(s, ph, bok) == s \in Seq(Steps) /\ \A i \in 1 .. Len(s) : PieceStep(s, i, ph, bok)

\* Pieces that others may follow: no turn of the script; no backup is taken;
\* neither servers nor addresses change; there is no backup any more.
Open(s) == \A i \in 1 .. Len(s) : s[i].op \notin Turns
NoBacks(s) == \A i \in 1 .. Len(s) : ~Backs(s[i])
Calm(s) == \A i \in 1 .. Len(s) : ~Forks(s[i]) /\ ~Rebinds(s[i])
HasDrop(s) == \E i \in 1 .. Len(s) : Drops(s[i])

LEMMA Join ==
  ASSUME NEW s, NEW t, NEW ph, NEW bok, NEW bt, Piece(s, ph, bok), Open(s), Piece(t, ph, bt),
         Calm(t) \/ (NoBacks(s) /\ (bok => bt \/ HasDrop(s)))
  PROVE  /\ Piece(s \o t, ph, bok)
         /\ Open(t) => Open(s \o t)
         /\ NoBacks(s) /\ NoBacks(t) => NoBacks(s \o t)
         /\ Calm(s) /\ Calm(t) => Calm(s \o t)
         /\ HasDrop(s) \/ HasDrop(t) => HasDrop(s \o t)
<1> DEFINE u == s \o t
<1>0. s \in Seq(Steps) /\ t \in Seq(Steps)
  BY DEF Piece
<1>1. PICK n \in Nat, k \in Nat :
        /\ n = Len(s) /\ k = Len(t) /\ u \in Seq(Steps) /\ Len(u) = n + k
        /\ \A i \in 1 .. n + k : u[i] = IF i <= n THEN s[i] ELSE t[i - n]
  BY <1>0, ConcatProperties
<1> HIDE DEF u
<1>2. \A i \in 1 .. n : i \in 1 .. n + k /\ u[i] = s[i]
  BY <1>1
<1>3. \A i \in 1 .. k : n + i \in 1 .. n + k /\ u[n + i] = t[i]
  BY <1>1
<1>4. ASSUME NEW i \in 1 .. n + k PROVE i \in 1 .. n \/ \E j \in 1 .. k : i = n + j
  <2>1. CASE i <= n
    BY <2>1
  <2>2. CASE i > n
    <3>1. i - n \in 1 .. k /\ i = n + (i - n)
      BY <2>2
    <3> QED
      BY <3>1
  <2> QED
    BY <2>1, <2>2
<1>5. ASSUME NEW i \in 1 .. n PROVE PieceStep(u, i, ph, bok)
  <2>1. PieceStep(s, i, ph, bok) /\ u[i] = s[i]
    BY <1>1, <1>2 DEF Piece
  <2>2. s[i].op \notin Turns
    BY <1>1 DEF Open
  <2>3. i > 1 => i - 1 \in 1 .. n /\ u[i - 1] = s[i - 1]
    BY <1>2
  <2>4. FreesOrder(s, i) => FreesOrder(u, i)
    <3> SUFFICES ASSUME FreesOrder(s, i) PROVE FreesOrder(u, i)
      OBVIOUS
    <3>1. i < n /\ s[i].m = "shutdown" /\ Rebinds(s[i + 1])
      BY <1>1 DEF FreesOrder
    <3>2. i + 1 \in 1 .. n
      BY <3>1
    <3>3. u[i + 1] = s[i + 1] /\ i < n + k
      BY <1>2, <3>1, <3>2
    <3> QED
      BY <1>1, <2>1, <3>1, <3>3 DEF FreesOrder
  <2>5. BackupOrder(s, i, bok) => BackupOrder(u, i, bok)
    <3>1. \A j \in 1 .. i - 1 : u[j] = s[j]
      BY <1>2
    <3> QED
      BY <3>1 DEF BackupOrder
  <2> QED
    BY <2>1, <2>2, <2>3, <2>4, <2>5 DEF PieceStep
<1>6. ASSUME NEW i \in 1 .. k PROVE PieceStep(u, n + i, ph, bok)
  <2>1. PieceStep(t, i, ph, bt) /\ u[n + i] = t[i]
    BY <1>1, <1>3 DEF Piece
  <2>2. i > 1 => i - 1 \in 1 .. k /\ (n + i) - 1 = n + (i - 1) /\ n + i > 1
    BY <1>1
  <2>3. i > 1 => u[(n + i) - 1] = t[i - 1] /\ n + i > 1
    BY <1>3, <2>2
  <2>4. FreesOrder(t, i) => FreesOrder(u, n + i)
    <3> SUFFICES ASSUME FreesOrder(t, i) PROVE FreesOrder(u, n + i)
      OBVIOUS
    <3>1. i < k /\ t[i].m = "shutdown" /\ Rebinds(t[i + 1])
      BY <1>1 DEF FreesOrder
    <3>2. i + 1 \in 1 .. k /\ (n + i) + 1 = n + (i + 1) /\ n + i < n + k
      BY <3>1
    <3>3. u[(n + i) + 1] = t[i + 1]
      BY <1>3, <3>2
    <3> QED
      BY <1>1, <2>1, <3>1, <3>2, <3>3 DEF FreesOrder
  <2>5. ASSUME Forks(t[i]) \/ Rebinds(t[i]) PROVE BackupOrder(u, n + i, bok)
    <3>1. NoBacks(s) /\ (bok => bt \/ HasDrop(s)) /\ BackupOrder(t, i, bt)
      BY <1>1, <2>1, <2>5 DEF Calm, PieceStep
    <3>2. ASSUME NEW j \in 1 .. (n + i) - 1 PROVE ~Backs(u[j])
      <4>1. CASE j <= n
        <5>1. j \in 1 .. n
          BY <4>1
        <5> QED
          BY <1>1, <1>2, <3>1, <5>1 DEF NoBacks
      <4>2. CASE j > n
        <5>1. j - n \in 1 .. i - 1 /\ j - n \in 1 .. k /\ n + (j - n) = j
          BY <1>1, <4>2
        <5>2. u[j] = t[j - n]
          BY <1>3, <5>1
        <5> QED
          BY <3>1, <5>1, <5>2 DEF BackupOrder
      <4> QED
        BY <4>1, <4>2
    <3>3. ASSUME bok PROVE \E j \in 1 .. (n + i) - 1 : Drops(u[j])
      <4>1. CASE HasDrop(s)
        <5>1. PICK j \in 1 .. n : Drops(s[j])
          BY <1>1, <4>1 DEF HasDrop
        <5>2. j \in 1 .. (n + i) - 1 /\ u[j] = s[j]
          BY <1>1, <1>2
        <5> QED
          BY <5>1, <5>2
      <4>2. CASE bt
        <5>1. PICK j \in 1 .. i - 1 : Drops(t[j])
          BY <3>1, <4>2 DEF BackupOrder
        <5>2. n + j \in 1 .. (n + i) - 1 /\ j \in 1 .. k
          BY <1>1
        <5>3. u[n + j] = t[j]
          BY <1>3, <5>2
        <5> QED
          BY <5>1, <5>2, <5>3
      <4> QED
        BY <3>1, <3>3, <4>1, <4>2
    <3> QED
      BY <3>2, <3>3 DEF BackupOrder
  <2>6. i = k => n + i = n + k
    OBVIOUS
  <2> QED
    BY <1>1, <2>1, <2>3, <2>4, <2>5, <2>6 DEF PieceStep
<1>7. Piece(u, ph, bok)
  BY <1>1, <1>4, <1>5, <1>6 DEF Piece
<1>8. Open(t) => Open(u)
  BY <1>1, <1>2, <1>3, <1>4 DEF Open
<1>9. NoBacks(s) /\ NoBacks(t) => NoBacks(u)
  BY <1>1, <1>2, <1>3, <1>4 DEF NoBacks
<1>10. Calm(s) /\ Calm(t) => Calm(u)
  BY <1>1, <1>2, <1>3, <1>4 DEF Calm
<1>11. HasDrop(s) \/ HasDrop(t) => HasDrop(u)
  BY <1>1, <1>2, <1>3 DEF HasDrop
<1> QED
  BY <1>7, <1>8, <1>9, <1>10, <1>11 DEF u

\* What a plan made of pieces is.
Fresh(td, ph, bok) ==
  /\ \A gr : APlan(td, ph, bok, gr)
  /\ ~Spawning(td) /\ ~RebindNext(td)
  /\ td # <<>> => td[1].op # "spawn"
  /\ \A i \in 1 .. Len(td) : Rebinds(td[i]) => td[i].arg = obj["m"].addr /\ ~obj["m"].nil

LEMMA FreshPlan ==
  ASSUME NEW td, NEW ph \in Phases, ph # "ended", NEW bok, Piece(td, ph, bok)
  PROVE  Fresh(td, ph, bok)
<1>0. PICK n \in Nat : n = Len(td) /\ (td # <<>> => n > 0)
  BY DEF Piece
<1>1. \A i \in 1 .. n : PieceStep(td, i, ph, bok)
  BY <1>0 DEF Piece
<1>2. ASSUME NEW gr, NEW i \in 1 .. n PROVE PlanStep(td, i, ph, bok, gr)
  <2>1. PieceStep(td, i, ph, bok)
    BY <1>1
  <2>2. PhaseOrder(td, i, ph)
    BY <2>1, <1>0 DEF PieceStep, PhaseOrder, Turns, Ready
  <2> QED
    BY <2>1, <2>2 DEF PieceStep, PlanStep, RebindOrder
<1>3. \A gr : APlan(td, ph, bok, gr)
  BY <1>0, <1>2 DEF APlan
<1>4. \A i \in 1 .. n : td[i].op \notin {"spawn", "connect"}
  BY <1>1 DEF PieceStep, Turns
<1>5. ~Spawning(td)
  BY <1>0, <1>4 DEF Spawning
<1>6. ~RebindNext(td) /\ (td # <<>> => td[1].op # "spawn")
  <2> SUFFICES ASSUME td # <<>> PROVE ~Rebinds(td[1]) /\ td[1].op # "spawn"
    BY DEF RebindNext
  <2>1. 1 \in 1 .. n
    BY <1>0
  <2> QED
    BY <1>1, <1>4, <2>1 DEF PieceStep
<1>7. \A i \in 1 .. Len(td) : Rebinds(td[i]) => td[i].arg = obj["m"].addr /\ ~obj["m"].nil
  BY <1>0, <1>1 DEF PieceStep
<1> QED
  BY <1>3, <1>5, <1>6, <1>7 DEF Fresh

\* Kinds of pieces: one that may stand anywhere, one after which there is no
\* backup, any that may be followed, the last.
Light(s, ph) == (\A bok : Piece(s, ph, bok)) /\ Calm(s) /\ NoBacks(s) /\ Open(s)
Clears(s, ph, bok) == Piece(s, ph, bok) /\ Open(s) /\ NoBacks(s) /\ (bok => HasDrop(s))
Takes(s, ph, bok) == Piece(s, ph, bok) /\ Open(s)
Closes(s, ph) == (\A bok : Piece(s, ph, bok)) /\ Calm(s)

LEMMA Joins ==
  ASSUME NEW s, NEW t, NEW ph, NEW bok
  PROVE  /\ Clears(s, ph, bok) /\ Light(t, ph) => Clears(s \o t, ph, bok)
         /\ Light(s, ph) /\ Clears(t, ph, bok) => Clears(s \o t, ph, bok)
         /\ Light(s, ph) /\ Takes(t, ph, bok) => Takes(s \o t, ph, bok)
         /\ Light(s, ph) /\ Light(t, ph) => Light(s \o t, ph)
         /\ Clears(s, ph, bok) /\ Takes(t, ph, FALSE) => Takes(s \o t, ph, bok)
         /\ Takes(s, ph, bok) /\ Light(t, ph) => Takes(s \o t, ph, bok)
         /\ Takes(s, ph, bok) /\ Closes(t, ph) => Piece(s \o t, ph, bok)
         /\ Clears(s, ph, bok) => Takes(s, ph, bok)
         /\ Light(s, ph) => Takes(s, ph, bok)
         /\ Takes(s, ph, bok) => Piece(s, ph, bok)
<1>1. Clears(s, ph, bok) /\ Light(t, ph) => Clears(s \o t, ph, bok)
  BY Join DEF Clears, Light
<1>2. Light(s, ph) /\ Clears(t, ph, bok) => Clears(s \o t, ph, bok)
  BY Join DEF Clears, Light
<1>3. Light(s, ph) /\ Takes(t, ph, bok) => Takes(s \o t, ph, bok)
  BY Join DEF Takes, Light
<1>4. Light(s, ph) /\ Light(t, ph) => Light(s \o t, ph)
  BY Join DEF Light
<1>5. Clears(s, ph, bok) /\ Takes(t, ph, FALSE) => Takes(s \o t, ph, bok)
  BY Join DEF Clears, Takes
<1>6. Takes(s, ph, bok) /\ Light(t, ph) => Takes(s \o t, ph, bok)
  BY Join DEF Takes, Light
<1>7. Takes(s, ph, bok) /\ Closes(t, ph) => Piece(s \o t, ph, bok)
  BY Join DEF Takes, Closes
<1>8. /\ Clears(s, ph, bok) => Takes(s, ph, bok)
      /\ Light(s, ph) => Takes(s, ph, bok)
      /\ Takes(s, ph, bok) => Piece(s, ph, bok)
  BY DEF Clears, Light, Takes
<1> QED
  BY <1>1, <1>2, <1>3, <1>4, <1>5, <1>6, <1>7, <1>8

\* A single step that neither forks nor moves a server to another address.
Ordinary(c, ph) ==
  /\ c.op \in {"call", "flush", "raise"} \cup Turns
  /\ c.op = "call" => /\ c.m \notin {"rebind", "fork"} /\ c.then \notin {"swap", "grand_address", "grand", "backup"}
                      /\ (c.then = "check" => ph = "loop") /\ (c.then = "no_backup" => c.o = "b")
  /\ c.op \in Turns => ph \in Ready(c.op)

LEMMA Atom ==
  ASSUME NEW c \in Steps, NEW ph, Ordinary(c, ph)
  PROVE  /\ Closes(<<c>>, ph)
         /\ c.op \notin Turns => Light(<<c>>, ph)
         /\ Drops(c) => HasDrop(<<c>>)
<1> DEFINE s == <<c>>
<1>1. s \in Seq(Steps) /\ Len(s) = 1 /\ s[1] = c
  OBVIOUS
<1> HIDE DEF s
<1>2. ~Rebinds(c) /\ ~Forks(c) /\ ~Frees(c) /\ ~Leads(c, "grand_address") /\ ~Leads(c, "grand") /\ ~Backs(c)
  BY DEF Ordinary, Rebinds, Forks, Frees, Leads, Backs
<1>3. \A bok : PieceStep(s, 1, ph, bok)
  BY <1>1, <1>2 DEF Ordinary, PieceStep, Leads
<1>4. (\A bok : Piece(s, ph, bok)) /\ Calm(s) /\ NoBacks(s) /\ (c.op \notin Turns => Open(s)) /\ (Drops(c) => HasDrop(s))
  <2>1. \A i \in 1 .. Len(s) : i = 1
    BY <1>1
  <2> QED
    BY <1>1, <1>2, <1>3, <2>1 DEF Piece, Calm, NoBacks, Open, HasDrop
<1> QED
  BY <1>4 DEF Closes, Light, s

LEMMA EmptyPiece ==
  ASSUME NEW ph PROVE Light(<<>>, ph)
BY DEF Light, Piece, Calm, NoBacks, Open

\* The single steps of the loop and the closers.
LEMMA Atoms ==
  /\ Light(Check, "loop") /\ Light(Proof, "loop")
  /\ \A i \in Nat : Light(Call("m", "send_cmio_response", i, TRUE, "none"), "loop")
  /\ Light(Call("m", "run", Closed, TRUE, "seen"), "loop")
  /\ Light(Call("m", "destroy", Closed, TRUE, "none"), "after")
  /\ Light(Call("m", "shutdown", Closed, FALSE, "reset"), "gc")
  /\ Light(Call("b", "shutdown", Closed, FALSE, "no_backup"), "loop")
  /\ HasDrop(Call("b", "shutdown", Closed, FALSE, "no_backup"))
  /\ Light(Call("b", "shutdown", Closed, FALSE, "reset"), "loop")
  /\ HasDrop(Call("b", "shutdown", Closed, FALSE, "reset"))
  /\ Light(Local("flush"), "loop") /\ \A ph : Light(Local("raise"), ph)
  /\ Closes(Local("after"), "loop") /\ Closes(Local("closing"), "after") /\ Closes(Local("gc"), "closing")
  /\ Closes(Local("ended"), "gc")
<1>1. ASSUME NEW o \in Users, NEW m \in Methods \ {"rebind", "fork"}, NEW arg \in Nat, NEW keep \in BOOLEAN,
             NEW then \in Thens \ {"swap", "grand_address", "grand", "backup"}, NEW ph,
             then = "check" => ph = "loop", then = "no_backup" => o = "b",
             (m = "shutdown" \/ o = "b") => ~keep, then \notin {"address", "rolled_back"},
             o = "b" => m = "shutdown" /\ then \in {"no_backup", "reset"}
      PROVE  /\ Light(Call(o, m, arg, keep, then), ph)
             /\ then = "no_backup" \/ (then = "reset" /\ o = "b") => HasDrop(Call(o, m, arg, keep, then))
  <2> DEFINE c == [op |-> "call", o |-> o, m |-> m, arg |-> arg, keep |-> keep, then |-> then]
  <2>1. c \in Steps
    BY <1>1 DEF Steps, CallSteps, CallRecords, SoundCall
  <2>2. Ordinary(c, ph) /\ c.op \notin Turns
    BY <1>1 DEF Ordinary, Turns
  <2>3. then = "no_backup" \/ (then = "reset" /\ o = "b") => Drops(c)
    BY DEF Drops
  <2>4. Call(o, m, arg, keep, then) = <<c>>
    BY DEF Call
  <2> HIDE DEF c
  <2> QED
    BY <2>1, <2>2, <2>3, <2>4, Atom
<1>2. ASSUME NEW op \in {"flush", "raise"} \cup Turns, NEW ph, op \in Turns => ph \in Ready(op)
      PROVE  Closes(Local(op), ph) /\ (op \notin Turns => Light(Local(op), ph))
  <2> DEFINE c == [op |-> op]
  <2>1. c \in Steps /\ Ordinary(c, ph) /\ c.op = op
    BY <1>2 DEF Steps, LocalOps, Turns, Ordinary
  <2>2. Local(op) = <<c>>
    BY DEF Local
  <2> HIDE DEF c
  <2> QED
    BY <2>1, <2>2, Atom
<1> USE AddressFacts DEF Users, Methods, Thens
<1>3. Light(Check, "loop")
  BY <1>1 DEF Check
<1>4. Light(Proof, "loop")
  BY <1>1 DEF Proof
<1>5. \A i \in Nat : Light(Call("m", "send_cmio_response", i, TRUE, "none"), "loop")
  BY <1>1
<1>6. Light(Call("m", "run", Closed, TRUE, "seen"), "loop")
  BY <1>1
<1>7. Light(Call("m", "destroy", Closed, TRUE, "none"), "after")
  BY <1>1
<1>8. Light(Call("m", "shutdown", Closed, FALSE, "reset"), "gc")
  BY <1>1
<1>9. /\ Light(Call("b", "shutdown", Closed, FALSE, "no_backup"), "loop")
      /\ HasDrop(Call("b", "shutdown", Closed, FALSE, "no_backup"))
  BY <1>1
<1>10. /\ Light(Call("b", "shutdown", Closed, FALSE, "reset"), "loop")
       /\ HasDrop(Call("b", "shutdown", Closed, FALSE, "reset"))
  BY <1>1
<1>11. Light(Local("flush"), "loop") /\ \A ph : Light(Local("raise"), ph)
  BY <1>2 DEF Turns
<1>12. /\ Closes(Local("after"), "loop") /\ Closes(Local("closing"), "after") /\ Closes(Local("gc"), "closing")
       /\ Closes(Local("ended"), "gc")
  BY <1>2 DEF Turns, Ready
<1> QED
  BY <1>3, <1>4, <1>5, <1>6, <1>7, <1>8, <1>9, <1>10, <1>11, <1>12

LEMMA CommitPiece ==
  ASSUME IInv PROVE Clears(do_commit, "loop", obj["b"].ok)
<1>1. CASE obj["b"].nil
  <2>1. ~obj["b"].ok /\ do_commit = <<>>
    BY <1>1 DEF IInv, ObjOK, ObjectOK, Clients, do_commit
  <2> QED
    BY <2>1, EmptyPiece DEF Light, Clears
<1>2. CASE ~obj["b"].nil
  BY <1>2, Atoms DEF do_commit, Light, Clears
<1> QED
  BY <1>1, <1>2

LEMMA RollbackPiece ==
  ASSUME IInv, NEW ph \in {"loop", "closing"} PROVE Clears(do_rollback, ph, obj["b"].ok)
<1>1. CASE obj["b"].nil
  <2>1. ~obj["b"].ok /\ do_rollback = Local("raise")
    BY <1>1 DEF IInv, ObjOK, ObjectOK, Clients, do_rollback
  <2> QED
    BY <2>1, Atoms DEF Light, Clears
<1>2. CASE ~obj["b"].nil
  <2> DEFINE c == [op |-> "call", o |-> "m", m |-> "shutdown", arg |-> Closed, keep |-> FALSE, then |-> "swap"]
             d == [op |-> "call", o |-> "m", m |-> "rebind", arg |-> obj["m"].addr, keep |-> FALSE, then |-> "rolled_back"]
             s == <<c>> \o <<d>>
  <2>1. ~obj["m"].nil /\ obj["m"].addr \in Nat /\ obj["m"].addr # Closed
    BY <1>2 DEF IInv, ObjOK, ObjectOK, Clients
  <2>2. c \in Steps /\ d \in Steps
    BY <2>1, AddressFacts DEF Steps, CallSteps, CallRecords, SoundCall, Users, Methods, Thens
  <2>3. do_rollback = s
    BY <1>2 DEF do_rollback, Call
  <2>4. /\ ~Rebinds(c) /\ Frees(c) /\ ~Forks(c) /\ ~Backs(c) /\ Drops(c) /\ c.op = "call" /\ c.m = "shutdown"
        /\ c.then = "swap"
    BY DEF Rebinds, Frees, Forks, Backs, Drops
  <2>5. /\ Rebinds(d) /\ ~Frees(d) /\ ~Forks(d) /\ ~Backs(d) /\ d.op = "call" /\ d.then = "rolled_back" /\ ~d.keep
        /\ d.arg = obj["m"].addr
    BY DEF Rebinds, Frees, Forks, Backs
  <2> HIDE DEF c, d
  <2>6. s \in Seq(Steps) /\ Len(s) = 2 /\ s[1] = c /\ s[2] = d
    BY <2>2
  <2> HIDE DEF s
  <2>7. \A i \in 1 .. Len(s) : i = 1 \/ i = 2
    BY <2>6
  <2>8. PieceStep(s, 1, ph, obj["b"].ok)
    <3>1. FreesOrder(s, 1)
      BY <2>4, <2>5, <2>6 DEF FreesOrder
    <3> QED
      BY <2>4, <2>6, <3>1 DEF PieceStep, Leads, Turns
  <2>9. PieceStep(s, 2, ph, obj["b"].ok)
    <3>1. \A j \in 1 .. 2 - 1 : j = 1
      OBVIOUS
    <3>2. 1 \in 1 .. 2 - 1 /\ s[2 - 1] = c
      BY <2>6
    <3>3. BackupOrder(s, 2, obj["b"].ok)
      BY <2>4, <2>6, <3>1, <3>2 DEF BackupOrder
    <3> QED
      BY <2>1, <2>4, <2>5, <2>6, <3>2, <3>3 DEF PieceStep, Leads, Turns
  <2>10. Piece(s, ph, obj["b"].ok)
    BY <2>6, <2>7, <2>8, <2>9 DEF Piece
  <2>11. Open(s) /\ NoBacks(s) /\ HasDrop(s)
    <3>1. 1 \in 1 .. Len(s)
      BY <2>6
    <3> QED
      BY <2>4, <2>5, <2>6, <2>7, <3>1 DEF Open, NoBacks, HasDrop, Turns
  <2> QED
    BY <2>3, <2>10, <2>11 DEF Clears
<1> QED
  BY <1>1, <1>2

LEMMA SnapshotPiece ==
  /\ Takes(do_snapshot(FALSE), "loop", FALSE)
  /\ \A bok : Takes(do_snapshot(TRUE), "loop", bok)
<1> DEFINE c == [op |-> "call", o |-> "m", m |-> "fork", arg |-> Closed, keep |-> FALSE, then |-> "backup"]
           s == <<c>>
<1>1. c \in Steps
  BY AddressFacts DEF Steps, CallSteps, CallRecords, SoundCall, Users, Methods, Thens
<1>2. Call("m", "fork", Closed, FALSE, "backup") = s
  BY DEF Call
<1>3. ~Rebinds(c) /\ ~Frees(c) /\ Forks(c) /\ c.op = "call" /\ c.then = "backup"
  BY DEF Rebinds, Frees, Forks
<1> HIDE DEF c
<1>4. s \in Seq(Steps) /\ Len(s) = 1 /\ s[1] = c
  BY <1>1
<1> HIDE DEF s
<1>5. \A i \in 1 .. Len(s) : i = 1
  BY <1>4
<1>6. PieceStep(s, 1, "loop", FALSE)
  <2>1. BackupOrder(s, 1, FALSE)
    BY DEF BackupOrder
  <2> QED
    BY <1>3, <1>4, <2>1 DEF PieceStep, Leads, Turns
<1>7. Takes(s, "loop", FALSE)
  BY <1>3, <1>4, <1>5, <1>6 DEF Takes, Piece, Open, Turns
<1>8. Takes(do_snapshot(FALSE), "loop", FALSE)
  <2>1. do_snapshot(FALSE) = <<>> \o s
    BY <1>2 DEF do_snapshot
  <2>2. Light(<<>>, "loop")
    BY EmptyPiece
  <2> QED
    BY <1>7, <2>1, <2>2, Joins
<1>9. ASSUME NEW bok PROVE Takes(do_snapshot(TRUE), "loop", bok)
  <2> DEFINE r == Call("b", "shutdown", Closed, FALSE, "reset")
  <2>1. do_snapshot(TRUE) = r \o s
    BY <1>2 DEF do_snapshot
  <2>2. Light(r, "loop") /\ HasDrop(r)
    BY Atoms
  <2> HIDE DEF r
  <2>3. Clears(r, "loop", bok)
    BY <2>2 DEF Light, Clears
  <2> QED
    BY <1>7, <2>1, <2>3, Joins
<1> QED
  BY <1>8, <1>9

\* The script makes a plan: what it needs is there.
LEMMA NewPlan ==
  ASSUME IInv, AInv, Touched(obj', proc', call'), call'["m"].st = "idle", UNCHANGED <<phase, grand, late>>,
         todo = <<>> \/ (Leads(todo[1], "check") /\ todo # <<>>), Piece(todo', phase, obj["b"].ok), phase # "ended"
  PROVE  AInv'
<1>1. phase \in Phases
  BY DEF AInv, APlan
<1>2. Fresh(todo', phase, obj["b"].ok)
  BY <1>1, FreshPlan
<1>3. /\ obj'["b"].ok = obj["b"].ok /\ obj'["m"].ok = obj["m"].ok /\ obj'["m"].addr = obj["m"].addr
      /\ obj'["b"].addr = obj["b"].addr /\ obj'["m"].nil = obj["m"].nil
  BY DEF Touched, Clients
<1>4. ASpawn(todo', proc') /\ APlan(todo', phase', obj'["b"].ok, grand')
  BY <1>2, <1>3 DEF Fresh, ASpawn
<1>5. todo # <<>> => PlanStep(todo, 1, phase, obj["b"].ok, grand) /\ todo \in Seq(Steps) /\ Len(todo) \in Nat \ {0}
  <2>1. todo \in Seq(Steps)
    BY DEF IInv, TodoOK
  <2>2. todo # <<>> => Len(todo) \in Nat \ {0}
    BY <2>1
  <2>3. todo # <<>> => 1 \in 1 .. Len(todo)
    BY <2>2
  <2> QED
    BY <2>1, <2>2, <2>3 DEF AInv, APlan
<1>6. ALive(todo', phase', obj', call', proc', late', grand')
  <2> SUFFICES ASSUME Live(todo', phase', obj')
               PROVE  /\ Harmless(late') /\ SessionsLead(proc', obj')
                      /\ Inheritors(proc') \subseteq Expected(todo', obj', call', grand')
                      /\ AtHome(todo', obj') /\ HomeRebinds(todo')
                      /\ Freed(todo', call') => HomeFree(proc')
    BY DEF ALive
  <2>1. Live(todo, phase, obj)
    BY <1>2, <1>3 DEF Live, Fresh
  <2>2. /\ Harmless(late) /\ Inheritors(proc) \subseteq Expected(todo, obj, call, grand) /\ AtHome(todo, obj)
    BY <2>1 DEF AInv, ALive
  <2>3. ~RebindNext(todo)
    BY <1>5 DEF RebindNext, PlanStep, RebindOrder, Leads
  <2>4. \A i \in 1 .. Len(todo) : ~Leads(todo[i], "grand_address")
    <3>1. CASE todo = <<>>
      BY <3>1
    <3>2. CASE todo # <<>>
      <4> SUFFICES ASSUME NEW i \in 1 .. Len(todo), Leads(todo[i], "grand_address") PROVE FALSE
        OBVIOUS
      <4>1. \A j \in 1 .. Len(todo) : PlanStep(todo, j, phase, obj["b"].ok, grand)
        BY DEF AInv, APlan
      <4>2. Spawning(todo) /\ phase = "loop"
        BY <1>5, <3>2, <4>1 DEF PlanStep, GrandOrder
      <4>3. PICK k \in 1 .. Len(todo) : todo[k].op = "connect"
        BY <4>2 DEF Spawning
      <4> QED
        BY <4>1, <4>2, <4>3 DEF PlanStep, PhaseOrder
    <3> QED
      BY <3>1, <3>2
  <2>5. call["m"].st = "answered" => call["m"].m # "fork"
    <3> SUFFICES ASSUME call["m"].st = "answered", call["m"].m = "fork" PROVE FALSE
      OBVIOUS
    <3>1. todo # <<>> /\ todo[1].op = "call" /\ todo[1].m = "fork"
      BY RequestPlan DEF Users, Clients
    <3> QED
      BY <1>5, <3>1 DEF PlanStep, Forks, Leads
  <2>6. Expected(todo, obj, call, grand) \subseteq Expected(todo', obj', call', grand')
    BY <1>3, <2>4, <2>5 DEF Expected
  <2>7. AtHome(todo', obj')
    BY <1>3, <2>2, <2>3 DEF AtHome
  <2>8. HomeRebinds(todo')
    BY <1>2, <2>2, <2>3 DEF HomeRebinds, Fresh, AtHome
  <2>9. ~Freed(todo', call')
    BY <1>2 DEF Freed, Fresh, RebindNext
  <2> QED
    BY <2>1, <2>2, <2>6, <2>7, <2>8, <2>9 DEF Touched
<1> QED
  BY <1>4, <1>6 DEF AInv, Touched

\* Nothing happens to the remote side.
LEMMA UntouchedFacts ==
  ASSUME IInv, AInv, UNCHANGED remoteVars, todo = <<>> \/ todo[1].op # "call"
  PROVE  Touched(obj', proc', call') /\ call'["m"].st = "idle" /\ UNCHANGED <<obj, proc, call, late>>
<1>1. UNCHANGED <<obj, proc, call, late>>
  BY DEF remoteVars
<1>2. call["m"].st = "idle"
  BY UsersIdle DEF IInv, Users
<1>3. Touched(obj, proc, call)
  BY DEF Touched, AInv, ALive
<1> QED
  BY <1>1, <1>2, <1>3

LEMMA FreshStep ==
  ASSUME IInv, AInv, UNCHANGED remoteVars, todo = <<>>, UNCHANGED <<phase, grand>>, phase # "ended",
         Piece(todo', phase, obj["b"].ok)
  PROVE  AInv'
<1>1. Touched(obj', proc', call') /\ call'["m"].st = "idle" /\ UNCHANGED <<obj, proc, call, late>>
  BY UntouchedFacts
<1> QED
  BY <1>1, NewPlan

FeedOf(i) == do_snapshot(FALSE) \o Call("m", "send_cmio_response", i, TRUE, "none") \o Check

LEMMA FeedPiece ==
  ASSUME NEW i \in Nat PROVE Takes(FeedOf(i), "loop", FALSE)
<1> DEFINE f == Call("m", "send_cmio_response", i, TRUE, "none")
<1>1. Light(f, "loop") /\ Light(Check, "loop") /\ Takes(do_snapshot(FALSE), "loop", FALSE)
  BY Atoms, SnapshotPiece
<1> HIDE DEF f
<1>2. Takes(do_snapshot(FALSE) \o f, "loop", FALSE)
  BY <1>1, Joins
<1>3. Takes((do_snapshot(FALSE) \o f) \o Check, "loop", FALSE)
  BY <1>1, <1>2, Joins
<1> QED
  BY <1>3 DEF FeedOf, f

LEMMA NextInputPiece ==
  ASSUME IInv, NEW at, YieldNextInput(at)
  PROVE  Piece(todo', "loop", obj["b"].ok)
<1>1. next \in Nat /\ next + 1 \in Nat
  BY DEF IInv, ScriptOK
<1>2. Takes(FeedOf(next + 1), "loop", FALSE)
  BY <1>1, FeedPiece
<1>3. CASE todo' = do_commit \o (IF next > 0 THEN Local("flush") \o Proof ELSE <<>>) \o FeedOf(next + 1)
  <2> DEFINE f == IF next > 0 THEN Local("flush") \o Proof ELSE <<>>
  <2>1. Light(Local("flush") \o Proof, "loop") /\ Light(<<>>, "loop")
    BY Atoms, Joins, EmptyPiece
  <2>2. Light(f, "loop")
    BY <2>1
  <2>3. todo' = (do_commit \o f) \o FeedOf(next + 1)
    BY <1>3
  <2> HIDE DEF f
  <2>4. Clears(do_commit \o f, "loop", obj["b"].ok)
    BY <2>2, CommitPiece, Joins
  <2> QED
    BY <1>2, <2>3, <2>4, Joins
<1>4. CASE todo' = do_rollback \o FeedOf(next + 1)
  <2>1. Clears(do_rollback, "loop", obj["b"].ok)
    BY RollbackPiece
  <2> QED
    BY <1>2, <1>4, <2>1, Joins
<1>5. CASE todo' = Local("raise")
  BY <1>5, Atoms DEF Light
<1> QED
  BY <1>3, <1>4, <1>5 DEF YieldNextInput, FeedOf

LEMMA LastInputPiece ==
  ASSUME IInv, NEW at, YieldLast(at)
  PROVE  Piece(todo', "loop", obj["b"].ok)
<1> DEFINE closes == next \in 1 .. Inputs
           left == ~obj["b"].nil /\ (~closes \/ at = "other")
           epoch == CASE ~closes -> <<>>
                      [] closes /\ at = "accepted" -> Proof \o do_commit
                      [] closes /\ at = "rejected" -> do_rollback
                      [] OTHER -> <<>>
           feed == Call("m", "send_cmio_response", Query, TRUE, "none")
           inspect == CASE opts.inspect = "no" -> <<>>
                        [] opts.inspect = "query" -> do_snapshot(left) \o feed
                        [] opts.inspect = "fed" -> do_rollback
           bok == obj["b"].ok
<1>1. todo' = epoch \o inspect \o Check /\ at \in {"accepted", "rejected", "other"}
  BY DEF YieldLast
<1>2. opts.inspect \in {"no", "query", "fed"} /\ (opts.inspect = "fed" => ~closes)
  BY DEF IInv, ScriptOK, Inputs
<1>3. Light(feed, "loop") /\ Light(Check, "loop") /\ Light(Proof, "loop") /\ Light(<<>>, "loop")
  BY Atoms, AddressFacts, EmptyPiece
<1>4. Clears(do_commit, "loop", bok) /\ Clears(do_rollback, "loop", bok)
  BY CommitPiece, RollbackPiece
<1>5. Clears(Proof \o do_commit, "loop", bok)
  BY <1>3, <1>4, Joins
<1>6. left \in BOOLEAN /\ (obj["b"].nil => ~bok) /\ bok \in BOOLEAN
  BY DEF IInv, ObjOK, ObjectOK, Clients
<1> HIDE DEF feed
<1>7. Takes(epoch \o inspect, "loop", bok)
  <2>1. CASE closes /\ at # "other"
    <3>1. Clears(epoch, "loop", bok)
      BY <1>1, <1>4, <1>5, <2>1
    <3>2. Takes(do_snapshot(FALSE) \o feed, "loop", FALSE) /\ Takes(<<>>, "loop", FALSE)
      BY <1>3, SnapshotPiece, Joins
    <3>3. Takes(inspect, "loop", FALSE)
      <4>1. left = FALSE
        BY <2>1
      <4> QED
        BY <1>2, <2>1, <3>2, <4>1
    <3> HIDE DEF epoch, inspect
    <3> QED
      BY <3>1, <3>3, Joins
  <2>2. CASE ~closes \/ at = "other"
    <3>1. epoch = <<>>
      BY <2>2
    <3>2. Takes(do_snapshot(left) \o feed, "loop", bok)
      <4>1. Takes(do_snapshot(left), "loop", bok)
        <5>1. CASE left
          <6>1. left = TRUE
            BY <1>6, <5>1
          <6> QED
            BY <6>1, SnapshotPiece
        <5>2. CASE ~left
          <6>1. left = FALSE /\ bok = FALSE
            BY <1>6, <2>2, <5>2
          <6> QED
            BY <6>1, SnapshotPiece
        <5> QED
          BY <5>1, <5>2
      <4> HIDE DEF left
      <4> QED
        BY <1>3, <4>1, Joins
    <3>3. Takes(<<>>, "loop", bok) /\ Takes(do_rollback, "loop", bok)
      BY <1>3, <1>4, Joins
    <3>4. Takes(inspect, "loop", bok)
      BY <1>2, <3>2, <3>3
    <3> HIDE DEF epoch, inspect
    <3> QED
      BY <1>3, <3>1, <3>4, Joins
  <2> QED
    BY <2>1, <2>2
<1> HIDE DEF epoch, inspect
<1>8. Takes((epoch \o inspect) \o Check, "loop", bok)
  BY <1>3, <1>7, Joins
<1> QED
  BY <1>1, <1>8 DEF Takes

LEMMA LoopAInv ==
  ASSUME IInv, AInv, Loop \/ LoopRun
  PROVE  AInv'
<1>1. todo = <<>> /\ phase = "loop" /\ UNCHANGED <<phase, grand>> /\ UNCHANGED remoteVars
  BY DEF Loop, LoopRun
<1>2. Light(Call("m", "run", Closed, TRUE, "seen"), "loop") /\ Closes(Local("after"), "loop")
  BY Atoms
<1>3. ASSUME NEW c \in seen,
             \/ c.at = "exception" /\ YieldException
             \/ YieldNextInput(c.at) \/ YieldLast(c.at)
             \/ c.at = "output" /\ YieldOutput
             \/ todo' = Local("after")
      PROVE  Piece(todo', "loop", obj["b"].ok)
  <2>1. CASE YieldException
    <3>1. todo' = do_rollback \o Local("after")
      BY <2>1 DEF YieldException
    <3>2. Clears(do_rollback, "loop", obj["b"].ok)
      BY RollbackPiece
    <3> QED
      BY <1>2, <3>1, <3>2, Joins
  <2>2. CASE YieldNextInput(c.at)
    BY <2>2, NextInputPiece
  <2>3. CASE YieldLast(c.at)
    BY <2>3, LastInputPiece
  <2>4. CASE YieldOutput
    BY <1>2, <2>4 DEF YieldOutput, Light
  <2>5. CASE todo' = Local("after")
    BY <1>2, <2>5 DEF Closes
  <2> QED
    BY <1>3, <2>1, <2>2, <2>3, <2>4, <2>5
<1>4. Piece(todo', "loop", obj["b"].ok)
  <2>1. CASE Loop
    BY <1>3, <2>1 DEF Loop
  <2>2. CASE LoopRun
    BY <1>2, <2>2 DEF LoopRun, Light
  <2> QED
    BY <2>1, <2>2
<1> QED
  BY <1>1, <1>4, FreshStep

LEMMA ClosersAInv ==
  ASSUME IInv, AInv, Closers
  PROVE  AInv'
<1>1. todo = <<>> /\ UNCHANGED <<phase, grand>> /\ UNCHANGED remoteVars /\ phase \in {"after", "closing", "gc"}
  BY DEF Closers
<1>2. Piece(todo', phase, obj["b"].ok)
  <2>1. CASE phase = "after"
    <3> DEFINE s == Call("m", "destroy", Closed, TRUE, "none")
    <3>1. Light(s, "after") /\ Closes(Local("closing"), "after")
      BY Atoms
    <3>2. todo' = s \o Local("closing") \/ todo' = Local("closing")
      BY <2>1 DEF Closers
    <3> HIDE DEF s
    <3>3. Piece(s \o Local("closing"), "after", obj["b"].ok)
      BY <3>1, Joins
    <3> QED
      BY <2>1, <3>1, <3>2, <3>3 DEF Closes
  <2>2. CASE phase = "closing"
    <3> DEFINE s == IF obj["b"].nil THEN <<>> ELSE do_rollback
    <3>1. todo' = s \o Local("gc") /\ Closes(Local("gc"), "closing")
      BY <2>2, Atoms DEF Closers
    <3>2. Clears(do_rollback, "closing", obj["b"].ok) /\ Light(<<>>, "closing")
      BY RollbackPiece, EmptyPiece
    <3>3. Takes(s, "closing", obj["b"].ok)
      BY <3>2, Joins
    <3> HIDE DEF s
    <3> QED
      BY <2>2, <3>1, <3>3, Joins
  <2>3. CASE phase = "gc"
    <3> DEFINE s == Call("m", "shutdown", Closed, FALSE, "reset")
    <3>1. Light(s, "gc") /\ Closes(Local("ended"), "gc")
      BY Atoms
    <3>2. todo' = s \o Local("ended") \/ todo' = Local("ended")
      BY <2>3 DEF Closers
    <3> HIDE DEF s
    <3>3. Piece(s \o Local("ended"), "gc", obj["b"].ok)
      BY <3>1, Joins
    <3> QED
      BY <2>3, <3>1, <3>2, <3>3 DEF Closes
  <2> QED
    BY <1>1, <2>1, <2>2, <2>3
<1> QED
  BY <1>1, <1>2, FreshStep

----------------
(* A call returns *)

\* The objects nb after the answer v to o, which were ob when it was read.
Leaves(then, o, v, ob, nb) ==
  /\ nb["o"] = ob["o"]
  /\ then = "swap" => nb["m"] = ob["b"]
  /\ then # "swap" => /\ nb["m"].nil = ob["m"].nil /\ nb["m"].srv = ob["m"].srv /\ nb["m"].ep = ob["m"].ep
                      /\ nb["m"].ok => ob["m"].ok
                      /\ nb["m"].addr = CASE then \in {"rolled_back", "address"} -> v
                                          [] then = "grand_address" -> grand
                                          [] OTHER -> ob["m"].addr
  /\ then \in {"no_backup", "rolled_back"} => nb["b"] = NilObject
  /\ then = "backup" => nb["b"] = NewObject(v)
  /\ then = "swap" \/ (then = "reset" /\ o = "b") => ~nb["b"].ok
  /\ then \notin {"no_backup", "rolled_back", "backup", "swap"} /\ ~(then = "reset" /\ o = "b") => nb["b"] = ob["b"]

LEMMA LeavesFacts ==
  ASSUME NEW o \in Users, NEW then \in Thens, NEW v, NEW ob, ob = AfterAnswer(o), ObjOK(ob),
         then \in {"address", "grand_address"} => o = "m", NEW nb, nb = Returned(then, o, v)
  PROVE  Leaves(then, o, v, ob, nb)
<1>1. /\ DOMAIN ob = Clients /\ "m" \in Clients /\ "b" \in Clients /\ "o" \in Clients
      /\ DOMAIN ob["m"] = ObjFields /\ DOMAIN ob["b"] = ObjFields
  BY DEF ObjOK, ObjectOK, Clients
<1>2. o = "m" \/ o = "b"
  BY DEF Users
<1>3. CASE then = "reset"
  <2> DEFINE y == [ob[o] EXCEPT !.ok = FALSE]
  <2>1. nb = [ob EXCEPT ![o] = y]
    BY <1>3 DEF Returned
  <2>2. ~y.ok /\ y.nil = ob[o].nil /\ y.srv = ob[o].srv /\ y.ep = ob[o].ep /\ y.addr = ob[o].addr
    BY <1>1, <1>2 DEF ObjFields
  <2> HIDE DEF y
  <2>3. nb[o] = y /\ \A x \in Clients : x # o => nb[x] = ob[x]
    BY <1>1, <1>2, <2>1
  <2> QED
    BY <1>1, <1>2, <1>3, <2>2, <2>3 DEF Leaves
<1>4. CASE then = "no_backup"
  <2>1. nb = [ob EXCEPT !["b"] = NilObject]
    BY <1>4 DEF Returned
  <2>2. nb["b"] = NilObject /\ nb["m"] = ob["m"] /\ nb["o"] = ob["o"]
    BY <1>1, <2>1
  <2> QED
    BY <1>4, <2>2 DEF Leaves
<1>5. CASE then = "backup"
  <2>1. nb = [ob EXCEPT !["b"] = NewObject(v)]
    BY <1>5 DEF Returned
  <2>2. nb["b"] = NewObject(v) /\ nb["m"] = ob["m"] /\ nb["o"] = ob["o"]
    BY <1>1, <2>1
  <2> QED
    BY <1>5, <2>2 DEF Leaves
<1>6. CASE then = "swap"
  <2> DEFINE y == [ob["m"] EXCEPT !.ok = FALSE]
  <2>1. nb = [ob EXCEPT !["m"] = ob["b"], !["b"] = y]
    BY <1>6 DEF Returned
  <2>2. ~y.ok
    BY <1>1 DEF ObjFields
  <2> HIDE DEF y
  <2>3. nb["b"] = y /\ nb["m"] = ob["b"] /\ nb["o"] = ob["o"]
    BY <1>1, <2>1
  <2> QED
    BY <1>6, <2>2, <2>3 DEF Leaves
<1>7. CASE then = "rolled_back"
  <2> DEFINE y == [ob["m"] EXCEPT !.addr = v]
  <2>1. nb = [ob EXCEPT !["m"] = y, !["b"] = NilObject]
    BY <1>7 DEF Returned
  <2>2. y.addr = v /\ y.ok = ob["m"].ok /\ y.nil = ob["m"].nil /\ y.srv = ob["m"].srv /\ y.ep = ob["m"].ep
    BY <1>1 DEF ObjFields
  <2> HIDE DEF y
  <2>3. nb["b"] = NilObject /\ nb["m"] = y /\ nb["o"] = ob["o"]
    BY <1>1, <2>1
  <2> QED
    BY <1>7, <2>2, <2>3 DEF Leaves
<1>8. ASSUME then \in {"address", "grand_address"}, NEW a, a = (IF then = "address" THEN v ELSE grand)
      PROVE  Leaves(then, o, v, ob, nb)
  <2> DEFINE y == [ob["m"] EXCEPT !.addr = a]
  <2>1. nb = [ob EXCEPT !["m"] = y]
    BY <1>8 DEF Returned
  <2>2. y.addr = a /\ y.ok = ob["m"].ok /\ y.nil = ob["m"].nil /\ y.srv = ob["m"].srv /\ y.ep = ob["m"].ep
    BY <1>1 DEF ObjFields
  <2> HIDE DEF y
  <2>3. nb["b"] = ob["b"] /\ nb["m"] = y /\ nb["o"] = ob["o"]
    BY <1>1, <2>1
  <2> QED
    BY <1>8, <2>2, <2>3 DEF Leaves
<1>9. CASE then \in {"none", "grand", "seen", "check"}
  <2>1. nb = ob
    BY <1>9 DEF Returned
  <2> QED
    BY <1>9, <2>1 DEF Leaves
<1> QED
  BY <1>3, <1>4, <1>5, <1>6, <1>7, <1>8, <1>9 DEF Thens

\* What CallReturns does, in one place.
Back(c, o, v, ob) ==
  /\ c = todo[1] /\ o = c.o /\ v = call[o].res[1] /\ ob = AfterAnswer(o)
  /\ todo # <<>> /\ c.op = "call" /\ SoundCall(c) /\ o \in Users /\ o \in Clients /\ c.then \in Thens
  /\ todo \in Seq(Steps) /\ Len(todo) \in Nat \ {0} /\ PlanStep(todo, 1, phase, obj["b"].ok, grand)
  /\ call[o].st = "answered" /\ call[o].res # <<>> /\ call[o].m = c.m /\ ~obj[o].nil /\ c.keep = call[o].keep
  /\ c.m = "fork" => v \in Pids
  /\ c.m = "rebind" => v = c.arg
  /\ grand' = IF c.then = "grand" THEN v ELSE grand
  /\ todo' = IF c.then = "check" /\ v.at \in Manual THEN do_commit \o Local("after") ELSE Tail(todo)
  /\ UNCHANGED <<phase, late>> /\ \A x \in Users : call'[x].st = "idle"
  /\ Touched(ob, proc', call') /\ Leaves(c.then, o, v, ob, obj')
  /\ obj'["b"].srv = 0 /\ ob["b"].srv = 0
  /\ c.then = "swap" => ob["m"].srv = 0 /\ ~obj["b"].nil

LEMMA BackFacts ==
  ASSUME IInv, AInv, CallReturns
  PROVE  \E c, o, v, ob : Back(c, o, v, ob)
<1> DEFINE c == todo[1]
           o == c.o
           v == call[o].res[1]
           ob == AfterAnswer(o)
<1>1. /\ todo # <<>> /\ Head(todo) = c /\ c.op = "call" /\ SoundCall(c) /\ o \in Users /\ o \in Clients
      /\ c.then \in Thens /\ todo \in Seq(Steps) /\ Len(todo) \in Nat \ {0}
      /\ \A x \in Users : x # o => call[x].st = "idle"
  BY DoingCall DEF CallReturns
<1>2. /\ call[o].st = "answered" /\ call[o].res # <<>> /\ Receive(o, Returned(c.then, o, v))
      /\ grand' = (IF c.then = "grand" THEN v ELSE grand)
      /\ todo' = (IF c.then = "check" /\ v.at \in Manual THEN do_commit \o Local("after") ELSE Tail(todo))
      /\ UNCHANGED phase
  BY <1>1 DEF CallReturns, KeepScript
<1>3. /\ proc' = (IF call[o].keep THEN proc ELSE CloseStream(proc, o))
      /\ obj' = Returned(c.then, o, v)
      /\ call' = [call EXCEPT ![o] = Idle] /\ UNCHANGED late
  BY <1>2 DEF Receive
<1>4. /\ CallOK(call, todo, obj) /\ DOMAIN call = Clients /\ CallRecordOK(call[o]) /\ TodoOK(todo, obj)
      /\ Current(call[o], todo, o) /\ ~obj[o].nil /\ (call["b"].st = "idle" => obj["b"].srv = 0)
  BY <1>1, <1>2 DEF IInv, CallOK
<1>5. call[o].m = c.m /\ call[o].arg = c.arg /\ call[o].keep = c.keep
  BY <1>4 DEF Current
<1>6. (c.m = "fork" => v \in Pids) /\ (c.m = "rebind" => v = c.arg)
  BY <1>2, <1>4, <1>5 DEF CallRecordOK
<1>7. call'[o].st = "idle" /\ \A x \in Clients : x # o => call'[x] = call[x]
  BY <1>1, <1>3, <1>4, IdleField
<1>8. /\ ObjOK(ob) /\ (~c.keep => ob[o].srv = 0) /\ \A x \in Clients : x # o => ob[x] = obj[x]
  BY <1>1, <1>3, <1>5, AfterAnswerKeeps
<1>9. Touched(ob, proc', call')
  <2>1. ob = AfterAnswer(o)
    OBVIOUS
  <2> HIDE DEF ob
  <2>2. Touches(o, ob, proc', call')
    BY <1>1, <1>3, <1>7, <2>1, AnswerTouches
  <2> QED
    BY <1>1, <2>2, TouchedFacts
<1>10. \A x \in Users : call'[x].st = "idle"
  BY <1>1, <1>7 DEF Users, Clients
<1>11. obj'["b"].srv = 0
  <2>1. IInv'
    BY CallReturnsKeeps
  <2>2. CallOK(call', todo', obj')
    BY <2>1 DEF IInv
  <2> QED
    BY <1>10, <2>2 DEF CallOK, Users
<1>12. PlanStep(todo, 1, phase, obj["b"].ok, grand)
  <2>1. 1 \in 1 .. Len(todo)
    BY <1>1
  <2> QED
    BY <2>1 DEF AInv, APlan
<1>13. ob["b"].srv = 0
  BY <1>1, <1>4, <1>8 DEF SoundCall, Users, Clients
<1>14. c.then = "swap" => ob["m"].srv = 0 /\ ~obj["b"].nil
  <2>1. c.then = "swap" => o = "m" /\ ~c.keep
    BY <1>1 DEF SoundCall
  <2>2. c.then = "swap" => ~obj["b"].nil
    BY <1>1, <1>4 DEF TodoOK, StepOK, Swaps
  <2> QED
    BY <1>8, <2>1, <2>2
<1>15. Leaves(c.then, o, v, ob, obj')
  <2>1. ob = AfterAnswer(o) /\ (c.then \in {"address", "grand_address"} => o = "m")
    BY <1>1 DEF SoundCall
  <2> HIDE DEF ob, v, o
  <2> QED
    BY <1>1, <1>3, <1>8, <2>1, LeavesFacts
<1>16. Back(c, o, v, ob)
  <2> HIDE DEF ob
  <2>1. ob = AfterAnswer(o)
    BY DEF ob
  <2> QED
    BY <1>1, <1>2, <1>3, <1>4, <1>5, <1>6, <1>9, <1>10, <1>11, <1>12, <1>13, <1>14, <1>15, <2>1 DEF Back
<1> QED
  BY <1>16

\* Objects and calls.
LEMMA BackObjects ==
  ASSUME IInv, AInv, IInv', NEW c, NEW o, NEW v, NEW ob, Back(c, o, v, ob)
  PROVE  AObj(obj') /\ ACall(call', obj', proc') /\ (Live(todo, phase, obj) => SessionsLead(proc', obj'))
<1> USE DEF Back
<1>1. AObj(ob) /\ ACall(call', ob, proc') /\ (Live(todo, phase, obj) => SessionsLead(proc', ob))
      /\ Leaves(c.then, o, v, ob, obj')
  BY DEF Touched
<1>2. c.then = "backup" => v \in Pids
  BY DEF SoundCall
<1>3. \A x \in Clients : obj'[x].srv # 0 => obj'[x].ep = ob[x].ep /\ obj'[x].srv = ob[x].srv
  <2>1. obj'["m"].srv # 0 => obj'["m"].ep = ob["m"].ep /\ obj'["m"].srv = ob["m"].srv
    <3>1. CASE c.then = "swap"
      BY <1>1, <3>1 DEF Leaves
    <3>2. CASE c.then # "swap"
      BY <1>1, <3>2 DEF Leaves
    <3> QED
      BY <3>1, <3>2
  <2>2. obj'["o"] = ob["o"]
    BY <1>1 DEF Leaves
  <2> QED
    BY <2>1, <2>2 DEF Clients
<1>4. AObj(obj')
  <2>1. obj'["b"].ok => obj'["b"].addr \in Pids
    <3>1. NilObject.ok = FALSE /\ NewObject(v).addr = v
      BY DEF NilObject, NewObject
    <3> QED
      BY <1>1, <1>2, <3>1 DEF Leaves, AObj
  <2>2. obj'["o"] = ob["o"]
    BY <1>1 DEF Leaves
  <2> QED
    BY <1>1, <1>3, <2>1, <2>2 DEF AObj
<1>5. ACall(call', obj', proc')
  <2>1. obj'["o"] = ob["o"] /\ call'["m"].st = "idle" /\ call'["b"].st = "idle"
    BY <1>1 DEF Leaves, Users
  <2>2. ACall(call', ob, proc')
    BY <1>1
  <2> HIDE DEF Back
  <2>3. \A x \in Clients : call'[x].st # "idle" => x = "o"
    BY <2>1 DEF Clients
  <2> QED
    BY <2>1, <2>2, <2>3 DEF ACall
<1>6. ASSUME Live(todo, phase, obj) PROVE SessionsLead(proc', obj')
  <2> SUFFICES ASSUME NEW p \in Pids, NEW x \in proc'[p].sess PROVE proc'[p].addr = obj'[x].ep
    BY DEF SessionsLead
  <2>1. x \in Clients /\ obj'[x].srv = p /\ p # 0
    BY AddressFacts DEF IInv, ProcOK, ProcessOK
  <2> QED
    BY <1>1, <1>3, <1>6, <2>1 DEF SessionsLead
<1> QED
  BY <1>4, <1>5, <1>6

\* The plan.
LEMMA BackPlan ==
  ASSUME IInv, AInv, NEW c, NEW o, NEW v, NEW ob, Back(c, o, v, ob), todo' = Tail(todo)
  PROVE  APlan(todo', phase', obj'["b"].ok, grand') /\ ASpawn(todo', proc')
<1> USE DEF Back
<1>1. Leaves(c.then, o, v, ob, obj') /\ ob["b"].ok = obj["b"].ok /\ ob["b"].nil = obj["b"].nil
  BY DEF Touched, Clients
<1>2. NilObject.ok = FALSE
  BY DEF NilObject
<1>3. /\ Drops(todo[1]) => ~obj'["b"].ok
      /\ obj'["b"].ok => obj["b"].ok \/ Backs(todo[1])
  BY <1>1, <1>2 DEF Leaves, Drops, Backs
<1>4. /\ grand' = grand \/ Leads(todo[1], "grand")
      /\ Leads(todo[1], "grand") => grand' \in Pids
  BY DEF Leads, SoundCall
<1>5. APlan(todo, phase, obj["b"].ok, grand) /\ phase \in Phases /\ todo[1].op = "call"
  BY DEF AInv, APlan
<1>6. APlan(Tail(todo), phase, obj'["b"].ok, grand')
  BY <1>3, <1>4, <1>5, PlanTail
<1>7. ASpawn(todo', proc')
  <2> SUFFICES ASSUME todo' # <<>>, todo'[1].op = "spawn" PROVE FALSE
    BY DEF ASpawn
  <2>1. PICK n \in Nat : /\ n = Len(todo) /\ Len(Tail(todo)) = n - 1 /\ Tail(todo) \in Seq(Steps)
                         /\ \A i \in 1 .. n - 1 : Tail(todo)[i] = todo[i + 1]
    BY TailOf
  <2>2. n - 1 # 0
    BY <2>1
  <2>3. 1 \in 1 .. n - 1 /\ 1 + 1 \in 1 .. n
    BY <2>1, <2>2
  <2>4. todo'[1] = todo[1 + 1]
    BY <2>1, <2>3
  <2> QED
    BY <2>1, <2>3, <2>4 DEF IInv, TodoOK, StepOK
<1> QED
  BY <1>6, <1>7

\* The script still depends on the servers only if it did.
LEMMA BackLive ==
  ASSUME IInv, AInv, NEW c, NEW o, NEW v, NEW ob, Back(c, o, v, ob), todo' = Tail(todo),
         Live(todo', phase', obj')
  PROVE  /\ Live(todo, phase, obj)
         /\ RebindNext(todo') => Frees(c)
<1> USE DEF Back
<1>1. PICK n \in Nat : /\ n = Len(todo) /\ Len(Tail(todo)) = n - 1 /\ Tail(todo) \in Seq(Steps)
                       /\ \A i \in 1 .. n - 1 : Tail(todo)[i] = todo[i + 1]
  BY TailOf
<1>2. Leaves(c.then, o, v, ob, obj') /\ ob["b"].ok = obj["b"].ok
  BY DEF Touched, Clients
<1>3. Spawning(todo') => Spawning(todo)
  <2> SUFFICES ASSUME Spawning(todo') PROVE Spawning(todo)
    OBVIOUS
  <2> HIDE DEF Back
  <2>1. PICK k \in 1 .. n - 1 : Tail(todo)[k].op = "connect"
    BY <1>1 DEF Spawning
  <2>2. k + 1 \in 1 .. n
    BY <1>1
  <2> QED
    BY <1>1, <2>1, <2>2 DEF Spawning
<1>4. ASSUME RebindNext(todo') PROVE Frees(c)
  <2>0. todo' # <<>> /\ todo' \in Seq(Steps) /\ Len(todo') = n - 1
    BY <1>1, <1>4 DEF RebindNext
  <2>1. n - 1 # 0
    BY <2>0
  <2>2. 1 \in 1 .. n - 1 /\ 1 + 1 \in 1 .. n /\ (1 + 1) - 1 = 1 /\ 1 + 1 # 1
    BY <1>1, <2>1
  <2>3. Rebinds(todo[1 + 1])
    BY <1>1, <1>4, <2>2 DEF RebindNext
  <2>4. PlanStep(todo, 1 + 1, phase, obj["b"].ok, grand)
    BY <1>1, <2>2 DEF AInv, APlan
  <2>5. RebindOrder(todo, 1 + 1)
    BY <2>3, <2>4 DEF PlanStep
  <2> QED
    BY <2>2, <2>5 DEF RebindOrder
<1>5. ASSUME ~Spawning(todo), phase = "closing" PROVE Live(todo, phase, obj)
  <2>1. ~Forks(c) /\ ~Leads(c, "grand_address")
    BY <1>5 DEF PlanStep, GrandOrder
  <2>2. c.then # "backup" /\ c.then # "grand_address"
    BY <2>1 DEF SoundCall, Forks, Leads
  <2>3. NilObject.ok = FALSE
    BY DEF NilObject
  <2>4. obj'["b"].ok => obj["b"].ok
    BY <1>2, <2>2, <2>3 DEF Leaves
  <2>5. RebindNext(todo') /\ obj'["m"].ok => obj["b"].ok
    BY <1>2, <1>4, <2>2 DEF Leaves, Frees
  <2> QED
    BY <1>3, <1>5, <2>4, <2>5 DEF Live
<1> QED
  BY <1>3, <1>4, <1>5 DEF Live

\* The children that still hold the user's address are known.
LEMMA BackExpected ==
  ASSUME IInv, AInv, NEW c, NEW o, NEW v, NEW ob, Back(c, o, v, ob), todo' = Tail(todo), Live(todo, phase, obj)
  PROVE  Inheritors(proc') \subseteq Expected(todo', obj', call', grand')
<1> USE DEF Back
<1>1. /\ Inheritors(proc') = Inheritors(proc) /\ Leaves(c.then, o, v, ob, obj')
      /\ ob["m"].addr = obj["m"].addr /\ ob["b"].addr = obj["b"].addr /\ ob["b"].ok = obj["b"].ok
  BY DEF Touched, Clients
<1>2. Inheritors(proc) \subseteq Expected(todo, obj, call, grand) /\ AtHome(todo, obj)
  BY DEF AInv, ALive
<1> SUFFICES ASSUME NEW p \in Inheritors(proc) PROVE p \in Expected(todo', obj', call', grand')
  BY <1>1
<1>3. p \in Pids /\ proc[p].st = "child" /\ p # Home
  BY AddressFacts DEF Inheritors, Home
<1>4. ASSUME p = obj[o].addr PROVE FALSE
  <2>1. obj[o].srv # 0 /\ obj[o].ep = p /\ (proc[obj[o].srv].st = "child" => call[o].st = "sent")
    BY <1>4 DEF AInv, ACall
  <2>2. obj[o].srv = p
    BY <1>3, <2>1 DEF AInv, AObj
  <2> QED
    BY <1>3, <2>1, <2>2
<1>5. PICK n \in Nat : /\ n = Len(todo) /\ Len(Tail(todo)) = n - 1 /\ Tail(todo) \in Seq(Steps)
                       /\ \A i \in 1 .. n - 1 : Tail(todo)[i] = todo[i + 1]
  BY TailOf
<1>6. \A i \in 2 .. n : i - 1 \in 1 .. n - 1 /\ Tail(todo)[i - 1] = todo[i]
  BY <1>5
<1>7. CASE p = obj["m"].addr
  <2>1. c.then \in {"rolled_back", "address"} => o = "m"
    BY DEF SoundCall
  <2>2. c.then \in {"swap", "grand_address"} => FALSE
    <3> SUFFICES ASSUME c.then \in {"swap", "grand_address"} PROVE FALSE
      OBVIOUS
    <3>1. Frees(c) /\ c.m = "shutdown" /\ o = "m"
      BY DEF Frees, PlanStep, FreesOrder, SoundCall
    <3>2. ~RebindNext(todo)
      BY <3>1 DEF RebindNext, Rebinds
    <3> QED
      BY <1>2, <1>3, <1>7, <3>1, <3>2 DEF AtHome
  <2>3. obj'["m"].addr = obj["m"].addr
    BY <1>1, <1>4, <1>7, <2>1, <2>2 DEF Leaves
  <2> QED
    BY <1>7, <2>3 DEF Expected
<1>8. CASE p = obj["b"].addr /\ obj["b"].ok
  <2>1. c.then \notin {"backup", "rolled_back"}
    <3> SUFFICES ASSUME c.then \in {"backup", "rolled_back"} PROVE FALSE
      OBVIOUS
    <3>1. Forks(c) \/ Rebinds(c)
      BY DEF SoundCall, Forks, Rebinds
    <3> QED
      BY <1>8, <3>1 DEF PlanStep, BackupOrder
  <2>2. c.then # "no_backup" /\ ~(c.then = "reset" /\ o = "b")
    BY <1>4, <1>8 DEF PlanStep, Leads
  <2>3. obj'["b"] = ob["b"] \/ obj'["m"] = ob["b"]
    BY <1>1, <2>1, <2>2 DEF Leaves
  <2> QED
    BY <1>1, <1>8, <2>3 DEF Expected
<1>9. CASE p = grand /\ \E i \in 1 .. Len(todo) : Leads(todo[i], "grand_address")
  <2>1. PICK i \in 1 .. n : Leads(todo[i], "grand_address")
    BY <1>5, <1>9
  <2>2. CASE i = 1
    BY <1>1, <1>9, <2>1, <2>2 DEF Leads, Leaves, Expected
  <2>3. CASE i # 1
    <3>1. i \in 2 .. n
      BY <2>3
    <3>2. \E j \in 1 .. Len(todo') : Leads(todo'[j], "grand_address")
      <4> HIDE DEF Back
      <4>1. i - 1 \in 1 .. Len(todo') /\ todo'[i - 1] = todo[i]
        BY <1>5, <1>6, <3>1
      <4> QED
        BY <2>1, <4>1
    <3>3. c.then # "grand"
      BY <1>3, <1>9 DEF PlanStep, ForkedOrder, Leads
    <3> QED
      BY <1>9, <3>2, <3>3 DEF Expected
  <2> QED
    BY <2>2, <2>3
<1>10. CASE call["m"].st = "answered" /\ call["m"].m = "fork" /\ call["m"].res = <<p>>
  <2>1. todo[1].o = "m" /\ todo[1].m = "fork"
    BY <1>10, RequestPlan DEF Users, Clients
  <2>2. v = p /\ Forks(c) /\ c.then \in {"backup", "grand"}
    BY <1>10, <2>1 DEF Forks, PlanStep
  <2>3. CASE c.then = "backup"
    <3>1. obj'["b"].addr = p /\ obj'["b"].ok
      BY <1>1, <2>2, <2>3 DEF Leaves, NewObject
    <3> QED
      BY <3>1 DEF Expected
  <2>4. CASE c.then = "grand"
    <3>1. PICK k \in 1 + 1 .. n : Leads(todo[k], "grand_address")
      BY <1>5, <2>4 DEF PlanStep, ForkedOrder, Leads
    <3>2. k \in 2 .. n
      OBVIOUS
    <3>3. \E j \in 1 .. Len(todo') : Leads(todo'[j], "grand_address")
      <4> HIDE DEF Back
      <4>1. k - 1 \in 1 .. Len(todo') /\ todo'[k - 1] = todo[k]
        BY <1>5, <1>6, <3>2
      <4> QED
        BY <3>1, <4>1
    <3> QED
      BY <2>2, <2>4, <3>3 DEF Expected
  <2> QED
    BY <2>2, <2>3, <2>4
<1>11. p \in Expected(todo, obj, call, grand)
  BY <1>2
<1> QED
  BY <1>7, <1>8, <1>9, <1>10, <1>11 DEF Expected

\* The address of the machine, and whether it is free.
LEMMA BackHome ==
  ASSUME IInv, AInv, NEW c, NEW o, NEW v, NEW ob, Back(c, o, v, ob), todo' = Tail(todo), Live(todo', phase', obj')
  PROVE  AtHome(todo', obj') /\ HomeRebinds(todo') /\ (Freed(todo', call') => HomeFree(proc'))
<1>2. Live(todo, phase, obj) /\ (RebindNext(todo') => Frees(c))
  BY BackLive
<1> USE DEF Back
<1>1. PICK n \in Nat : /\ n = Len(todo) /\ Len(Tail(todo)) = n - 1 /\ Tail(todo) \in Seq(Steps)
                       /\ \A i \in 1 .. n - 1 : Tail(todo)[i] = todo[i + 1]
  BY TailOf
<1>3. AtHome(todo, obj) /\ HomeRebinds(todo) /\ (Freed(todo, call) => HomeFree(proc))
  BY <1>2 DEF AInv, ALive
<1>4. /\ Leaves(c.then, o, v, ob, obj') /\ ob["m"].addr = obj["m"].addr /\ ob["m"].nil = obj["m"].nil
      /\ HomeFree(proc) => HomeFree(proc')
  BY DEF Touched, Clients
<1>5. 1 \in 1 .. n
  BY <1>1
<1>6. AtHome(todo', obj')
  <2>1. CASE c.then \in {"rolled_back", "address"}
    <3>1. Rebinds(c)
      BY <2>1 DEF Rebinds, SoundCall
    <3>2. v = Home
      BY <1>1, <1>3, <1>5, <3>1 DEF HomeRebinds, Rebinds
    <3> QED
      BY <1>4, <2>1, <3>2 DEF Leaves, AtHome
  <2>2. CASE c.then \in {"swap", "grand_address"}
    <3>1. FreesOrder(todo, 1)
      BY <2>2 DEF PlanStep, Frees
    <3>2. 1 < n /\ Rebinds(todo[1 + 1])
      BY <1>1, <3>1 DEF FreesOrder
    <3> HIDE DEF Back
    <3>3. 1 \in 1 .. n - 1 /\ n - 1 # 0
      BY <3>2
    <3>4. todo'[1] = todo[1 + 1]
      BY <1>1, <3>3
    <3>5. Len(todo') # 0
      BY <1>1, <3>3
    <3>6. todo' # <<>>
      BY <3>5
    <3> QED
      BY <3>2, <3>4, <3>6 DEF AtHome, RebindNext
  <2>3. CASE c.then \notin {"rolled_back", "address", "swap", "grand_address"}
    <3>1. ~RebindNext(todo)
      BY <2>3 DEF RebindNext, PlanStep, RebindOrder
    <3>2. obj'["m"].addr = obj["m"].addr /\ obj'["m"].nil = obj["m"].nil
      BY <1>4, <2>3 DEF Leaves
    <3> QED
      BY <1>3, <3>1, <3>2 DEF AtHome
  <2> QED
    BY <2>1, <2>2, <2>3
<1>7. HomeRebinds(todo')
  <2> SUFFICES ASSUME NEW i \in 1 .. n - 1, Rebinds(todo'[i]) PROVE todo'[i].arg = Home
    BY <1>1 DEF HomeRebinds
  <2>0. i + 1 \in 1 .. n
    OBVIOUS
  <2>1. i + 1 \in 1 .. n /\ todo'[i] = todo[i + 1]
    BY <1>1, <2>0
  <2>2. Rebinds(todo[i + 1]) => todo[i + 1].arg = Home
    BY <1>1, <1>3, <2>1 DEF HomeRebinds
  <2> QED
    BY <2>1, <2>2
<1>8. ASSUME Freed(todo', call') PROVE HomeFree(proc')
  <2>1. RebindNext(todo')
    BY <1>8 DEF Freed, RebindNext, Users
  <2>2. Frees(c) /\ o = "m"
    BY <1>2, <2>1 DEF Frees, SoundCall
  <2> QED
    BY <1>3, <1>4, <2>2 DEF Freed
<1> QED
  BY <1>6, <1>7, <1>8

LEMMA CallReturnsAInv ==
  ASSUME IInv, AInv, CallReturns
  PROVE  AInv'
<1>1. PICK c, o, v, ob : Back(c, o, v, ob)
  BY BackFacts
<1>2. IInv'
  BY CallReturnsKeeps
<1>3. AObj(obj') /\ ACall(call', obj', proc') /\ (Live(todo, phase, obj) => SessionsLead(proc', obj'))
  BY <1>1, <1>2, BackObjects
<1>4. AProc(proc') /\ UNCHANGED <<late, phase>> /\ ALate(late) /\ call'["m"].st = "idle"
  BY <1>1 DEF Back, Touched, AInv, Users
<1>5. CASE todo' = Tail(todo)
  <2>1. APlan(todo', phase', obj'["b"].ok, grand') /\ ASpawn(todo', proc')
    BY <1>1, <1>5, BackPlan
  <2>2. ASSUME Live(todo', phase', obj')
        PROVE  /\ Harmless(late') /\ SessionsLead(proc', obj')
               /\ Inheritors(proc') \subseteq Expected(todo', obj', call', grand')
               /\ AtHome(todo', obj') /\ HomeRebinds(todo')
               /\ Freed(todo', call') => HomeFree(proc')
    <3>1. Live(todo, phase, obj)
      BY <1>1, <1>5, <2>2, BackLive
    <3>2. Harmless(late)
      BY <3>1 DEF AInv, ALive
    <3>3. Inheritors(proc') \subseteq Expected(todo', obj', call', grand')
      BY <1>1, <1>5, <3>1, BackExpected
    <3>4. AtHome(todo', obj') /\ HomeRebinds(todo') /\ (Freed(todo', call') => HomeFree(proc'))
      BY <1>1, <1>5, <2>2, BackHome
    <3> QED
      BY <1>3, <1>4, <3>1, <3>2, <3>3, <3>4
  <2>3. ALive(todo', phase', obj', call', proc', late', grand')
    BY <2>2 DEF ALive
  <2> QED
    BY <1>3, <1>4, <2>1, <2>3 DEF AInv
<1>6. CASE todo' # Tail(todo)
  <2>1. c.then = "check" /\ todo' = do_commit \o Local("after") /\ c = todo[1] /\ todo # <<>> /\ c.op = "call"
    BY <1>1, <1>6 DEF Back
  <2>2. phase = "loop" /\ Leads(todo[1], "check")
    BY <1>1, <2>1 DEF Back, PlanStep, Leads
  <2>3. grand' = grand
    BY <1>1, <2>1 DEF Back
  <2>4. /\ Touched(ob, proc', call') /\ Leaves("check", o, v, ob, obj')
    BY <1>1, <2>1 DEF Back
  <2>5. /\ obj'["o"] = ob["o"] /\ obj'["b"] = ob["b"]
        /\ obj'["m"].nil = ob["m"].nil /\ obj'["m"].addr = ob["m"].addr
    BY <2>4 DEF Leaves
  <2>6. obj'["m"].ok = ob["m"].ok
    <3>1. obj' = Returned("check", o, v) /\ ob = AfterAnswer(o)
      <4>1. Head(todo) = todo[1]
        BY <1>1 DEF Back
      <4>2. o = Head(todo).o /\ v = call[o].res[1] /\ Head(todo).then = "check" /\ ob = AfterAnswer(o)
        BY <1>1, <2>1, <4>1 DEF Back
      <4>3. Receive(o, Returned("check", o, v))
        BY <4>2 DEF CallReturns
      <4> QED
        BY <4>2, <4>3 DEF Receive
    <3> QED
      BY <3>1 DEF Returned
  <2>7. Touched(obj', proc', call')
    BY <1>3, <2>4, <2>5, <2>6 DEF Touched, Clients
  <2>8. Piece(todo', phase, obj["b"].ok)
    <3>1. Clears(do_commit, "loop", obj["b"].ok) /\ Closes(Local("after"), "loop")
      BY CommitPiece, Atoms
    <3>2. Takes(do_commit, "loop", obj["b"].ok)
      BY <3>1, Joins
    <3> QED
      BY <2>1, <2>2, <3>1, <3>2, Joins
  <2> QED
    BY <1>4, <2>1, <2>2, <2>3, <2>7, <2>8, NewPlan
<1> QED
  BY <1>5, <1>6

----------------
(* Local steps *)

\* A step of the script that is no call is taken: what it may do to the
\* processes and to the machine's object.
LEMMA TailStep ==
  ASSUME IInv, AInv, todo # <<>>, todo[1].op # "call", todo' = Tail(todo), phase' \in Phases,
         todo[1].op \in {"connect", "start", "loop", "after", "closing", "gc", "ended"} => phase' = todo[1].op,
         todo[1].op = "end" => phase' = "ended",
         todo[1].op \notin {"connect", "start", "loop", "after", "closing", "gc", "ended", "end"} => phase' = phase,
         UNCHANGED <<call, late, grand>>, AProc(proc'), AObj(obj'), ACall(call', obj', proc'), obj'["b"] = obj["b"],
         \/ obj'["m"].addr = obj["m"].addr /\ obj'["m"].nil = obj["m"].nil
         \/ obj'["m"].addr = Home /\ Inheritors(proc') = {},
         Inheritors(proc') \subseteq Inheritors(proc), Live(todo, phase, obj) => SessionsLead(proc', obj')
  PROVE  AInv'
<1>1. PICK n \in Nat : /\ n = Len(todo) /\ Len(Tail(todo)) = n - 1 /\ Tail(todo) \in Seq(Steps) /\ n # 0
                       /\ \A i \in 1 .. n - 1 : Tail(todo)[i] = todo[i + 1]
  BY TailOf DEF IInv, TodoOK
<1>2. todo \in Seq(Steps) /\ APlan(todo, phase, obj["b"].ok, grand)
  BY DEF IInv, TodoOK, AInv
<1>3. ~Drops(todo[1]) /\ ~Backs(todo[1]) /\ ~Leads(todo[1], "grand") /\ ~Frees(todo[1]) /\ ~Rebinds(todo[1])
      /\ ~Leads(todo[1], "grand_address")
  BY DEF Drops, Backs, Leads, Frees, Rebinds
<1>4. APlan(todo', phase', obj'["b"].ok, grand')
  <2>1. /\ todo[1].op = "connect" => phase' = "connect"
        /\ todo[1].op = "start" => phase' = "start"
        /\ todo[1].op \notin {"connect", "start", "loop", "after", "closing", "gc", "ended", "end"} => phase' = phase
    OBVIOUS
  <2>2. APlan(Tail(todo), phase', obj["b"].ok, grand)
    BY <1>2, <1>3, <2>1, PlanTail
  <2> QED
    BY <2>2
<1>5. 1 \in 1 .. n /\ PlanStep(todo, 1, phase, obj["b"].ok, grand)
  BY <1>1, <1>2 DEF APlan
<1>6. ~RebindNext(todo')
  <2> SUFFICES ASSUME RebindNext(todo') PROVE FALSE
    OBVIOUS
  <2>1. n - 1 # 0
    BY <1>1 DEF RebindNext
  <2>2. 1 \in 1 .. n - 1 /\ 1 + 1 \in 1 .. n /\ (1 + 1) - 1 = 1 /\ 1 + 1 # 1
    BY <1>1, <2>1
  <2>3. Rebinds(todo[1 + 1])
    BY <1>1, <2>2 DEF RebindNext
  <2>4. PlanStep(todo, 1 + 1, phase, obj["b"].ok, grand)
    BY <1>1, <1>2, <2>2 DEF APlan
  <2>5. RebindOrder(todo, 1 + 1)
    BY <2>3, <2>4 DEF PlanStep
  <2> QED
    BY <1>3, <2>2, <2>5 DEF RebindOrder
<1>7. ASpawn(todo', proc')
  <2> SUFFICES ASSUME todo' # <<>>, todo'[1].op = "spawn" PROVE FALSE
    BY DEF ASpawn
  <2>1. n - 1 # 0
    BY <1>1
  <2>2. 1 \in 1 .. n - 1 /\ 1 + 1 \in 1 .. n
    BY <1>1, <2>1
  <2>3. todo'[1] = todo[1 + 1]
    BY <1>1, <2>2
  <2> QED
    BY <1>1, <2>2, <2>3 DEF IInv, TodoOK, StepOK
<1>8. Spawning(todo') => Spawning(todo)
  <2> SUFFICES ASSUME Spawning(todo') PROVE Spawning(todo)
    OBVIOUS
  <2>1. PICK k \in 1 .. n - 1 : Tail(todo)[k].op = "connect"
    BY <1>1 DEF Spawning
  <2>2. k + 1 \in 1 .. n /\ todo[k + 1].op = "connect"
    BY <1>1, <2>1
  <2> QED
    BY <1>1, <2>2 DEF Spawning
<1>9. Live(todo', phase', obj') => Live(todo, phase, obj)
  <2> SUFFICES ASSUME Live(todo', phase', obj'), ~Spawning(todo) PROVE Live(todo, phase, obj)
    BY DEF Live
  <2>1. todo[1].op # "connect"
    BY <1>1, <1>5 DEF Spawning
  <2>2. todo[1].op \in {"start", "loop", "after"} => phase \in {"connect", "start", "loop"}
    BY <1>5 DEF PlanStep, PhaseOrder
  <2>3. todo[1].op = "closing" => phase = "after"
    BY <1>5 DEF PlanStep, PhaseOrder
  <2>4. \/ phase' \in {"connect", "start", "loop", "after"}
        \/ phase' = "closing" /\ obj["b"].ok
    BY <1>6, <1>8 DEF Live
  <2>5. CASE phase' = phase
    BY <2>4, <2>5 DEF Live
  <2>6. CASE phase' # phase
    <3>1. todo[1].op \in {"start", "loop", "after", "closing", "gc", "ended", "end"}
      BY <2>1, <2>6
    <3> QED
      BY <2>2, <2>3, <2>4, <3>1 DEF Live
  <2> QED
    BY <2>5, <2>6
<1>10. ASSUME Live(todo', phase', obj')
       PROVE  /\ Harmless(late') /\ SessionsLead(proc', obj')
              /\ Inheritors(proc') \subseteq Expected(todo', obj', call', grand')
              /\ AtHome(todo', obj') /\ HomeRebinds(todo')
              /\ Freed(todo', call') => HomeFree(proc')
  <2>1. Live(todo, phase, obj)
    BY <1>9, <1>10
  <2>2. /\ Harmless(late) /\ Inheritors(proc) \subseteq Expected(todo, obj, call, grand)
        /\ AtHome(todo, obj) /\ HomeRebinds(todo)
    BY <2>1 DEF AInv, ALive
  <2>3. call["m"].st = "idle"
    BY UsersIdle DEF IInv, Users
  <2>4. (\E i \in 1 .. Len(todo) : Leads(todo[i], "grand_address"))
          => \E i \in 1 .. Len(todo') : Leads(todo'[i], "grand_address")
    <3> SUFFICES ASSUME NEW i \in 1 .. n, Leads(todo[i], "grand_address")
                 PROVE  \E j \in 1 .. Len(todo') : Leads(todo'[j], "grand_address")
      BY <1>1
    <3>1. i # 1
      BY <1>3
    <3>2. i - 1 \in 1 .. n - 1 /\ (i - 1) + 1 = i
      BY <3>1
    <3>3. i - 1 \in 1 .. Len(todo') /\ todo'[i - 1] = todo[i]
      BY <1>1, <3>2
    <3> QED
      BY <3>3
  <2>5. Inheritors(proc') \subseteq Expected(todo', obj', call', grand')
    <3>1. CASE Inheritors(proc') = {}
      BY <3>1
    <3>2. CASE obj'["m"].addr = obj["m"].addr
      <4>1. Expected(todo, obj, call, grand) \subseteq Expected(todo', obj', call', grand')
        BY <2>4, <3>2 DEF Expected
      <4> QED
        BY <2>2, <4>1
    <3> QED
      BY <3>1, <3>2
  <2>6. AtHome(todo', obj')
    BY <1>3, <2>2 DEF AtHome, RebindNext
  <2>7. HomeRebinds(todo')
    <3> SUFFICES ASSUME NEW i \in 1 .. n - 1, Rebinds(todo'[i]) PROVE todo'[i].arg = Home
      BY <1>1 DEF HomeRebinds
    <3>1. i + 1 \in 1 .. n /\ todo'[i] = todo[i + 1]
      BY <1>1
    <3>2. Rebinds(todo[i + 1]) => todo[i + 1].arg = Home
      BY <1>1, <2>2, <3>1 DEF HomeRebinds
    <3> QED
      BY <3>1, <3>2
  <2>8. ~Freed(todo', call')
    BY <1>6, <2>3 DEF Freed, RebindNext
  <2> QED
    BY <2>1, <2>2, <2>5, <2>6, <2>7, <2>8
<1>11. ALive(todo', phase', obj', call', proc', late', grand') /\ ALate(late')
  BY <1>10 DEF ALive, AInv
<1> QED
  BY <1>4, <1>7, <1>11 DEF AInv

LEMMA LocalStepAInv ==
  ASSUME IInv, AInv, LocalStep
  PROVE  AInv'
<1>1. CASE Doing("raise") /\ Raise /\ UNCHANGED remoteVars
  <2>1. todo # <<>> /\ todo[1].op = "raise"
    BY <1>1, DoingLocal
  <2>2. UNCHANGED <<proc, obj, call, late>>
    BY <1>1 DEF remoteVars
  <2>3. call["m"].st = "idle"
    BY <2>1, UsersIdle DEF IInv, Users
  <2>4. Touches("m", obj, proc, call) /\ "m" \in Clients
    BY <2>3 DEF Touches, SameSockets, Kept, IInv, Clients
  <2>5. ALate(late) /\ (Live(todo, phase, obj) => Harmless(late))
    BY DEF AInv, ALive
  <2> QED
    BY <1>1, <2>1, <2>2, <2>3, <2>4, <2>5, RaiseAInv
<1>2. ASSUME NEW op, Doing(op), op # "call", op \notin {"connect", "end"}, todo' = Tail(todo), phase' \in Phases,
             op \in {"start", "loop", "after", "closing", "gc", "ended"} => phase' = op,
             op \notin {"start", "loop", "after", "closing", "gc", "ended"} => phase' = phase,
             UNCHANGED grand, UNCHANGED remoteVars
      PROVE  AInv'
  <2>1. todo # <<>> /\ todo[1].op = op
    BY <1>2, DoingLocal
  <2>2. UNCHANGED <<proc, obj, call, late>>
    BY <1>2 DEF remoteVars
  <2>3. /\ AProc(proc) /\ AObj(obj) /\ ACall(call, obj, proc)
        /\ Live(todo, phase, obj) => SessionsLead(proc, obj)
    BY DEF AInv, ALive
  <2> QED
    BY <1>2, <2>1, <2>2, <2>3, TailStep
<1>3. CASE Doing("flush") /\ todo' = Tail(todo) /\ UNCHANGED <<phase, grand>> /\ UNCHANGED remoteVars
  <2>1. phase' \in Phases
    BY <1>3 DEF AInv, APlan
  <2> QED
    BY <1>2, <1>3, <2>1
<1>4. ASSUME NEW ph \in {"start", "loop", "after", "closing", "gc", "ended"}, Doing(ph), phase' = ph,
             todo' = Tail(todo), UNCHANGED <<seen, grand>>, UNCHANGED remoteVars
      PROVE  AInv'
  <2>1. phase' \in Phases /\ ph # "call" /\ ph \notin {"connect", "end"}
    BY <1>4 DEF Phases
  <2> QED
    BY <1>2, <1>4, <2>1
<1> QED
  BY <1>1, <1>3, <1>4 DEF LocalStep

LEMMA SpawnStepAInv ==
  ASSUME IInv, AInv, SpawnStep
  PROVE  AInv'
<1>1. /\ todo' = Tail(todo) /\ UNCHANGED <<call, late, grand>> /\ todo # <<>>
      /\ phase' = CASE Doing("connect") -> "connect" [] Doing("end") -> "ended" [] OTHER -> phase
  BY DEF SpawnStep
<1>2. /\ ProcOK(proc, obj) /\ ObjOK(obj) /\ DOMAIN obj = Clients /\ DOMAIN proc = Pids
      /\ AProc(proc) /\ AObj(obj) /\ ACall(call, obj, proc) /\ phase \in Phases
      /\ Live(todo, phase, obj) => SessionsLead(proc, obj)
  BY DEF IInv, ObjOK, ProcOK, AInv, ALive, APlan
<1>3. ASSUME NEW op, Doing(op), op \in {"spawn", "kill", "terminate", "wait", "connect", "end"},
             AProc(proc'), AObj(obj'), ACall(call, obj', proc'), obj'["b"] = obj["b"],
             \/ obj'["m"].addr = obj["m"].addr /\ obj'["m"].nil = obj["m"].nil
             \/ obj'["m"].addr = Home /\ Inheritors(proc') = {},
             Inheritors(proc') \subseteq Inheritors(proc), Live(todo, phase, obj) => SessionsLead(proc', obj')
      PROVE  AInv'
  <2>1. todo[1].op = op
    BY <1>3, DoingLocal
  <2>2. Head(todo) = todo[1]
    BY DEF IInv, TodoOK
  <2>3. phase' = CASE op = "connect" -> "connect" [] op = "end" -> "ended" [] OTHER -> phase
    BY <1>1, <2>1, <2>2 DEF Doing
  <2>4. phase' \in Phases
    BY <1>2, <2>3 DEF Phases
  <2> QED
    BY <1>1, <1>3, <2>1, <2>3, <2>4, TailStep
<1>4. ASSUME NEW p \in Pids, Wound(proc, proc', p), UNCHANGED obj, NEW op, Doing(op),
             op \in {"kill", "terminate"}
      PROVE  AInv'
  <2>1. ACall(call, obj, proc')
    BY <1>2, <1>4, AgesCall DEF Wound
  <2>2. Live(todo, phase, obj) => SessionsLead(proc', obj)
    BY <1>2, <1>4 DEF Wound, SessionsLead
  <2> QED
    BY <1>2, <1>3, <1>4, <2>1, <2>2 DEF Wound
<1>5. ASSUME \A q \in Pids : proc'[q] = proc[q], UNCHANGED obj, NEW op, Doing(op),
             op \in {"kill", "terminate", "wait", "end"}
      PROVE  AInv'
  <2>1. SameSockets(proc, proc') /\ Ages(proc, proc')
    BY <1>5 DEF SameSockets, Ages
  <2>2. AProc(proc') /\ Inheritors(proc') = Inheritors(proc)
    BY <1>2, <2>1, SameSocketsProc
  <2>3. ACall(call, obj, proc')
    BY <1>2, <2>1, AgesCall
  <2>4. Live(todo, phase, obj) => SessionsLead(proc', obj)
    BY <1>2, <1>5 DEF SessionsLead
  <2> QED
    BY <1>2, <1>3, <1>5, <2>2, <2>3, <2>4
<1>6. CASE /\ Doing("spawn")
           /\ proc' = [proc EXCEPT ![1] = [NoProcess EXCEPT !.st = "up", !.addr = Home]]
           /\ obj' = [obj EXCEPT !["m"] = NewObject(Home)]
  <2> DEFINE x == [NoProcess EXCEPT !.st = "up", !.addr = Home]
  <2>1. todo[1].op = "spawn"
    BY <1>6, DoingLocal
  <2>2. \A p \in Pids : proc[p].st = "none"
    BY <1>1, <2>1 DEF AInv, ASpawn
  <2>3. \A p \in Pids : proc[p].addr = Closed /\ proc[p].sess = {}
    BY <1>2, <2>2 DEF AProc, ProcOK, ProcessOK
  <2>4. x.st = "up" /\ x.addr = Home /\ x.inherits = {} /\ x.sess = {}
    BY DEF NoProcess
  <2>5. proc' = [proc EXCEPT ![1] = x]
    BY <1>6
  <2> HIDE DEF x
  <2>6. proc'[1] = x /\ \A q \in Pids : q # 1 => proc'[q] = proc[q]
    BY <1>2, <2>5, OneIsPid, UpdateFacts
  <2>7. AProc(proc')
    <3>1. Fits(proc, 1, x)
      BY <2>2, <2>4 DEF Fits, Runs
    <3>2. AProc([proc EXCEPT ![1] = x])
      BY <1>2, <3>1, OneIsPid, OneProcess
    <3> QED
      BY <2>5, <3>2
  <2>8. /\ obj'["m"] = NewObject(Home) /\ obj'["b"] = obj["b"] /\ obj'["o"] = obj["o"]
        /\ NewObject(Home).addr = Home /\ NewObject(Home).srv = 0
    BY <1>2, <1>6 DEF NewObject, Clients
  <2>9. AObj(obj')
    BY <1>2, <2>8 DEF AObj, Clients
  <2>10. ACall(call, obj', proc')
    <3> SUFFICES ASSUME NEW o \in Clients, call[o].st # "idle" PROVE FALSE
      BY DEF ACall
    <3>1. obj[o].srv # 0 /\ proc[obj[o].srv].st # "none"
      BY <1>2 DEF ACall
    <3>2. obj[o].srv \in Pids
      BY <1>2, <3>1 DEF ObjOK, ObjectOK
    <3> QED
      BY <2>2, <3>1, <3>2
  <2>11. Inheritors(proc') = {}
    BY <2>2, <2>4, <2>6 DEF Inheritors
  <2>12. SessionsLead(proc', obj')
    BY <2>3, <2>4, <2>6 DEF SessionsLead
  <2> QED
    BY <1>3, <1>6, <2>7, <2>8, <2>9, <2>10, <2>11, <2>12
<1>7. CASE Doing("kill") /\ proc' = (IF grand = 0 THEN proc ELSE Killed(grand)) /\ UNCHANGED obj
  <2> DEFINE x == [NoProcess EXCEPT !.st = "gone"]
  <2>1. CASE grand = 0 \/ grand \notin Pids \/ proc[grand].st = "none"
    <3>1. \A q \in Pids : proc'[q] = proc[q]
      BY <1>2, <1>7, <2>1 DEF Killed
    <3> QED
      BY <1>5, <1>7, <3>1
  <2>2. CASE grand # 0 /\ grand \in Pids /\ proc[grand].st # "none"
    <3>2. grand \in Pids /\ proc[grand].st # "none" /\ proc' = [proc EXCEPT ![grand] = x]
      BY <1>2, <1>7, <2>2 DEF Killed
    <3>3. x.st = "gone" /\ x.addr = Closed /\ x.sess = {}
      BY DEF NoProcess
    <3> HIDE DEF x
    <3>4. Winds(proc[grand], x)
      BY <3>2, <3>3 DEF Winds
    <3>5. Wound(proc, proc', grand)
      BY <1>2, <3>2, <3>4, WindsProc
    <3> QED
      BY <1>4, <1>7, <3>2, <3>5
  <2> QED
    BY <2>1, <2>2
<1>8. CASE Doing("terminate") /\ proc' = Terminated(1) /\ UNCHANGED obj
  <2> DEFINE x == close_sessions(close_acceptor(proc[1]), {})
  <2>1. CASE proc[1].st = "none"
    <3>1. \A q \in Pids : proc'[q] = proc[q]
      BY <1>2, <1>8, <2>1, OneIsPid DEF Terminated
    <3> QED
      BY <1>5, <1>8, <3>1
  <2>2. CASE proc[1].st # "none"
    <3>1. proc[1].st # "none" /\ proc' = [proc EXCEPT ![1] = x]
      BY <1>2, <1>8, <2>2, OneIsPid DEF Terminated
    <3>2. DOMAIN proc[1] = ProcFields /\ proc[1].st \in {"up", "gone"} /\ (proc[1].st = "up" => proc[1].inherits = {})
      BY <1>2, <3>1, OneIsPid DEF ProcOK, ProcessOK, AProc
    <3>3. x.st = proc[1].st /\ x.addr = Closed /\ x.sess = {} /\ x.inherits = proc[1].inherits
      BY <3>2 DEF close_sessions, close_acceptor, ProcFields
    <3> HIDE DEF x
    <3>4. Winds(proc[1], x)
      BY <3>1, <3>2, <3>3 DEF Winds
    <3>5. Wound(proc, proc', 1)
      BY <1>2, <3>1, <3>4, OneIsPid, WindsProc
    <3> QED
      BY <1>4, <1>8, <3>5, OneIsPid
  <2> QED
    BY <2>1, <2>2
<1>9. CASE (Doing("wait") \/ Doing("end")) /\ UNCHANGED <<proc, obj>>
  BY <1>5, <1>9
<1>10. CASE Doing("connect") /\ obj' = [obj EXCEPT !["m"] = NewObject(obj["m"].addr)] /\ UNCHANGED proc
  <2>1. todo[1].op = "connect" /\ todo \in Seq(Steps) /\ TodoOK(todo, obj)
    BY <1>10, DoingLocal
  <2>2. ~obj["m"].nil /\ Released(todo, 1, obj)
    BY <1>1, <2>1 DEF TodoOK, StepOK
  <2>3. obj["m"].srv = 0
    BY <2>2 DEF Released
  <2> DEFINE y == NewObject(obj["m"].addr)
  <2>4. y.addr = obj["m"].addr /\ y.srv = 0 /\ ~y.nil
    BY DEF NewObject
  <2>5. obj'["m"] = y /\ obj'["b"] = obj["b"] /\ obj'["o"] = obj["o"]
    BY <1>2, <1>10 DEF Clients
  <2> HIDE DEF y
  <2>6. obj["m"].nil = FALSE /\ y.nil = FALSE
    <3>1. obj["m"].nil \in BOOLEAN
      BY <1>2 DEF ObjOK, ObjectOK, Clients
    <3> QED
      BY <2>2, <3>1 DEF y, NewObject
  <2>7. AObj(obj')
    BY <1>2, <2>4, <2>5 DEF AObj, Clients
  <2>8. call["m"].st = "idle"
    BY <1>1, <2>1, UsersIdle DEF IInv, Users
  <2>9. ACall(call, obj', proc)
    BY <1>2, <2>5, <2>8 DEF ACall, Clients
  <2>10. ASSUME Live(todo, phase, obj) PROVE SessionsLead(proc, obj')
    <3> SUFFICES ASSUME NEW p \in Pids, NEW o \in proc[p].sess PROVE proc[p].addr = obj'[o].ep
      BY DEF SessionsLead
    <3>1. o \in Clients /\ obj[o].srv = p /\ p # 0 /\ proc[p].addr = obj[o].ep
      BY <1>2, <2>10, AddressFacts DEF ProcOK, ProcessOK, SessionsLead
    <3>2. o # "m"
      BY <2>3, <3>1
    <3> QED
      BY <2>5, <3>1, <3>2 DEF Clients
  <2> QED
    BY <1>2, <1>3, <1>10, <2>4, <2>5, <2>6, <2>7, <2>9, <2>10
<1> QED
  BY <1>6, <1>7, <1>8, <1>9, <1>10 DEF SpawnStep

----------------
(* The address a rebind asks for is free *)

LocalRecord(op) == [op |-> op]
CallRecord(m, arg, keep, then) == [op |-> "call", o |-> "m", m |-> m, arg |-> arg, keep |-> keep, then |-> then]
SpawnList ==
  <<LocalRecord("spawn"), CallRecord("get_version", Closed, FALSE, "none"), CallRecord("fork", Closed, TRUE, "grand"),
    CallRecord("shutdown", Closed, FALSE, "grand_address"), CallRecord("rebind", Home, FALSE, "address"),
    LocalRecord("terminate"), LocalRecord("wait"), LocalRecord("connect"),
    CallRecord("get_version", Closed, FALSE, "none"), LocalRecord("start"),
    CallRecord("create", Closed, TRUE, "none"), LocalRecord("loop")>>

LEMMA SpawnLists == Lists(Steps, SpawnSteps, 12, SpawnList)
<1> DEFINE td == SpawnList
           s1 == <<td[1]>>
           s2 == s1 \o <<td[2]>>
           s3 == s2 \o <<td[3]>>
           s4 == s3 \o <<td[4]>>
           s5 == s4 \o <<td[5]>>
           s6 == s5 \o <<td[6]>>
           s7 == s6 \o <<td[7]>>
           s8 == s7 \o <<td[8]>>
           s9 == s8 \o <<td[9]>>
           s10 == s9 \o <<td[10]>>
           s11 == s10 \o <<td[11]>>
           s12 == s11 \o <<td[12]>>
<1>1. SpawnSteps = s12
  BY DEF SpawnSteps, Call, Local, SpawnList, LocalRecord, CallRecord
<1>2. /\ CallRecord("get_version", Closed, FALSE, "none") \in CallSteps
      /\ CallRecord("fork", Closed, TRUE, "grand") \in CallSteps
      /\ CallRecord("shutdown", Closed, FALSE, "grand_address") \in CallSteps
      /\ CallRecord("rebind", Home, FALSE, "address") \in CallSteps
      /\ CallRecord("create", Closed, TRUE, "none") \in CallSteps
  BY AddressFacts DEF CallRecord, CallSteps, CallRecords, SoundCall, Users, Methods, Thens
<1>3. \A op \in LocalOps \cup SpawnOps : LocalRecord(op) \in Steps
  BY DEF LocalRecord, Steps
<1>4. td[1] \in Steps /\ td[2] \in Steps /\ td[3] \in Steps /\ td[4] \in Steps /\ td[5] \in Steps /\ td[6] \in Steps
      /\ td[7] \in Steps /\ td[8] \in Steps /\ td[9] \in Steps /\ td[10] \in Steps /\ td[11] \in Steps /\ td[12] \in Steps
  BY <1>2, <1>3 DEF SpawnList, Steps, LocalOps, SpawnOps
<1> HIDE DEF td, s2, s3, s4, s5, s6, s7, s8, s9, s10, s11, s12
<1>5. Lists(Steps, s1, 1, td)
  BY <1>4 DEF Lists
<1> HIDE DEF s1
<1>6. Lists(Steps, s2, 2, td)
  <2>1. Lists(Steps, s1 \o <<td[2]>>, 1 + 1, td)
    BY <1>4, <1>5, ListsOneMore
  <2> QED
    BY <2>1 DEF s2
<1>7. Lists(Steps, s3, 3, td)
  <2>1. Lists(Steps, s2 \o <<td[3]>>, 2 + 1, td)
    BY <1>4, <1>6, ListsOneMore
  <2> QED
    BY <2>1 DEF s3
<1>8. Lists(Steps, s4, 4, td)
  <2>1. Lists(Steps, s3 \o <<td[4]>>, 3 + 1, td)
    BY <1>4, <1>7, ListsOneMore
  <2> QED
    BY <2>1 DEF s4
<1>9. Lists(Steps, s5, 5, td)
  <2>1. Lists(Steps, s4 \o <<td[5]>>, 4 + 1, td)
    BY <1>4, <1>8, ListsOneMore
  <2> QED
    BY <2>1 DEF s5
<1>10. Lists(Steps, s6, 6, td)
  <2>1. Lists(Steps, s5 \o <<td[6]>>, 5 + 1, td)
    BY <1>4, <1>9, ListsOneMore
  <2> QED
    BY <2>1 DEF s6
<1>11. Lists(Steps, s7, 7, td)
  <2>1. Lists(Steps, s6 \o <<td[7]>>, 6 + 1, td)
    BY <1>4, <1>10, ListsOneMore
  <2> QED
    BY <2>1 DEF s7
<1>12. Lists(Steps, s8, 8, td)
  <2>1. Lists(Steps, s7 \o <<td[8]>>, 7 + 1, td)
    BY <1>4, <1>11, ListsOneMore
  <2> QED
    BY <2>1 DEF s8
<1>13. Lists(Steps, s9, 9, td)
  <2>1. Lists(Steps, s8 \o <<td[9]>>, 8 + 1, td)
    BY <1>4, <1>12, ListsOneMore
  <2> QED
    BY <2>1 DEF s9
<1>14. Lists(Steps, s10, 10, td)
  <2>1. Lists(Steps, s9 \o <<td[10]>>, 9 + 1, td)
    BY <1>4, <1>13, ListsOneMore
  <2> QED
    BY <2>1 DEF s10
<1>15. Lists(Steps, s11, 11, td)
  <2>1. Lists(Steps, s10 \o <<td[11]>>, 10 + 1, td)
    BY <1>4, <1>14, ListsOneMore
  <2> QED
    BY <2>1 DEF s11
<1>16. Lists(Steps, s12, 12, td)
  <2>1. Lists(Steps, s11 \o <<td[12]>>, 11 + 1, td)
    BY <1>4, <1>15, ListsOneMore
  <2> QED
    BY <2>1 DEF s12
<1> QED
  BY <1>1, <1>16 DEF td

LEMMA SpawnFields ==
  /\ SpawnSteps \in Seq(Steps) /\ Len(SpawnSteps) = 12
  /\ SpawnSteps[1].op = "spawn" /\ SpawnSteps[6].op = "terminate" /\ SpawnSteps[7].op = "wait" /\ SpawnSteps[8].op = "connect"
  /\ SpawnSteps[10].op = "start" /\ SpawnSteps[12].op = "loop"
  /\ SpawnSteps[2].op = "call" /\ SpawnSteps[2].m = "get_version" /\ SpawnSteps[2].then = "none" /\ SpawnSteps[2].o = "m"
  /\ SpawnSteps[3].op = "call" /\ SpawnSteps[3].m = "fork" /\ SpawnSteps[3].then = "grand" /\ SpawnSteps[3].o = "m"
  /\ SpawnSteps[4].op = "call" /\ SpawnSteps[4].m = "shutdown" /\ SpawnSteps[4].then = "grand_address" /\ SpawnSteps[4].o = "m"
  /\ SpawnSteps[5].op = "call" /\ SpawnSteps[5].m = "rebind" /\ SpawnSteps[5].then = "address" /\ SpawnSteps[5].o = "m" /\ ~SpawnSteps[5].keep
  /\ SpawnSteps[5].arg = Home
  /\ SpawnSteps[9].op = "call" /\ SpawnSteps[9].m = "get_version" /\ SpawnSteps[9].then = "none" /\ SpawnSteps[9].o = "m"
  /\ SpawnSteps[11].op = "call" /\ SpawnSteps[11].m = "create" /\ SpawnSteps[11].then = "none" /\ SpawnSteps[11].o = "m"
<1> DEFINE td == SpawnSteps
<1>1. td \in Seq(Steps) /\ Len(td) = 12 /\ \A i \in 1 .. 12 : td[i] = SpawnList[i]
  BY SpawnLists DEF Lists
<1>21. /\ td[1] = SpawnList[1] /\ td[2] = SpawnList[2] /\ td[3] = SpawnList[3] /\ td[4] = SpawnList[4]
       /\ td[5] = SpawnList[5] /\ td[6] = SpawnList[6] /\ td[7] = SpawnList[7] /\ td[8] = SpawnList[8]
       /\ td[9] = SpawnList[9] /\ td[10] = SpawnList[10] /\ td[11] = SpawnList[11] /\ td[12] = SpawnList[12]
  BY <1>1
<1>2. /\ td[1] = LocalRecord("spawn") /\ td[2] = CallRecord("get_version", Closed, FALSE, "none")
      /\ td[3] = CallRecord("fork", Closed, TRUE, "grand")
      /\ td[4] = CallRecord("shutdown", Closed, FALSE, "grand_address")
      /\ td[5] = CallRecord("rebind", Home, FALSE, "address")
      /\ td[6] = LocalRecord("terminate") /\ td[7] = LocalRecord("wait") /\ td[8] = LocalRecord("connect")
      /\ td[9] = CallRecord("get_version", Closed, FALSE, "none")
      /\ td[10] = LocalRecord("start") /\ td[11] = CallRecord("create", Closed, TRUE, "none")
      /\ td[12] = LocalRecord("loop")
  BY <1>21 DEF SpawnList
<1>4. /\ td[1].op = "spawn" /\ td[6].op = "terminate" /\ td[7].op = "wait" /\ td[8].op = "connect"
      /\ td[10].op = "start" /\ td[12].op = "loop"
  BY <1>2 DEF LocalRecord
<1>5. /\ td[2].op = "call" /\ td[2].m = "get_version" /\ td[2].then = "none" /\ td[2].o = "m"
      /\ td[3].op = "call" /\ td[3].m = "fork" /\ td[3].then = "grand" /\ td[3].o = "m"
      /\ td[4].op = "call" /\ td[4].m = "shutdown" /\ td[4].then = "grand_address" /\ td[4].o = "m"
      /\ td[5].op = "call" /\ td[5].m = "rebind" /\ td[5].then = "address" /\ td[5].o = "m" /\ ~td[5].keep
      /\ td[5].arg = Home
      /\ td[9].op = "call" /\ td[9].m = "get_version" /\ td[9].then = "none" /\ td[9].o = "m"
      /\ td[11].op = "call" /\ td[11].m = "create" /\ td[11].then = "none" /\ td[11].o = "m"
  BY <1>2 DEF CallRecord
<1> QED
  BY <1>1, <1>4, <1>5

\* The plan the script starts with.
LEMMA SpawnPlan == APlan(SpawnSteps, "spawn", FALSE, 0) /\ HomeRebinds(SpawnSteps) /\ ~RebindNext(SpawnSteps)
<1> DEFINE td == SpawnSteps
<1>1. td \in Seq(Steps) /\ Len(td) = 12
  BY SpawnFields
<1>3. \A i \in 1 .. 12 : i \in {1, 2, 3, 4, 5, 6, 7, 8, 9, 10, 11, 12}
  OBVIOUS
<1>4. /\ td[1].op = "spawn" /\ td[6].op = "terminate" /\ td[7].op = "wait" /\ td[8].op = "connect"
      /\ td[10].op = "start" /\ td[12].op = "loop"
  BY SpawnFields
<1>5. /\ td[2].op = "call" /\ td[2].m = "get_version" /\ td[2].then = "none" /\ td[2].o = "m"
      /\ td[3].op = "call" /\ td[3].m = "fork" /\ td[3].then = "grand" /\ td[3].o = "m"
      /\ td[4].op = "call" /\ td[4].m = "shutdown" /\ td[4].then = "grand_address" /\ td[4].o = "m"
      /\ td[5].op = "call" /\ td[5].m = "rebind" /\ td[5].then = "address" /\ td[5].o = "m" /\ ~td[5].keep
      /\ td[5].arg = Home
      /\ td[9].op = "call" /\ td[9].m = "get_version" /\ td[9].then = "none" /\ td[9].o = "m"
      /\ td[11].op = "call" /\ td[11].m = "create" /\ td[11].then = "none" /\ td[11].o = "m"
  BY SpawnFields
<1> HIDE DEF td
<1>7. /\ \A i \in 1 .. 12 : Rebinds(td[i]) => i = 5
      /\ \A i \in 1 .. 12 : Forks(td[i]) => i = 3
      /\ \A i \in 1 .. 12 : Frees(td[i]) => i = 4
      /\ \A i \in 1 .. 12 : Leads(td[i], "grand_address") => i = 4
      /\ \A i \in 1 .. 12 : Leads(td[i], "grand") => i = 3
      /\ \A i \in 1 .. 12 : ~Leads(td[i], "check") /\ ~Leads(td[i], "no_backup") /\ ~Backs(td[i])
      /\ Rebinds(td[5]) /\ Frees(td[4]) /\ Leads(td[3], "grand") /\ Leads(td[4], "grand_address")
  BY <1>3, <1>4, <1>5 DEF Rebinds, Forks, Frees, Leads, Backs
<1>8. Spawning(td)
  BY <1>1, <1>4 DEF Spawning
<1>9. 0 \notin Pids
  BY AddressFacts
<1>10. \A i \in 1 .. 12 : Rebinds(td[i]) => RebindOrder(td, i)
  BY <1>5, <1>7 DEF RebindOrder
<1>11. \A i \in 1 .. 12 : Frees(td[i]) => FreesOrder(td, i)
  BY <1>1, <1>5, <1>7 DEF FreesOrder
<1>12. \A i \in 1 .. 12 : Leads(td[i], "grand_address") => GrandOrder(td, i, 0)
  BY <1>7, <1>8 DEF GrandOrder
<1>13. \A i \in 1 .. 12 : Leads(td[i], "grand") => ForkedOrder(td, i, 0)
  BY <1>1, <1>7, <1>9 DEF ForkedOrder
<1>14. \A i \in 1 .. 12 : BackupOrder(td, i, FALSE)
  BY <1>7 DEF BackupOrder
<1>15. Simple(td[9]) /\ Simple(td[10]) /\ Simple(td[11]) /\ Simple(td[12])
  BY <1>4, <1>5, <1>7 DEF Simple, Leads
<1>16. \A i \in 1 .. 12 : PhaseOrder(td, i, "spawn")
  <2>1. \A i \in 1 .. 12 :
          /\ td[i].op \notin {"after", "closing", "gc", "ended", "end"}
          /\ td[i].op = "loop" => i = 12
          /\ td[i].op \in {"connect", "start"} => i = 8 \/ i = 10
    BY <1>3, <1>4, <1>5
  <2>2. \A i \in 1 .. 12 : i = 8 \/ i = 10 => \A j \in i + 1 .. 12 : j \in {9, 10, 11, 12}
    OBVIOUS
  <2> QED
    BY <1>1, <1>8, <1>15, <2>1, <2>2 DEF PhaseOrder
<1>17. \A i \in 1 .. 12 : PlanStep(td, i, "spawn", FALSE, 0)
  BY <1>5, <1>7, <1>8, <1>10, <1>11, <1>12, <1>13, <1>14, <1>16 DEF PlanStep
<1>18. APlan(td, "spawn", FALSE, 0)
  BY <1>1, <1>17 DEF APlan, Phases
<1>19. HomeRebinds(td)
  BY <1>1, <1>5, <1>7 DEF HomeRebinds
<1>20. ~RebindNext(td)
  BY <1>7 DEF RebindNext
<1> QED
  BY <1>18, <1>19, <1>20 DEF td

LEMMA InitAInv ==
  ASSUME Init
  PROVE  AInv
<1>1. /\ obj["m"] = NilObject /\ obj["b"] = NilObject /\ obj["o"] = NewObject(Home) /\ todo = SpawnSteps
      /\ phase = "spawn" /\ grand = 0 /\ late = {} /\ \A o \in Clients : call[o].st = "idle"
  BY IdleField DEF Init, Clients
<1>2. \A p \in Pids : proc[p].st = "none" /\ proc[p].addr = Closed /\ proc[p].sess = {}
  BY DEF Init, NoProcess
<1>3. /\ NilObject.ok = FALSE /\ NilObject.nil = TRUE /\ NilObject.srv = 0
      /\ NewObject(Home).addr = Home /\ NewObject(Home).ep = Closed /\ NewObject(Home).srv = 0
  BY DEF NilObject, NewObject
<1>4. APlan(todo, phase, obj["b"].ok, grand)
  BY <1>1, <1>3, SpawnPlan
<1>5. AProc(proc)
  BY <1>2, OneIsPid DEF AProc, Runs
<1>6. AObj(obj)
  BY <1>1, <1>3 DEF AObj, Clients
<1>7. ACall(call, obj, proc)
  BY <1>1 DEF ACall
<1>8. ALive(todo, phase, obj, call, proc, late, grand)
  <2>1. Harmless(late) /\ SessionsLead(proc, obj) /\ Inheritors(proc) = {}
    BY <1>1, <1>2 DEF Harmless, SessionsLead, Inheritors
  <2>2. AtHome(todo, obj) /\ HomeRebinds(todo)
    BY <1>1, <1>3, SpawnPlan DEF AtHome
  <2>3. HomeFree(proc)
    BY <1>2 DEF HomeFree, Runs
  <2> QED
    BY <2>1, <2>2, <2>3 DEF ALive
<1>9. ASpawn(todo, proc) /\ ALate(late)
  BY <1>1, <1>2 DEF ASpawn, ALate
<1> QED
  BY <1>4, <1>5, <1>6, <1>7, <1>8, <1>9 DEF AInv

LEMMA NextAInv ==
  ASSUME IInv, AInv, [Next]_vars
  PROVE  AInv'
<1>1. CASE Script
  BY <1>1, CallSendAInv, CallReturnsAInv, CallFailsAInv, LocalStepAInv, SpawnStepAInv, LoopAInv, ClosersAInv DEF Script
<1>2. CASE Observer
  BY <1>2, ObserverAInv
<1>3. CASE \E p \in Pids : \E o \in Clients : Handle(p, o)
  BY <1>3, HandleAInv
<1>4. CASE \E p \in Pids : Child(p) \/ Leave(p) \/ (Crash(p) /\ UNCHANGED scriptVars)
  BY <1>4, ChildAInv, EndAInv
<1>5. CASE \E c \in late : HandleLate(c, LateContents(c)) /\ UNCHANGED scriptVars
  BY <1>5, LateAInv
<1>6. CASE UNCHANGED vars
  <2>1. UNCHANGED <<proc, obj, call, late, todo, phase, grand>>
    BY <1>6 DEF vars
  <2> QED
    BY <2>1 DEF AInv
<1> QED
  BY <1>1, <1>2, <1>3, <1>4, <1>5, <1>6 DEF Next

LEMMA AddressIsFree ==
  ASSUME IInv, AInv
  PROVE  AddressFree
<1> SUFFICES ASSUME NEW o \in Clients, call[o].st = "sent", call[o].m = "rebind",
                    NEW p \in Pids, o \notin proc[p].sess, Holds(p, call[o].arg)
             PROVE  FALSE
  BY DEF AddressFree
<1>1. /\ o = "m" /\ Live(todo, phase, obj) /\ call[o].arg = Home /\ Rebinds(todo[1]) /\ todo # <<>>
  BY RebindLive
<1>2. /\ HomeFree(proc) /\ Inheritors(proc) \subseteq Expected(todo, obj, call, grand)
  BY <1>1 DEF AInv, ALive, Freed
<1>3. proc[p].st = "child" /\ p \in Inheritors(proc)
  BY <1>1, <1>2 DEF Holds, Alive, HomeFree, Runs, AInv, AProc, Inheritors
<1>4. PlanStep(todo, 1, phase, obj["b"].ok, grand) /\ Len(todo) \in Nat \ {0}
  BY <1>1, RequestPlan DEF Users
<1>5. p # obj["m"].addr
  <2> SUFFICES ASSUME p = obj["m"].addr PROVE FALSE
    OBVIOUS
  <2>1. obj["m"].srv # 0 /\ obj["m"].ep = p /\ (proc[obj["m"].srv].st = "child" => "m" \in proc[obj["m"].srv].sess)
    BY <1>1 DEF AInv, ACall
  <2>2. obj["m"].srv = p
    BY <1>1, <2>1 DEF AInv, AObj
  <2> QED
    BY <1>1, <1>3, <2>1, <2>2
<1>6. ~obj["b"].ok
  BY <1>1, <1>4 DEF PlanStep, BackupOrder
<1>7. ASSUME NEW i \in 1 .. Len(todo), Leads(todo[i], "grand_address") PROVE FALSE
  <2>1. GrandOrder(todo, i, grand)
    BY <1>7 DEF AInv, APlan, PlanStep
  <2>2. i # 1
    BY <1>1, <1>4, <1>7 DEF PlanStep, RebindOrder, Leads
  <2>3. 1 \in 1 .. i - 1
    BY <1>4, <2>2
  <2> QED
    BY <1>1, <2>1, <2>3 DEF GrandOrder
<1> QED
  BY <1>1, <1>2, <1>3, <1>5, <1>6, <1>7 DEF Expected

\* The plan of the script fits what it has left behind: before every rebind
\* the server that had the address was shut down, no fork has a backup that
\* still answers, the sessions lead to where their servers listen, and the
\* only children that still hold a copy of the user's acceptor are the ones
\* the script is about to talk to (do_rollback, do_snapshot, the spawning
\* constructor, jsonrpc_fork_handler).
THEOREM ScriptInvariant == Spec => []AInv
<1>1. Init => AInv
  BY InitAInv
<1>2. IInv /\ AInv /\ [Next]_vars => AInv'
  BY NextAInv
<1> QED
  BY <1>1, <1>2, InductiveInvariant, PTL DEF Spec

\* A rebind never finds the address in use by one of the system's own
\* processes, for any number of servers, inputs and faults, whichever calls
\* are lost or carried out late (jsonrpc_shutdown_handler closes the acceptor
\* before it answers, jsonrpc_fork_handler closes the inherited one before
\* the child serves).
THEOREM AddressIsFreeToRebind == Spec => []AddressFree
<1>1. IInv /\ AInv => AddressFree
  BY AddressIsFree
<1> QED
  BY <1>1, InductiveInvariant, ScriptInvariant, PTL

----------------
(* Verdicts and outputs *)

HasFlush(td) == \E i \in 1 .. Len(td) : td[i].op = "flush"
LeadsOut(td) == td # <<>> /\ td[Len(td)].op \in {"after", "raise"}
PendingOf(pe, x) == \A k \in 1 .. Len(pe) : pe[k] = <<x, k>>

\* The loop starts with nothing judged, a plan is checked at its end, and only
\* the commit comes before the flush.
OStep(td, i, nx, pe) ==
  /\ td[i].op = "loop" => nx = 0 /\ pe = <<>>
  /\ Leads(td[i], "check") => i = Len(td)
  /\ td[i].op = "flush" => /\ \A j \in i + 1 .. Len(td) : td[j].op # "flush"
                           /\ \A j \in 1 .. i - 1 : Leads(td[j], "no_backup")
OPlan(td, nx, pe) == \A i \in 1 .. Len(td) : OStep(td, i, nx, pe)

\* One verdict for each input before the next, and perhaps one for that.
OCount(nx, vd, n) ==
  /\ nx \in 0 .. n \cup {Query}
  /\ nx = 0 => Len(vd) = 0
  /\ nx \in 1 .. n => Len(vd) \in {nx - 1, nx} /\ \A i \in 1 .. nx - 1 : vd[i] # "other"
  /\ nx = Query => Len(vd) = n

\* The buffer holds the outputs of the next input, or of the one before while
\* they wait to be flushed; what is saved is older.
OBuffer(td, ph, nx, pe, vd, sa, n) ==
  /\ HasFlush(td) => /\ nx \in 1 .. n /\ nx - 1 \in 1 .. n /\ vd[nx - 1] = "accepted" /\ PendingOf(pe, nx - 1)
                     /\ \A k \in 1 .. Len(sa) : sa[k][1] < nx - 1
  /\ (ph = "loop" /\ ~HasFlush(td)) => PendingOf(pe, nx) /\ (nx \notin 1 .. n => pe = <<>>)
  /\ \A k \in 1 .. Len(sa) : sa[k][1] < nx
  /\ (ph = "loop" /\ nx \in 1 .. n /\ Len(vd) = nx) => LeadsOut(td)

In(t, s) == \E k \in 1 .. Len(s) : s[k] = t
JudgedAs(vd, i, v) == i \in 1 .. Len(vd) /\ vd[i] = v
OKept(em, pe, sa, vd) ==
  \A t \in em : /\ JudgedAs(vd, t[1], "accepted") => In(t, sa) \/ In(t, pe)
                /\ t[1] \notin 1 .. Len(vd) => In(t, pe)
Sorted(sa) ==
  \A k, l \in 1 .. Len(sa) :
     k < l => sa[k][1] < sa[l][1] \/ (sa[k][1] = sa[l][1] /\ sa[k][2] < sa[l][2])
OSaved(sa, re, vd) ==
  /\ \A k \in 1 .. Len(sa) : JudgedAs(vd, sa[k][1], "accepted")
  /\ \A k \in 1 .. Len(re) : JudgedAs(vd, re[k][1], "rejected")
  /\ Sorted(sa)
OTypes(vd, pe, sa, re) ==
  vd \in Seq(Manual) /\ pe \in Seq(Nat \X Nat) /\ sa \in Seq(Nat \X Nat) /\ re \in Seq(Nat \X Nat)

OInv ==
  /\ OTypes(verdicts, pending, saved, rejected)
  /\ OPlan(todo, next, pending) /\ OCount(next, verdicts, Inputs)
  /\ OBuffer(todo, phase, next, pending, verdicts, saved, Inputs)
  /\ OKept(emitted, pending, saved, verdicts) /\ OSaved(saved, rejected, verdicts)

----------------
\* The first step is done.
LEMMA OTail ==
  ASSUME NEW td \in Seq(Steps), td # <<>>, NEW nx, NEW pe, OPlan(td, nx, pe)
  PROVE  /\ OPlan(Tail(td), nx, pe)
         /\ HasFlush(Tail(td)) => HasFlush(td) /\ td[1].op # "flush"
         /\ HasFlush(td) => HasFlush(Tail(td)) \/ td[1].op = "flush"
         /\ LeadsOut(td) /\ td[1].op \notin {"after", "raise"} => LeadsOut(Tail(td))
         /\ OStep(td, 1, nx, pe)
<1>1. PICK n \in Nat : /\ Len(td) = n /\ n # 0 /\ Len(Tail(td)) = n - 1 /\ Tail(td) \in Seq(Steps)
                       /\ \A i \in 1 .. n - 1 : Tail(td)[i] = td[i + 1]
  BY TailOf
<1> DEFINE t == Tail(td)
<1> HIDE DEF t
<1>2. /\ Len(t) = n - 1 /\ t \in Seq(Steps) /\ \A j \in 1 .. n - 1 : t[j] = td[j + 1]
  BY <1>1 DEF t
<1>3. 1 \in 1 .. n /\ OStep(td, 1, nx, pe)
  BY <1>1 DEF OPlan
<1>4. ASSUME NEW i \in 1 .. n - 1 PROVE OStep(t, i, nx, pe)
  <2>1. i + 1 \in 1 .. n /\ t[i] = td[i + 1] /\ i \in Nat
    BY <1>2
  <2>2. OStep(td, i + 1, nx, pe)
    BY <1>1, <2>1 DEF OPlan
  <2>3. Leads(t[i], "check") => i = Len(t)
    BY <1>1, <1>2, <2>1, <2>2 DEF OStep
  <2>4. ASSUME t[i].op = "flush", NEW j \in i + 1 .. n - 1 PROVE t[j].op # "flush"
    <3>1. j \in 1 .. n - 1 /\ j + 1 \in (i + 1) + 1 .. n
      BY <2>1
    <3> QED
      BY <1>1, <1>2, <2>1, <2>2, <2>4, <3>1 DEF OStep
  <2>5. ASSUME t[i].op = "flush", NEW j \in 1 .. i - 1 PROVE Leads(t[j], "no_backup")
    <3>1. j \in 1 .. n - 1 /\ j + 1 \in 1 .. (i + 1) - 1
      BY <2>1
    <3> QED
      BY <1>1, <1>2, <2>1, <2>2, <2>5, <3>1 DEF OStep
  <2> QED
    BY <1>2, <2>1, <2>2, <2>3, <2>4, <2>5 DEF OStep
<1>5. HasFlush(t) => HasFlush(td) /\ td[1].op # "flush"
  <2> SUFFICES ASSUME NEW k \in 1 .. n - 1, t[k].op = "flush" PROVE HasFlush(td) /\ td[1].op # "flush"
    BY <1>2 DEF HasFlush
  <2>1. k + 1 \in 1 .. n /\ k + 1 \in 1 + 1 .. n /\ td[k + 1].op = "flush"
    BY <1>2
  <2>2. HasFlush(td)
    BY <1>1, <2>1 DEF HasFlush
  <2>3. td[1].op # "flush"
    BY <1>1, <1>3, <2>1 DEF OStep
  <2> QED
    BY <2>2, <2>3
<1>6. HasFlush(td) => HasFlush(t) \/ td[1].op = "flush"
  <2> SUFFICES ASSUME NEW k \in 1 .. n, td[k].op = "flush", k # 1 PROVE HasFlush(t)
    BY <1>1 DEF HasFlush
  <2>1. k - 1 \in 1 .. n - 1 /\ (k - 1) + 1 = k
    BY <1>1
  <2>2. t[k - 1] = td[k]
    BY <1>2, <2>1
  <2> QED
    BY <1>2, <2>1, <2>2 DEF HasFlush
<1>7. LeadsOut(td) /\ td[1].op \notin {"after", "raise"} => LeadsOut(t)
  <2> SUFFICES ASSUME td[n].op \in {"after", "raise"}, td[1].op \notin {"after", "raise"} PROVE LeadsOut(t)
    BY <1>1 DEF LeadsOut
  <2>1. n - 1 \in 1 .. n - 1 /\ (n - 1) + 1 = n
    BY <1>1
  <2>2. t[n - 1] = td[n]
    BY <1>2, <2>1
  <2>3. t # <<>>
    BY <1>2, <2>1
  <2> QED
    BY <1>2, <2>2, <2>3 DEF LeadsOut
<1>8. OPlan(t, nx, pe)
  BY <1>2, <1>4 DEF OPlan
<1> QED
  BY <1>3, <1>5, <1>6, <1>7, <1>8 DEF t

\* A step is done that leaves verdicts and outputs alone.
LEMMA OTailStep ==
  ASSUME IInv, OInv, todo # <<>>, todo' = Tail(todo), todo[1].op # "flush",
         phase' = "loop" => (phase = "loop" /\ todo[1].op \notin {"after", "raise"}) \/ todo[1].op = "loop",
         UNCHANGED <<next, pending, saved, rejected, verdicts, emitted>>, Inputs' = Inputs
  PROVE  OInv'
<1>1. todo \in Seq(Steps) /\ OPlan(todo, next, pending) /\ OBuffer(todo, phase, next, pending, verdicts, saved, Inputs)
  BY DEF IInv, TodoOK, OInv
<1>2. /\ OPlan(todo', next, pending)
      /\ HasFlush(todo') => HasFlush(todo)
      /\ HasFlush(todo) => HasFlush(todo')
      /\ LeadsOut(todo) /\ todo[1].op \notin {"after", "raise"} => LeadsOut(todo')
      /\ OStep(todo, 1, next, pending)
  BY <1>1, OTail
<1>3. todo[1].op = "loop" => next = 0 /\ pending = <<>>
  BY <1>2 DEF OStep
<1>4. next \in 1 .. Inputs => next # 0
  BY DEF IInv, ScriptOK
<1>5. pending = <<>> => PendingOf(pending, next)
  BY DEF PendingOf
<1>6. OBuffer(todo', phase', next, pending, verdicts, saved, Inputs)
  BY <1>1, <1>2, <1>3, <1>4, <1>5 DEF OBuffer
<1> QED
  BY <1>2, <1>6 DEF OInv

\* The script gives up what it had to do.
LEMMA ORaise ==
  ASSUME IInv, AInv, OInv, Raise, todo # <<>>
  PROVE  OInv'
<1>1. /\ UNCHANGED <<next, pending, saved, rejected, verdicts, emitted, opts>> /\ Inputs' = Inputs
  BY DEF Raise, KeepScript, Inputs
<1>2. phase \in Phases /\ phase # "ended"
  BY DEF AInv, APlan
<1>3. phase' # "loop"
  BY <1>2 DEF Raise, Phases
<1>4. OPlan(todo', next, pending) /\ ~HasFlush(todo')
  <2>1. CASE todo' = <<>>
    BY <2>1 DEF OPlan, HasFlush
  <2>2. CASE todo' = SpawnCleanup
    <3>1. \A i \in 1 .. Len(SpawnCleanup) : SpawnCleanup[i].op \in {"kill", "terminate", "wait", "end"}
      BY CleanupList
    <3> QED
      BY <2>2, <3>1 DEF OPlan, OStep, HasFlush, Leads
  <2> QED
    BY <2>1, <2>2 DEF Raise
<1> QED
  BY <1>1, <1>3, <1>4 DEF OInv, OBuffer

\* A plan of the loop or the closers with a flush or without, and one that
\* others may follow.
WholeStep(s, i) ==
  /\ s[i].op # "loop"
  /\ Leads(s[i], "check") => i = Len(s)
  /\ s[i].op = "flush" => /\ \A j \in i + 1 .. Len(s) : s[j].op # "flush"
                          /\ \A j \in 1 .. i - 1 : Leads(s[j], "no_backup")
Whole(s, fl) == s \in Seq(Steps) /\ (HasFlush(s) <=> fl) /\ \A i \in 1 .. Len(s) : WholeStep(s, i)
Part(s, fl) == Whole(s, fl) /\ \A i \in 1 .. Len(s) : ~Leads(s[i], "check")
Commits(s) == \A i \in 1 .. Len(s) : Leads(s[i], "no_backup")

LEMMA WholePlan ==
  ASSUME NEW s, NEW fl, Whole(s, fl), NEW nx, NEW pe
  PROVE  OPlan(s, nx, pe)
BY DEF Whole, WholeStep, OPlan, OStep

LEMMA OJoin ==
  ASSUME NEW s, NEW t, NEW fs \in BOOLEAN, NEW ft \in BOOLEAN, Part(s, fs), Whole(t, ft), ft => Commits(s) /\ ~fs
  PROVE  /\ Whole(s \o t, fs \/ ft)
         /\ Part(t, ft) => Part(s \o t, fs \/ ft)
         /\ LeadsOut(t) => LeadsOut(s \o t)
<1> DEFINE u == s \o t
<1>0. s \in Seq(Steps) /\ t \in Seq(Steps)
  BY DEF Part, Whole
<1>1. PICK n \in Nat, k \in Nat :
        /\ n = Len(s) /\ k = Len(t) /\ u \in Seq(Steps) /\ Len(u) = n + k
        /\ \A i \in 1 .. n + k : u[i] = IF i <= n THEN s[i] ELSE t[i - n]
  BY <1>0, ConcatProperties
<1> HIDE DEF u
<1>2. \A i \in 1 .. n : i \in 1 .. n + k /\ u[i] = s[i]
  BY <1>1
<1>3. \A i \in 1 .. k : n + i \in 1 .. n + k /\ u[n + i] = t[i]
  BY <1>1
<1>4. ASSUME NEW i \in 1 .. n + k PROVE i \in 1 .. n \/ \E j \in 1 .. k : i = n + j
  <2>1. CASE i <= n
    BY <2>1
  <2>2. CASE i > n
    <3>1. i - n \in 1 .. k /\ i = n + (i - n)
      BY <2>2
    <3> QED
      BY <3>1
  <2> QED
    BY <2>1, <2>2
<1>5. /\ \A i \in 1 .. n : WholeStep(s, i) /\ ~Leads(s[i], "check") /\ (s[i].op = "flush" => fs)
      /\ \A i \in 1 .. k : WholeStep(t, i) /\ (t[i].op = "flush" => ft)
  BY <1>1 DEF Part, Whole, HasFlush
<1>6. ASSUME NEW i \in 1 .. n PROVE WholeStep(u, i)
  <2>1. WholeStep(s, i) /\ u[i] = s[i] /\ ~Leads(s[i], "check")
    BY <1>2, <1>5
  <2>2. ASSUME s[i].op = "flush", NEW j \in i + 1 .. n + k PROVE u[j].op # "flush"
    <3>1. fs /\ ~ft
      BY <1>5, <2>2
    <3>2. CASE j <= n
      <4>1. j \in i + 1 .. n /\ j \in 1 .. n
        BY <3>2
      <4> QED
        BY <1>1, <1>2, <2>1, <2>2, <4>1 DEF WholeStep
    <3>3. CASE j > n
      <4>1. j - n \in 1 .. k /\ n + (j - n) = j
        BY <3>3
      <4>2. u[j] = t[j - n]
        BY <1>3, <4>1
      <4> QED
        BY <1>5, <3>1, <4>1, <4>2
    <3> QED
      BY <3>2, <3>3
  <2>3. ASSUME s[i].op = "flush", NEW j \in 1 .. i - 1 PROVE Leads(u[j], "no_backup")
    <3>1. j \in 1 .. n
      OBVIOUS
    <3> QED
      BY <1>2, <2>1, <2>3, <3>1 DEF WholeStep
  <2> QED
    BY <1>1, <2>1, <2>2, <2>3 DEF WholeStep
<1>7. ASSUME NEW i \in 1 .. k PROVE WholeStep(u, n + i)
  <2>1. WholeStep(t, i) /\ u[n + i] = t[i] /\ (i = k => n + i = n + k)
    BY <1>3, <1>5
  <2>2. ASSUME t[i].op = "flush", NEW j \in (n + i) + 1 .. n + k PROVE u[j].op # "flush"
    <3>1. j - n \in i + 1 .. k /\ j - n \in 1 .. k /\ n + (j - n) = j
      OBVIOUS
    <3>2. u[j] = t[j - n]
      BY <1>3, <3>1
    <3> QED
      BY <1>1, <2>1, <2>2, <3>1, <3>2 DEF WholeStep
  <2>3. ASSUME t[i].op = "flush", NEW j \in 1 .. (n + i) - 1 PROVE Leads(u[j], "no_backup")
    <3>1. CASE j <= n
      <4>1. j \in 1 .. n
        BY <3>1
      <4> QED
        BY <1>1, <1>2, <1>5, <2>3, <4>1 DEF Commits
    <3>2. CASE j > n
      <4>1. j - n \in 1 .. i - 1 /\ j - n \in 1 .. k /\ n + (j - n) = j
        BY <3>2
      <4>2. u[j] = t[j - n]
        BY <1>3, <4>1
      <4> QED
        BY <2>1, <2>3, <4>1, <4>2 DEF WholeStep
    <3> QED
      BY <3>1, <3>2
  <2> QED
    BY <1>1, <2>1, <2>2, <2>3 DEF WholeStep
<1>8. HasFlush(u) <=> fs \/ ft
  <2>1. ASSUME HasFlush(u) PROVE fs \/ ft
    <3>1. PICK i \in 1 .. n + k : u[i].op = "flush"
      BY <1>1, <2>1 DEF HasFlush
    <3> QED
      BY <1>2, <1>3, <1>4, <1>5, <3>1
  <2>2. ASSUME fs PROVE HasFlush(u)
    <3>1. PICK i \in 1 .. n : s[i].op = "flush"
      BY <1>1, <2>2 DEF Part, Whole, HasFlush
    <3> QED
      BY <1>1, <1>2, <3>1 DEF HasFlush
  <2>3. ASSUME ft PROVE HasFlush(u)
    <3>1. PICK i \in 1 .. k : t[i].op = "flush"
      BY <1>1, <2>3 DEF Whole, HasFlush
    <3> QED
      BY <1>1, <1>3, <3>1 DEF HasFlush
  <2> QED
    BY <2>1, <2>2, <2>3
<1>9. \A i \in 1 .. n + k : WholeStep(u, i)
  BY <1>4, <1>6, <1>7
<1>10. Whole(u, fs \/ ft)
  BY <1>1, <1>8, <1>9 DEF Whole
<1>11. ASSUME Part(t, ft), NEW i \in 1 .. n + k PROVE ~Leads(u[i], "check")
  <2>1. \A j \in 1 .. k : ~Leads(t[j], "check")
    BY <1>1, <1>11 DEF Part
  <2> QED
    BY <1>2, <1>3, <1>4, <1>5, <2>1
<1>12. ASSUME LeadsOut(t) PROVE LeadsOut(u)
  <2>1. k \in 1 .. k /\ t[k].op \in {"after", "raise"}
    <3>1. k # 0
      BY <1>0, <1>1, <1>12 DEF LeadsOut
    <3> QED
      BY <1>1, <1>12, <3>1 DEF LeadsOut
  <2>2. u[n + k] = t[k] /\ n + k # 0
    BY <1>3, <2>1
  <2>3. u # <<>>
    BY <1>1, <2>2
  <2> QED
    BY <1>1, <2>1, <2>2, <2>3 DEF LeadsOut
<1> QED
  BY <1>1, <1>10, <1>11, <1>12 DEF u, Part

\* A single step, and none.
LEMMA OAtom ==
  ASSUME NEW c \in Steps, c.op # "loop"
  PROVE  /\ Whole(<<c>>, c.op = "flush")
         /\ ~Leads(c, "check") => Part(<<c>>, c.op = "flush")
         /\ Leads(c, "no_backup") => Commits(<<c>>)
         /\ c.op \in {"after", "raise"} => LeadsOut(<<c>>)
<1> DEFINE s == <<c>>
<1>1. s \in Seq(Steps) /\ Len(s) = 1 /\ s[1] = c /\ s # <<>>
  OBVIOUS
<1> HIDE DEF s
<1>2. \A i \in 1 .. Len(s) : i = 1
  BY <1>1
<1>3. (\A j \in 1 + 1 .. Len(s) : FALSE) /\ (\A j \in 1 .. 1 - 1 : FALSE) /\ 1 \in 1 .. Len(s)
  BY <1>1
<1>4. WholeStep(s, 1)
  BY <1>1, <1>3 DEF WholeStep
<1>5. HasFlush(s) <=> c.op = "flush"
  BY <1>1, <1>2, <1>3 DEF HasFlush
<1> QED
  BY <1>1, <1>2, <1>3, <1>4, <1>5 DEF s, Whole, Part, Commits, LeadsOut

LEMMA ONone ==
  Part(<<>>, FALSE) /\ Commits(<<>>)
BY DEF Part, Whole, HasFlush, Commits

LEMMA OAtoms ==
  /\ Whole(Check, FALSE) /\ Part(Proof, FALSE)
  /\ \A i \in Nat : Part(Call("m", "send_cmio_response", i, TRUE, "none"), FALSE)
  /\ Part(Call("m", "run", Closed, TRUE, "seen"), FALSE)
  /\ Part(Call("m", "destroy", Closed, TRUE, "none"), FALSE)
  /\ Part(Call("m", "shutdown", Closed, FALSE, "reset"), FALSE)
  /\ Part(Call("m", "shutdown", Closed, FALSE, "swap"), FALSE)
  /\ \A a \in Nat \ {Closed} : Part(Call("m", "rebind", a, FALSE, "rolled_back"), FALSE)
  /\ Part(Call("m", "fork", Closed, FALSE, "backup"), FALSE)
  /\ Part(Call("b", "shutdown", Closed, FALSE, "no_backup"), FALSE)
  /\ Commits(Call("b", "shutdown", Closed, FALSE, "no_backup"))
  /\ Part(Call("b", "shutdown", Closed, FALSE, "reset"), FALSE)
  /\ Part(Local("flush"), TRUE) /\ Part(Local("raise"), FALSE) /\ LeadsOut(Local("raise"))
  /\ Part(Local("after"), FALSE) /\ LeadsOut(Local("after"))
  /\ Part(Local("closing"), FALSE) /\ Part(Local("gc"), FALSE) /\ Part(Local("ended"), FALSE)
<1>1. ASSUME NEW o \in Users, NEW m \in Methods, NEW arg \in Nat, NEW keep \in BOOLEAN, NEW then \in Thens,
             SoundCall([op |-> "call", o |-> o, m |-> m, arg |-> arg, keep |-> keep, then |-> then])
      PROVE  /\ Whole(Call(o, m, arg, keep, then), FALSE)
             /\ then # "check" => Part(Call(o, m, arg, keep, then), FALSE)
             /\ then = "no_backup" => Commits(Call(o, m, arg, keep, then))
  <2> DEFINE c == [op |-> "call", o |-> o, m |-> m, arg |-> arg, keep |-> keep, then |-> then]
  <2>1. c \in Steps
    BY <1>1 DEF Steps, CallSteps, CallRecords
  <2>2. c.op # "loop" /\ (c.op = "flush") = FALSE /\ c.op = "call" /\ c.then = then
    OBVIOUS
  <2>4. Call(o, m, arg, keep, then) = <<c>>
    BY DEF Call
  <2> HIDE DEF c
  <2> QED
    BY <2>1, <2>2, <2>4, OAtom DEF Leads
<1>2. ASSUME NEW op \in LocalOps, op # "loop"
      PROVE  Part(Local(op), op = "flush") /\ (op \in {"after", "raise"} => LeadsOut(Local(op)))
  <2> DEFINE c == [op |-> op]
  <2>1. c \in Steps /\ c.op = op /\ op # "call"
    BY <1>2 DEF Steps, LocalOps
  <2>2. Local(op) = <<c>>
    BY DEF Local
  <2> HIDE DEF c
  <2> QED
    BY <1>2, <2>1, <2>2, OAtom DEF Leads
<1>3. /\ Part(Local("flush"), TRUE) /\ Part(Local("raise"), FALSE) /\ LeadsOut(Local("raise"))
      /\ Part(Local("after"), FALSE) /\ LeadsOut(Local("after"))
      /\ Part(Local("closing"), FALSE) /\ Part(Local("gc"), FALSE) /\ Part(Local("ended"), FALSE)
  BY <1>2 DEF LocalOps
<1> USE AddressFacts DEF Users, Methods, Thens, SoundCall
<1>4. Whole(Check, FALSE) /\ Part(Proof, FALSE)
  BY <1>1 DEF Check, Proof
<1>5. \A i \in Nat : Part(Call("m", "send_cmio_response", i, TRUE, "none"), FALSE)
  BY <1>1
<1>6. Part(Call("m", "run", Closed, TRUE, "seen"), FALSE)
  BY <1>1
<1>7. Part(Call("m", "destroy", Closed, TRUE, "none"), FALSE)
  BY <1>1
<1>8. Part(Call("m", "shutdown", Closed, FALSE, "reset"), FALSE) /\ Part(Call("m", "shutdown", Closed, FALSE, "swap"), FALSE)
  BY <1>1
<1>9. \A a \in Nat \ {Closed} : Part(Call("m", "rebind", a, FALSE, "rolled_back"), FALSE)
  BY <1>1
<1>10. Part(Call("m", "fork", Closed, FALSE, "backup"), FALSE)
  BY <1>1
<1>11. /\ Part(Call("b", "shutdown", Closed, FALSE, "no_backup"), FALSE)
       /\ Commits(Call("b", "shutdown", Closed, FALSE, "no_backup"))
       /\ Part(Call("b", "shutdown", Closed, FALSE, "reset"), FALSE)
  BY <1>1
<1> QED
  BY <1>3, <1>4, <1>5, <1>6, <1>7, <1>8, <1>9, <1>10, <1>11

LEMMA CommitPart ==
  Part(do_commit, FALSE) /\ Commits(do_commit)
BY OAtoms, ONone DEF do_commit

LEMMA RollbackPart ==
  ASSUME IInv PROVE Part(do_rollback, FALSE)
<1>1. CASE obj["b"].nil
  BY <1>1, OAtoms DEF do_rollback
<1>2. CASE ~obj["b"].nil
  <2> DEFINE s == Call("m", "shutdown", Closed, FALSE, "swap")
             t == Call("m", "rebind", obj["m"].addr, FALSE, "rolled_back")
  <2>1. obj["m"].addr \in Nat \ {Closed}
    BY <1>2 DEF IInv, ObjOK, ObjectOK, Clients
  <2>2. Part(s, FALSE) /\ Part(t, FALSE) /\ Whole(t, FALSE)
    BY <2>1, OAtoms DEF Part
  <2>3. do_rollback = s \o t
    BY <1>2 DEF do_rollback
  <2> HIDE DEF s, t
  <2> QED
    BY <2>2, <2>3, OJoin
<1> QED
  BY <1>1, <1>2

LEMMA SnapshotPart ==
  \A has \in BOOLEAN : Part(do_snapshot(has), FALSE)
<1> TAKE has \in BOOLEAN
<1> DEFINE s == IF has THEN Call("b", "shutdown", Closed, FALSE, "reset") ELSE <<>>
           t == Call("m", "fork", Closed, FALSE, "backup")
<1>1. Part(s, FALSE) /\ Part(t, FALSE) /\ Whole(t, FALSE)
  BY OAtoms, ONone DEF Part
<1>2. do_snapshot(has) = s \o t
  BY DEF do_snapshot
<1> HIDE DEF s, t
<1> QED
  BY <1>1, <1>2, OJoin

LEMMA OJoinPlain ==
  ASSUME NEW s, NEW t, Part(s, FALSE)
  PROVE  /\ Part(t, FALSE) => Part(s \o t, FALSE)
         /\ Whole(t, FALSE) => Whole(s \o t, FALSE)
         /\ Whole(t, FALSE) /\ LeadsOut(t) => LeadsOut(s \o t)
BY OJoin DEF Part

Joined(S, u, s, t, n, k) ==
  /\ n = Len(s) /\ k = Len(t) /\ u \in Seq(S) /\ Len(u) = n + k
  /\ \A i \in 1 .. n : i \in 1 .. n + k /\ u[i] = s[i]
  /\ \A i \in 1 .. k : n + i \in 1 .. n + k /\ u[n + i] = t[i]

LEMMA JoinedFacts ==
  ASSUME NEW S, NEW s \in Seq(S), NEW t \in Seq(S)
  PROVE  \E n, k \in Nat : Joined(S, s \o t, s, t, n, k)
<1> DEFINE u == s \o t
<1>1. PICK n \in Nat, k \in Nat :
        /\ n = Len(s) /\ k = Len(t) /\ u \in Seq(S) /\ Len(u) = n + k
        /\ \A i \in 1 .. n + k : u[i] = IF i <= n THEN s[i] ELSE t[i - n]
  BY ConcatProperties
<1> HIDE DEF u
<1>2. \A i \in 1 .. n : i \in 1 .. n + k /\ u[i] = s[i]
  BY <1>1
<1>3. \A i \in 1 .. k : n + i \in 1 .. n + k /\ u[n + i] = t[i]
  BY <1>1
<1>4. Joined(S, u, s, t, n, k)
  BY <1>1, <1>2, <1>3 DEF Joined
<1> QED
  BY <1>4 DEF u

\* The outputs of an accepted input are saved.
LEMMA OFlush ==
  ASSUME NEW vd, NEW sa, NEW pe, NEW re, NEW x \in Nat, OTypes(vd, pe, sa, re), OSaved(sa, re, vd),
         PendingOf(pe, x), JudgedAs(vd, x, "accepted"), \A k \in 1 .. Len(sa) : sa[k][1] < x
  PROVE  /\ OTypes(vd, <<>>, sa \o pe, re) /\ OSaved(sa \o pe, re, vd)
         /\ \A k \in 1 .. Len(sa \o pe) : (sa \o pe)[k][1] < x + 1
         /\ \A t : In(t, sa) \/ In(t, pe) => In(t, sa \o pe)
<1> DEFINE u == sa \o pe
           P == Nat \X Nat
<1>0. sa \in Seq(P) /\ pe \in Seq(P)
  BY DEF OTypes
<1> HIDE DEF P
<1>1. PICK n \in Nat, k \in Nat : Joined(P, u, sa, pe, n, k)
  BY <1>0, JoinedFacts
<1> HIDE DEF u
<1>2. /\ n = Len(sa) /\ k = Len(pe) /\ u \in Seq(P) /\ Len(u) = n + k
      /\ \A i \in 1 .. n : i \in 1 .. n + k /\ u[i] = sa[i]
  BY <1>1 DEF Joined
<1>31. \A i \in 1 .. k : n + i \in 1 .. n + k /\ u[n + i] = pe[i]
  BY <1>1 DEF Joined
<1>3. \A i \in 1 .. k : n + i \in 1 .. n + k /\ u[n + i] = <<x, i>>
  BY <1>2, <1>31 DEF PendingOf
<1>4. ASSUME NEW i \in 1 .. n + k
      PROVE  \/ i \in 1 .. n /\ u[i] = sa[i] /\ i <= n
             \/ i > n /\ u[i] = <<x, i - n>>
  <2>1. CASE i <= n
    BY <1>2, <2>1
  <2>2. CASE i > n
    <3>1. i - n \in 1 .. k /\ i = n + (i - n)
      BY <2>2
    <3> QED
      BY <1>3, <2>2, <3>1
  <2> QED
    BY <2>1, <2>2
<1>5. \A i \in 1 .. n : sa[i][1] < x /\ JudgedAs(vd, sa[i][1], "accepted") /\ sa[i][1] \in Nat
  <2>1. \A i \in 1 .. n : sa[i] \in P
    BY <1>0, <1>2
  <2>2. \A i \in 1 .. n : sa[i][1] < x /\ JudgedAs(vd, sa[i][1], "accepted")
    BY <1>2 DEF OSaved
  <2> QED
    BY <2>1, <2>2 DEF P
<1>6. ASSUME NEW i \in 1 .. n + k PROVE JudgedAs(vd, u[i][1], "accepted") /\ u[i][1] < x + 1
  BY <1>4, <1>5
<1>7. Sorted(u)
  <2> SUFFICES ASSUME NEW i \in 1 .. n + k, NEW j \in 1 .. n + k, i < j
               PROVE  u[i][1] < u[j][1] \/ (u[i][1] = u[j][1] /\ u[i][2] < u[j][2])
    BY <1>2 DEF Sorted
  <2>1. CASE j <= n
    <3>1. i \in 1 .. n /\ j \in 1 .. n /\ u[i] = sa[i] /\ u[j] = sa[j]
      BY <1>2, <2>1
    <3>2. sa[i][1] < sa[j][1] \/ (sa[i][1] = sa[j][1] /\ sa[i][2] < sa[j][2])
      BY <1>2, <3>1 DEF OSaved, Sorted
    <3> QED
      BY <3>1, <3>2
  <2>2. CASE j > n
    <3>1. u[j] = <<x, j - n>> /\ u[j][1] = x /\ u[j][2] = j - n
      BY <1>4, <2>2
    <3>2. CASE i <= n
      <4>1. i \in 1 .. n
        BY <3>2
      <4> QED
        BY <1>2, <1>5, <3>1, <4>1
    <3>3. CASE i > n
      <4>1. u[i] = <<x, i - n>> /\ u[i][1] = x /\ u[i][2] = i - n
        BY <1>4, <3>3
      <4> QED
        BY <3>1, <4>1
    <3> QED
      BY <3>2, <3>3
  <2> QED
    BY <2>1, <2>2
<1>8. ASSUME NEW t, In(t, sa) \/ In(t, pe) PROVE In(t, u)
  BY <1>2, <1>3, <1>31, <1>8 DEF In
<1>9. OTypes(vd, <<>>, u, re) /\ OSaved(u, re, vd)
  BY <1>2, <1>6, <1>7 DEF OTypes, OSaved, P
<1> QED
  BY <1>2, <1>6, <1>8, <1>9 DEF u

\* The script makes a plan; nothing is judged or emitted.
LEMMA ONewPlan ==
  ASSUME OInv, Whole(todo', FALSE), ~HasFlush(todo), UNCHANGED <<phase, next, pending, saved, rejected, verdicts, emitted>>,
         Inputs' = Inputs, LeadsOut(todo) => LeadsOut(todo')
  PROVE  OInv'
<1>1. OPlan(todo', next, pending) /\ ~HasFlush(todo')
  BY WholePlan DEF Whole
<1> QED
  BY <1>1 DEF OInv, OBuffer

LEMMA CallReturnsOInv ==
  ASSUME IInv, AInv, OInv, CallReturns
  PROVE  OInv'
<1>1. /\ todo # <<>> /\ Head(todo) = todo[1] /\ todo[1].op = "call"
  BY DoingCall DEF CallReturns
<1>2. UNCHANGED <<phase, next, pending, saved, rejected, verdicts, emitted>> /\ Inputs' = Inputs
  BY DEF CallReturns, KeepScript, Inputs
<1>3. CASE todo' = Tail(todo)
  BY <1>1, <1>2, <1>3, OTailStep
<1>4. CASE todo[1].then = "check" /\ todo' = do_commit \o Local("after")
  <2>1. todo \in Seq(Steps) /\ OPlan(todo, next, pending)
    BY DEF IInv, TodoOK, OInv
  <2>2. OStep(todo, 1, next, pending)
    BY <1>1, <2>1, OTail
  <2>3. Len(todo) = 1
    BY <1>1, <1>4, <2>2 DEF OStep, Leads
  <2>4. ~HasFlush(todo)
    <3>1. \A i \in 1 .. Len(todo) : i = 1
      BY <2>3
    <3> QED
      BY <1>1, <3>1 DEF HasFlush
  <2>5. Whole(todo', FALSE) /\ LeadsOut(todo')
    BY <1>4, CommitPart, OAtoms, OJoinPlain DEF Part
  <2> QED
    BY <1>2, <2>4, <2>5, ONewPlan
<1> QED
  BY <1>1, <1>3, <1>4 DEF CallReturns

LEMMA OFirst ==
  ASSUME IInv, OInv, todo # <<>>
  PROVE  todo[1] = Head(todo) /\ OStep(todo, 1, next, pending) /\ (HasFlush(todo) <=> HasFlush(Tail(todo)) \/ todo[1].op = "flush")
<1>1. todo \in Seq(Steps) /\ OPlan(todo, next, pending)
  BY DEF IInv, TodoOK, OInv
<1>2. PICK n \in Nat : Len(todo) = n /\ n # 0
  BY <1>1, TailOf
<1>3. 1 \in 1 .. Len(todo)
  BY <1>2
<1>4. todo[1].op = "flush" => HasFlush(todo)
  BY <1>3 DEF HasFlush
<1> QED
  BY <1>1, <1>4, OTail

LEMMA LocalStepOInv ==
  ASSUME IInv, AInv, OInv, LocalStep
  PROVE  OInv'
<1>1. todo # <<>> /\ todo \in Seq(Steps)
  BY DEF LocalStep, IInv, TodoOK
<1>2. /\ todo[1] = Head(todo) /\ OStep(todo, 1, next, pending)
      /\ (HasFlush(todo) <=> HasFlush(Tail(todo)) \/ todo[1].op = "flush")
  BY <1>1, OFirst
<1>3. CASE Doing("raise") /\ Raise
  BY <1>1, <1>3, ORaise
<1>4. CASE /\ Doing("flush") /\ flush_pending_outputs("accepted") /\ todo' = Tail(todo)
           /\ UNCHANGED <<opts, next, verdicts, emitted, phase, seen, grand>>
  <2>1. /\ todo[1].op = "flush" /\ HasFlush(todo) /\ OBuffer(todo, phase, next, pending, verdicts, saved, Inputs)
        /\ OTypes(verdicts, pending, saved, rejected) /\ OSaved(saved, rejected, verdicts)
        /\ OKept(emitted, pending, saved, verdicts) /\ OPlan(todo, next, pending) /\ OCount(next, verdicts, Inputs)
        /\ next \in Nat /\ Inputs \in Nat
    BY <1>2, <1>4 DEF Doing, OInv, IInv, ScriptOK, Inputs
  <2>2. saved' = saved \o pending /\ pending' = <<>> /\ rejected' = rejected /\ Inputs' = Inputs
    BY <1>4 DEF flush_pending_outputs, Inputs
  <2>3. /\ next - 1 \in 1 .. Inputs /\ verdicts[next - 1] = "accepted" /\ PendingOf(pending, next - 1)
        /\ next \in 1 .. Inputs /\ \A k \in 1 .. Len(saved) : saved[k][1] < next - 1
    BY <2>1 DEF OBuffer
  <2>4. JudgedAs(verdicts, next - 1, "accepted") /\ next - 1 \in Nat /\ (next - 1) + 1 = next
    BY <2>1, <2>3 DEF OCount, JudgedAs, OTypes
  <2>5. /\ OTypes(verdicts, <<>>, saved', rejected) /\ OSaved(saved', rejected, verdicts)
        /\ \A k \in 1 .. Len(saved') : saved'[k][1] < (next - 1) + 1
        /\ \A t : In(t, saved) \/ In(t, pending) => In(t, saved')
    BY <2>1, <2>2, <2>3, <2>4, OFlush
  <2>6. OPlan(todo', next, pending) /\ ~HasFlush(todo') /\ (LeadsOut(todo) => LeadsOut(todo'))
    BY <1>1, <1>4, <2>1, OTail
  <2>7. OPlan(todo', next, pending')
    BY <2>2, <2>6 DEF OPlan, OStep
  <2>8. OBuffer(todo', phase, next, pending', verdicts, saved', Inputs)
    <3>1. PendingOf(pending', next)
      BY <2>2 DEF PendingOf
    <3>2. \A k \in 1 .. Len(saved') : saved'[k][1] < next
      BY <2>4, <2>5
    <3> QED
      BY <2>1, <2>2, <2>6, <3>1, <3>2 DEF OBuffer
  <2>9. OKept(emitted, pending', saved', verdicts)
    <3> SUFFICES ASSUME NEW t \in emitted
                 PROVE  /\ JudgedAs(verdicts, t[1], "accepted") => In(t, saved')
                        /\ t[1] \in 1 .. Len(verdicts)
      BY DEF OKept
    <3>1. JudgedAs(verdicts, t[1], "accepted") => In(t, saved')
      BY <2>1, <2>5 DEF OKept
    <3>2. t[1] \in 1 .. Len(verdicts)
      <4> SUFFICES ASSUME t[1] \notin 1 .. Len(verdicts) PROVE FALSE
        OBVIOUS
      <4>1. In(t, pending)
        BY <2>1 DEF OKept
      <4>2. t[1] = next - 1
        BY <2>3, <4>1 DEF In, PendingOf
      <4> QED
        BY <2>4, <4>2 DEF JudgedAs
    <3> QED
      BY <3>1, <3>2
  <2> QED
    BY <1>4, <2>1, <2>2, <2>5, <2>7, <2>8, <2>9 DEF OInv
<1>5. CASE \E ph \in {"start", "loop", "after", "closing", "gc", "ended"} :
              /\ Doing(ph) /\ phase' = ph /\ todo' = Tail(todo) /\ KeepScript
  <2>1. PICK ph \in {"start", "loop", "after", "closing", "gc", "ended"} :
              /\ Doing(ph) /\ phase' = ph /\ todo' = Tail(todo) /\ KeepScript
    BY <1>5
  <2>2. todo[1].op = ph
    BY <1>2, <2>1 DEF Doing
  <2>3. UNCHANGED <<next, pending, saved, rejected, verdicts, emitted>> /\ Inputs' = Inputs
    BY <2>1 DEF KeepScript, Inputs
  <2> QED
    BY <1>1, <2>1, <2>2, <2>3, OTailStep
<1> QED
  BY <1>3, <1>4, <1>5 DEF LocalStep

LEMMA SpawnStepOInv ==
  ASSUME IInv, AInv, OInv, SpawnStep
  PROVE  OInv'
<1>1. todo # <<>> /\ todo' = Tail(todo) /\ UNCHANGED <<next, pending, saved, rejected, verdicts, emitted>> /\ Inputs' = Inputs
  BY DEF SpawnStep, KeepScript, Inputs
<1>2. todo[1] = Head(todo)
  BY <1>1, OFirst
<1>3. todo[1].op \in {"spawn", "kill", "terminate", "wait", "connect", "end"} /\ (phase' = "loop" => phase = "loop")
  BY <1>2 DEF SpawnStep, Doing
<1> QED
  BY <1>1, <1>3, OTailStep

LEMMA ClosersOInv ==
  ASSUME IInv, AInv, OInv, Closers
  PROVE  OInv'
<1>1. todo = <<>> /\ UNCHANGED <<phase, next, pending, saved, rejected, verdicts, emitted>>
  BY DEF Closers
<1>2. Inputs' = Inputs
  BY DEF Closers, Inputs, IInv, ScriptOK
<1>3. Whole(todo', FALSE)
  <2>1. CASE todo' = Call("m", "destroy", Closed, TRUE, "none") \o Local("closing")
    BY <2>1, OAtoms, OJoinPlain DEF Part
  <2>2. CASE todo' = Local("closing") \/ todo' = Local("ended")
    BY <2>2, OAtoms DEF Part
  <2>3. CASE todo' = (IF obj["b"].nil THEN <<>> ELSE do_rollback) \o Local("gc")
    <3> DEFINE s == IF obj["b"].nil THEN <<>> ELSE do_rollback
    <3>1. Part(s, FALSE)
      BY ONone, RollbackPart
    <3> HIDE DEF s
    <3>2. Whole(s \o Local("gc"), FALSE)
      BY <3>1, OAtoms, OJoinPlain DEF Part
    <3> QED
      BY <2>3, <3>2 DEF s
  <2>4. CASE todo' = Call("m", "shutdown", Closed, FALSE, "reset") \o Local("ended")
    BY <2>4, OAtoms, OJoinPlain DEF Part
  <2> QED
    BY <2>1, <2>2, <2>3, <2>4 DEF Closers
<1>4. ~HasFlush(todo) /\ ~LeadsOut(todo)
  BY <1>1 DEF HasFlush, LeadsOut
<1> QED
  BY <1>1, <1>2, <1>3, <1>4, ONewPlan

LEMMA LoopRunOInv ==
  ASSUME OInv, LoopRun
  PROVE  OInv'
<1>1. Whole(todo', FALSE)
  BY OAtoms DEF Part, LoopRun
<1>2. ~HasFlush(todo) /\ ~LeadsOut(todo) /\ Inputs' = Inputs
  BY DEF HasFlush, LeadsOut, LoopRun, Inputs
<1>3. UNCHANGED <<phase, next, pending, saved, rejected, verdicts, emitted>>
  BY DEF LoopRun
<1> QED
  BY <1>1, <1>2, <1>3, ONewPlan

\* What the loop knows between two turns.
Between ==
  /\ phase = "loop" /\ todo = <<>> /\ next \in Nat /\ Inputs \in Nat /\ Inputs < Query /\ Query \in Nat
  /\ verdicts \in Seq(Manual) /\ pending \in Seq(Nat \X Nat) /\ saved \in Seq(Nat \X Nat) /\ rejected \in Seq(Nat \X Nat)
  /\ PendingOf(pending, next) /\ (next \notin 1 .. Inputs => pending = <<>>)
  /\ next \in 0 .. Inputs \cup {Query}
  /\ next \in 1 .. Inputs => Len(verdicts) = next - 1 /\ \A i \in 1 .. next - 1 : verdicts[i] # "other"
  /\ next = 0 => Len(verdicts) = 0
  /\ next = Query => Len(verdicts) = Inputs
  /\ \A k \in 1 .. Len(saved) : saved[k][1] < next
  /\ OKept(emitted, pending, saved, verdicts) /\ OSaved(saved, rejected, verdicts)

LEMMA BetweenTurns ==
  ASSUME IInv, OInv, phase = "loop", todo = <<>>
  PROVE  Between
<1>1. next \in Nat /\ Inputs \in Nat /\ Inputs < Query /\ Query \in Nat
  BY AddressFacts DEF IInv, ScriptOK, Inputs, Query
<1>2. ~HasFlush(todo) /\ ~LeadsOut(todo)
  BY DEF HasFlush, LeadsOut
<1>3. /\ OTypes(verdicts, pending, saved, rejected) /\ OCount(next, verdicts, Inputs)
      /\ OBuffer(todo, phase, next, pending, verdicts, saved, Inputs)
      /\ OKept(emitted, pending, saved, verdicts) /\ OSaved(saved, rejected, verdicts)
  BY DEF OInv
<1>4. next \in 1 .. Inputs => Len(verdicts) = next - 1
  BY <1>2, <1>3 DEF OBuffer, OCount
<1>5. /\ PendingOf(pending, next) /\ (next \notin 1 .. Inputs => pending = <<>>)
      /\ \A k \in 1 .. Len(saved) : saved[k][1] < next
  BY <1>2, <1>3 DEF OBuffer
<1> QED
  BY <1>1, <1>3, <1>4, <1>5 DEF OCount, OTypes, Between

\* What the verdict changes.
Ruled(at) ==
  /\ verdicts' \in Seq(Manual)
  /\ next \in 1 .. Inputs => /\ Len(verdicts') = next /\ verdicts'[next] = at
                             /\ \A i \in 1 .. next - 1 : verdicts'[i] # "other"
  /\ next \notin 1 .. Inputs => verdicts' = verdicts
  /\ OKept(emitted, pending, saved, verdicts') /\ OSaved(saved, rejected, verdicts')

LEMMA JudgedRules ==
  ASSUME Between, NEW at \in Manual, Judged(at)
  PROVE  Ruled(at)
<1>1. CASE next \notin 1 .. Inputs
  BY <1>1 DEF Between, Judged, Ruled
<1>2. CASE next \in 1 .. Inputs
  <2>1. Len(verdicts) = next - 1 /\ verdicts \in Seq(Manual) /\ next \in Nat /\ \A i \in 1 .. next - 1 : verdicts[i] # "other"
    BY <1>2 DEF Between
  <2>2. verdicts' = Append(verdicts, at)
    BY <1>2, <2>1 DEF Judged
  <2>3. /\ verdicts' \in Seq(Manual) /\ Len(verdicts') = next /\ verdicts'[next] = at
        /\ \A i \in 1 .. next - 1 : verdicts'[i] = verdicts[i]
    BY <2>1, <2>2
  <2>4. \A i \in 1 .. next - 1 : verdicts'[i] # "other"
    BY <2>1, <2>3
  <2>5. ASSUME NEW i, NEW v, JudgedAs(verdicts, i, v) PROVE JudgedAs(verdicts', i, v)
    <3>1. i \in 1 .. next - 1 /\ verdicts[i] = v
      BY <2>1, <2>5 DEF JudgedAs
    <3>2. i \in 1 .. next
      BY <2>1, <3>1
    <3> QED
      BY <2>3, <3>1, <3>2 DEF JudgedAs
  <2>6. OSaved(saved, rejected, verdicts')
    BY <2>5 DEF OSaved, Between
  <2>7. OKept(emitted, pending, saved, verdicts')
    <3> SUFFICES ASSUME NEW t \in emitted
                 PROVE  /\ JudgedAs(verdicts', t[1], "accepted") => In(t, saved) \/ In(t, pending)
                        /\ t[1] \notin 1 .. Len(verdicts') => In(t, pending)
      BY DEF OKept
    <3>1. /\ JudgedAs(verdicts, t[1], "accepted") => In(t, saved) \/ In(t, pending)
          /\ t[1] \notin 1 .. next - 1 => In(t, pending)
      BY <2>1 DEF Between, OKept
    <3>2. t[1] \in 1 .. next - 1 => t[1] \in 1 .. next
      BY <2>1
    <3>3. JudgedAs(verdicts', t[1], "accepted") /\ t[1] \in 1 .. next - 1 => JudgedAs(verdicts, t[1], "accepted")
      BY <2>1, <2>3 DEF JudgedAs
    <3> QED
      BY <2>3, <3>1, <3>2, <3>3
  <2> QED
    BY <1>2, <2>3, <2>4, <2>6, <2>7 DEF Ruled
<1> QED
  BY <1>1, <1>2

\* The buffer is kept, and the input stays the next one.
LEMMA KeepBuffer ==
  ASSUME Between, NEW at \in Manual, Ruled(at), Whole(todo', FALSE), NoFlush, UNCHANGED <<phase, next, emitted>>,
         Inputs' = Inputs, next \in 1 .. Inputs => LeadsOut(todo')
  PROVE  OInv'
<1>1. OPlan(todo', next, pending) /\ ~HasFlush(todo')
  BY WholePlan DEF Whole
<1>2. UNCHANGED <<saved, rejected, pending>>
  BY DEF NoFlush
<1>3. OBuffer(todo', phase, next, pending, verdicts', saved, Inputs)
  BY <1>1 DEF Between, OBuffer
<1>4. OCount(next, verdicts', Inputs)
  <2>1. next \in 1 .. Inputs => Len(verdicts') \in {next - 1, next}
    BY DEF Ruled
  <2>2. next = 0 \/ next = Query => next \notin 1 .. Inputs
    BY DEF Between
  <2> QED
    BY <2>1, <2>2 DEF Between, Ruled, OCount
<1> QED
  BY <1>1, <1>2, <1>3, <1>4 DEF OInv, OTypes, Ruled, Between

\* The outputs of the next input go where its verdict says.
LEMMA FlushRules ==
  ASSUME Between, NEW at \in Manual, Ruled(at), flush_pending_outputs(at), UNCHANGED emitted
  PROVE  /\ OTypes(verdicts', pending', saved', rejected') /\ OSaved(saved', rejected', verdicts')
         /\ OKept(emitted', pending', saved', verdicts') /\ pending' = <<>>
         /\ \A k \in 1 .. Len(saved') : saved'[k][1] < next + 1
<1>1. /\ saved' = (IF at = "accepted" THEN saved \o pending ELSE saved)
      /\ rejected' = (IF at = "rejected" THEN rejected \o pending ELSE rejected)
      /\ pending' = <<>>
  BY DEF flush_pending_outputs
<1>2. /\ OTypes(verdicts', pending, saved, rejected) /\ OSaved(saved, rejected, verdicts') /\ next \in Nat
      /\ OKept(emitted, pending, saved, verdicts')
  BY DEF Between, Ruled, OTypes
<1>3. ASSUME NEW k \in 1 .. Len(saved) PROVE saved[k][1] < next + 1
  <2>1. saved \in Seq(Nat \X Nat) /\ next \in Nat /\ saved[k][1] < next
    BY DEF Between
  <2>2. saved[k] \in Nat \X Nat
    BY <2>1
  <2>3. saved[k][1] \in Nat
    BY <2>2
  <2> QED
    BY <2>1, <2>3
<1>4. CASE next \notin 1 .. Inputs
  <2>1. pending = <<>>
    BY <1>4 DEF Between
  <2>2. saved \o pending = saved /\ rejected \o pending = rejected
    BY <2>1, <1>2 DEF OTypes
  <2>3. saved' = saved /\ rejected' = rejected /\ pending' = pending
    BY <1>1, <2>1, <2>2
  <2> QED
    BY <1>1, <1>2, <1>3, <2>3
<1>5. CASE next \in 1 .. Inputs
  <2>1. /\ Len(verdicts') = next /\ verdicts'[next] = at /\ next \in 1 .. Len(verdicts')
        /\ PendingOf(pending, next) /\ \A k \in 1 .. Len(saved) : saved[k][1] < next
    BY <1>5 DEF Between, Ruled
  <2>2. \A t : In(t, pending) => t[1] = next
    BY <2>1 DEF In, PendingOf
  <2>3. ASSUME \A t : In(t, saved) \/ (at = "accepted" /\ In(t, pending)) => In(t, saved')
        PROVE  OKept(emitted, <<>>, saved', verdicts')
    <3> SUFFICES ASSUME NEW t \in emitted
                 PROVE  /\ JudgedAs(verdicts', t[1], "accepted") => In(t, saved')
                        /\ t[1] \in 1 .. Len(verdicts')
      BY DEF OKept
    <3>1. t[1] \in 1 .. Len(verdicts')
      BY <1>2, <2>1, <2>2 DEF OKept
    <3>2. JudgedAs(verdicts', t[1], "accepted") => In(t, saved')
      BY <1>2, <2>1, <2>2, <2>3 DEF OKept, JudgedAs
    <3> QED
      BY <3>1, <3>2
  <2>4. CASE at = "accepted"
    <3>1. saved' = saved \o pending /\ rejected' = rejected
      BY <1>1, <2>4
    <3>2. JudgedAs(verdicts', next, "accepted")
      BY <2>1, <2>4 DEF JudgedAs
    <3>3. /\ OTypes(verdicts', <<>>, saved', rejected) /\ OSaved(saved', rejected, verdicts')
          /\ \A k \in 1 .. Len(saved') : saved'[k][1] < next + 1
          /\ \A t : In(t, saved) \/ In(t, pending) => In(t, saved')
      BY <1>2, <2>1, <3>1, <3>2, OFlush
    <3> QED
      BY <1>1, <2>3, <3>1, <3>3
  <2>5. CASE at = "rejected"
    <3>1. saved' = saved /\ rejected' = rejected \o pending
      BY <1>1, <2>5
    <3>2. OTypes(verdicts', <<>>, saved', rejected')
      <4> DEFINE P == Nat \X Nat
      <4>1. rejected \in Seq(P) /\ pending \in Seq(P)
        BY <1>2 DEF OTypes
      <4> HIDE DEF P
      <4>2. rejected \o pending \in Seq(P)
        BY <4>1
      <4> QED
        BY <1>2, <3>1, <4>2 DEF OTypes, P
    <3>3. ASSUME NEW i \in 1 .. Len(rejected') PROVE JudgedAs(verdicts', rejected'[i][1], "rejected")
      <4> DEFINE P == Nat \X Nat
      <4>1. rejected \in Seq(P) /\ pending \in Seq(P)
        BY <1>2 DEF OTypes
      <4> HIDE DEF P
      <4>2. PICK n, k \in Nat : Joined(P, rejected', rejected, pending, n, k)
        BY <3>1, <4>1, JoinedFacts
      <4>3. CASE i <= n
        <5>1. i \in 1 .. n
          BY <4>3
        <5>2. i \in 1 .. Len(rejected) /\ rejected'[i] = rejected[i]
          BY <4>2, <5>1 DEF Joined
        <5> QED
          BY <1>2, <5>2 DEF OSaved
      <4>4. CASE i > n
        <5>1. i - n \in 1 .. k /\ n + (i - n) = i
          BY <4>2, <4>4 DEF Joined
        <5>2. rejected'[i] = pending[i - n] /\ i - n \in 1 .. Len(pending)
          BY <4>2, <5>1 DEF Joined
        <5>3. rejected'[i] = <<next, i - n>>
          BY <2>1, <5>2 DEF PendingOf
        <5> QED
          BY <2>1, <2>5, <5>3 DEF JudgedAs
      <4> QED
        BY <4>3, <4>4, <4>2
    <3>4. OSaved(saved', rejected', verdicts')
      BY <1>2, <3>1, <3>3 DEF OSaved
    <3> QED
      BY <1>1, <1>3, <2>3, <2>5, <3>1, <3>2, <3>4
  <2>6. CASE at \notin {"accepted", "rejected"}
    <3>1. saved' = saved /\ rejected' = rejected
      BY <1>1, <2>6
    <3>2. OTypes(verdicts', <<>>, saved, rejected)
      BY <1>2 DEF OTypes
    <3> QED
      BY <1>1, <1>2, <1>3, <2>3, <2>6, <3>1, <3>2
  <2> QED
    BY <2>4, <2>5, <2>6
<1> QED
  BY <1>4, <1>5

LEMMA FeedWhole ==
  ASSUME NEW i \in Nat PROVE Whole(FeedOf(i), FALSE)
<1> DEFINE s == do_snapshot(FALSE)
           t == Call("m", "send_cmio_response", i, TRUE, "none")
<1>1. Part(s, FALSE) /\ Part(t, FALSE) /\ Whole(Check, FALSE)
  BY SnapshotPart, OAtoms
<1>2. FeedOf(i) = (s \o t) \o Check
  BY DEF FeedOf
<1> HIDE DEF s, t
<1>3. Part(s \o t, FALSE)
  BY <1>1, OJoinPlain
<1> QED
  BY <1>1, <1>2, <1>3, OJoinPlain

\* There is an input to feed.
LEMMA NextInputOInv ==
  ASSUME IInv, Between, NEW at \in Manual, Ruled(at), YieldNextInput(at), UNCHANGED <<phase, emitted>>
  PROVE  OInv'
<1>1. Inputs' = Inputs /\ next < Inputs /\ next \in Nat /\ Inputs \in Nat /\ next + 1 \in 1 .. Inputs /\ next + 1 \in Nat
  BY DEF YieldNextInput, Inputs, Between
<1>2. Whole(FeedOf(next + 1), FALSE)
  BY <1>1, FeedWhole
<1>3. Inputs < Query /\ Query \in Nat /\ (next # 0 => next \in 1 .. Inputs)
  BY <1>1 DEF Between
<1>4. (next + 1) - 1 = next /\ next + 1 # 0 /\ next + 1 # Query
  BY <1>1, <1>3
<1>5. ASSUME at # "other" PROVE OCount(next + 1, verdicts', Inputs)
  <2>1. CASE next = 0
    <3>1. Len(verdicts') = 0 /\ \A i \in 1 .. (next + 1) - 1 : FALSE
      BY <2>1 DEF Between, Ruled
    <3> QED
      BY <1>1, <1>4, <2>1, <3>1 DEF OCount
  <2>2. CASE next # 0
    <3>1. Len(verdicts') = next /\ verdicts'[next] = at /\ \A i \in 1 .. next - 1 : verdicts'[i] # "other"
      BY <1>3, <2>2 DEF Ruled
    <3>2. \A i \in 1 .. next : i \in 1 .. next - 1 \/ i = next
      BY <1>1
    <3>3. \A i \in 1 .. (next + 1) - 1 : verdicts'[i] # "other"
      BY <1>4, <1>5, <3>1, <3>2
    <3> QED
      BY <1>1, <1>4, <3>1, <3>3 DEF OCount
  <2> QED
    BY <2>1, <2>2
<1>51. Len(verdicts') # next + 1
  BY <1>1, <1>3 DEF Ruled, Between
<1>6. CASE at = "accepted"
  <2>1. /\ todo' = (do_commit \o (IF next > 0 THEN Local("flush") \o Proof ELSE <<>>)) \o FeedOf(next + 1)
        /\ NoFlush /\ next' = next + 1
    BY <1>6 DEF YieldNextInput, FeedOf
  <2> DEFINE f == IF next > 0 THEN Local("flush") \o Proof ELSE <<>>
             fl == next > 0
  <2>2. Part(f, fl)
    <3>1. CASE next > 0
      <4>1. Part(Local("flush"), TRUE) /\ Part(Proof, FALSE) /\ Whole(Proof, FALSE)
        BY OAtoms DEF Part
      <4>2. Part(Local("flush") \o Proof, TRUE)
        BY <4>1, OJoin
      <4> QED
        BY <3>1, <4>2
    <3>2. CASE ~(next > 0)
      <4>1. f = <<>> /\ fl = FALSE
        BY <3>2
      <4> HIDE DEF f, fl
      <4> QED
        BY <4>1, ONone
    <3> QED
      BY <3>1, <3>2
  <2>3. fl \in BOOLEAN
    OBVIOUS
  <2> HIDE DEF f
  <2>4. Part(do_commit \o f, fl)
    <3>1. Part(do_commit, FALSE) /\ Commits(do_commit) /\ Whole(f, fl)
      BY <2>2, CommitPart DEF Part
    <3> HIDE DEF fl
    <3>2. Part(do_commit \o f, FALSE \/ fl)
      BY <2>2, <2>3, <3>1, OJoin
    <3> QED
      BY <2>3, <3>2
  <2>5. Whole(todo', fl)
    <3>1. todo' = (do_commit \o f) \o FeedOf(next + 1)
      BY <2>1 DEF f
    <3> HIDE DEF fl
    <3>2. Whole((do_commit \o f) \o FeedOf(next + 1), fl \/ FALSE)
      BY <1>2, <2>3, <2>4, OJoin
    <3> QED
      BY <2>3, <3>1, <3>2
  <2>6. UNCHANGED <<saved, rejected, pending>>
    BY <2>1 DEF NoFlush
  <2>7. OPlan(todo', next + 1, pending) /\ (HasFlush(todo') <=> next > 0)
    BY <2>5, WholePlan DEF Whole
  <2>8. OBuffer(todo', phase, next + 1, pending, verdicts', saved, Inputs)
    <3>1. ASSUME next > 0
          PROVE  /\ next + 1 \in 1 .. Inputs /\ (next + 1) - 1 \in 1 .. Inputs /\ verdicts'[(next + 1) - 1] = "accepted"
                 /\ PendingOf(pending, (next + 1) - 1) /\ \A k \in 1 .. Len(saved) : saved[k][1] < (next + 1) - 1
      <4>1. next \in 1 .. Inputs
        BY <1>1, <3>1
      <4>2. verdicts'[next] = "accepted" /\ PendingOf(pending, next) /\ \A k \in 1 .. Len(saved) : saved[k][1] < next
        BY <1>6, <4>1 DEF Ruled, Between
      <4> QED
        BY <1>1, <1>4, <4>1, <4>2
    <3>2. ASSUME ~(next > 0) PROVE PendingOf(pending, next + 1)
      <4>1. pending = <<>>
        BY <1>1, <3>2 DEF Between
      <4> QED
        BY <4>1 DEF PendingOf
    <3>3. ASSUME NEW k \in 1 .. Len(saved) PROVE saved[k][1] < next + 1
      <4>1. saved \in Seq(Nat \X Nat) /\ saved[k][1] < next
        BY DEF Between
      <4>2. saved[k] \in Nat \X Nat
        BY <4>1
      <4>3. saved[k][1] \in Nat
        BY <4>2
      <4> QED
        BY <1>1, <4>1, <4>3
    <3> QED
      BY <1>1, <1>51, <2>7, <3>1, <3>2, <3>3 DEF OBuffer
  <2>9. OCount(next + 1, verdicts', Inputs)
    BY <1>5, <1>6
  <2>10. /\ OTypes(verdicts', pending, saved, rejected) /\ OKept(emitted, pending, saved, verdicts')
         /\ OSaved(saved, rejected, verdicts')
    BY DEF OTypes, Ruled, Between
  <2> QED
    BY <1>1, <2>1, <2>6, <2>7, <2>8, <2>9, <2>10 DEF OInv
<1>7. CASE at = "rejected"
  <2>1. todo' = do_rollback \o FeedOf(next + 1) /\ flush_pending_outputs(at) /\ next' = next + 1
    BY <1>7 DEF YieldNextInput, FeedOf
  <2>2. Whole(todo', FALSE)
    BY <1>2, <2>1, RollbackPart, OJoinPlain
  <2>3. /\ OTypes(verdicts', pending', saved', rejected') /\ OSaved(saved', rejected', verdicts')
        /\ OKept(emitted', pending', saved', verdicts') /\ pending' = <<>>
        /\ \A k \in 1 .. Len(saved') : saved'[k][1] < next + 1
    BY <2>1, FlushRules
  <2>4. OPlan(todo', next + 1, pending') /\ ~HasFlush(todo') /\ PendingOf(pending', next + 1)
    BY <2>2, <2>3, WholePlan DEF Whole, PendingOf
  <2>5. OBuffer(todo', phase, next + 1, pending', verdicts', saved', Inputs)
    BY <1>1, <1>51, <2>3, <2>4 DEF OBuffer
  <2>6. OCount(next + 1, verdicts', Inputs)
    BY <1>5, <1>7
  <2> QED
    BY <1>1, <2>1, <2>3, <2>4, <2>5, <2>6 DEF OInv
<1>8. CASE at = "other"
  <2>1. todo' = Local("raise") /\ NoFlush /\ UNCHANGED next
    BY <1>8 DEF YieldNextInput
  <2>2. Whole(todo', FALSE) /\ LeadsOut(todo')
    BY <2>1, OAtoms DEF Part
  <2> QED
    BY <1>1, <2>1, <2>2, KeepBuffer
<1> QED
  BY <1>6, <1>7, <1>8 DEF YieldNextInput

\* The epoch ends, or the query does.
LEMMA LastOInv ==
  ASSUME IInv, Between, NEW at \in Manual, Ruled(at), YieldLast(at), UNCHANGED <<phase, emitted>>
  PROVE  OInv'
<1> DEFINE closes == next \in 1 .. Inputs
           left == ~ obj["b"].nil /\ (~ closes \/ at = "other")
           epoch == CASE ~ closes -> <<>>
                      [] closes /\ at = "accepted" -> Proof \o do_commit
                      [] closes /\ at = "rejected" -> do_rollback
                      [] OTHER -> <<>>
           inspect == CASE opts.inspect = "no" -> <<>>
                        [] opts.inspect = "query" ->
                               do_snapshot(left) \o Call("m", "send_cmio_response", Query, TRUE, "none")
                        [] opts.inspect = "fed" -> do_rollback
<1>1. /\ todo' = (epoch \o inspect) \o Check /\ next >= Inputs
      /\ IF closes THEN flush_pending_outputs(at) ELSE NoFlush
      /\ next' = IF closes THEN Query ELSE next
      /\ opts'.inputs = opts.inputs
  BY DEF YieldLast, IInv, ScriptOK
<1>2. Inputs' = Inputs /\ opts.inspect \in {"no", "query", "fed"} /\ Query \in Nat
  BY <1>1 DEF Inputs, IInv, ScriptOK, Between
<1>3. Part(epoch, FALSE)
  <2>1. Part(Proof \o do_commit, FALSE)
    BY OAtoms, CommitPart, OJoinPlain
  <2>2. epoch = <<>> \/ epoch = Proof \o do_commit \/ epoch = do_rollback
    BY Zenon
  <2> HIDE DEF epoch
  <2> QED
    BY <2>1, <2>2, ONone, RollbackPart
<1>4. Part(inspect, FALSE)
  <2> DEFINE q == do_snapshot(left) \o Call("m", "send_cmio_response", Query, TRUE, "none")
  <2>1. left \in BOOLEAN
    <3>1. obj["b"].nil \in BOOLEAN
      BY DEF IInv, ObjOK, ObjectOK, Clients
    <3> QED
      BY <3>1
  <2>2. Part(q, FALSE)
    <3> HIDE DEF left
    <3>1. Part(do_snapshot(left), FALSE) /\ Part(Call("m", "send_cmio_response", Query, TRUE, "none"), FALSE)
      BY <1>2, <2>1, SnapshotPart, OAtoms
    <3> QED
      BY <3>1, OJoinPlain
  <2>3. inspect = <<>> \/ inspect = q \/ inspect = do_rollback
    BY <1>2
  <2> HIDE DEF inspect, q
  <2> QED
    BY <2>2, <2>3, ONone, RollbackPart
<1> HIDE DEF epoch, inspect
<1>5. Whole(todo', FALSE)
  <2>1. Part(epoch \o inspect, FALSE) /\ Whole(Check, FALSE)
    BY <1>3, <1>4, OAtoms, OJoinPlain
  <2> QED
    BY <1>1, <2>1, OJoinPlain
<1>6. CASE ~closes
  <2>1. NoFlush /\ UNCHANGED next
    BY <1>1, <1>6
  <2> QED
    BY <1>2, <1>5, <1>6, <2>1, KeepBuffer
<1>7. CASE closes
  <2>1. flush_pending_outputs(at) /\ next' = Query /\ next \in 1 .. Inputs /\ next = Inputs
    BY <1>1, <1>7 DEF Between
  <2>2. /\ OTypes(verdicts', pending', saved', rejected') /\ OSaved(saved', rejected', verdicts')
        /\ OKept(emitted', pending', saved', verdicts') /\ pending' = <<>>
        /\ \A k \in 1 .. Len(saved') : saved'[k][1] < next + 1
    BY <2>1, FlushRules
  <2>3. OPlan(todo', Query, pending') /\ ~HasFlush(todo') /\ PendingOf(pending', Query)
    BY <1>5, <2>2, WholePlan DEF Whole, PendingOf
  <2>4. Query \notin 1 .. Inputs /\ Query # 0 /\ Inputs < Query /\ Inputs \in Nat
    BY DEF Between
  <2>5. ASSUME NEW k \in 1 .. Len(saved') PROVE saved'[k][1] < Query
    <3>1. saved' \in Seq(Nat \X Nat) /\ saved'[k][1] < Inputs + 1
      BY <2>1, <2>2 DEF OTypes
    <3>2. saved'[k] \in Nat \X Nat
      BY <3>1
    <3>3. saved'[k][1] \in Nat
      BY <3>2
    <3> QED
      BY <1>2, <2>4, <3>1, <3>3
  <2>6. OBuffer(todo', phase, Query, pending', verdicts', saved', Inputs)
    BY <2>2, <2>3, <2>4, <2>5 DEF OBuffer
  <2>7. OCount(Query, verdicts', Inputs)
    BY <2>1, <2>4 DEF OCount, Ruled
  <2> QED
    BY <1>2, <2>1, <2>2, <2>3, <2>6, <2>7 DEF OInv
<1> QED
  BY <1>6, <1>7

\* An output is buffered.
LEMMA OutputOInv ==
  ASSUME IInv, OInv, Between, YieldOutput, UNCHANGED phase
  PROVE  OInv'
<1>1. /\ UNCHANGED <<next, opts, saved, rejected, verdicts>> /\ Inputs' = Inputs
      /\ Whole(todo', FALSE)
  BY OAtoms DEF YieldOutput, Inputs, Part
<1>2. ~HasFlush(todo') /\ OPlan(todo', next, pending')
  BY <1>1, WholePlan DEF Whole
<1>3. CASE next \notin 1 .. Inputs
  <2>1. UNCHANGED <<pending, emitted>>
    BY <1>3 DEF YieldOutput
  <2>2. ~HasFlush(todo) /\ ~LeadsOut(todo)
    BY DEF Between, HasFlush, LeadsOut
  <2> QED
    BY <1>1, <2>1, <2>2, ONewPlan
<1>4. CASE next \in 1 .. Inputs
  <2> DEFINE t == <<next, Len(pending) + 1>>
             P == Nat \X Nat
  <2>1. pending' = Append(pending, t) /\ emitted' = emitted \cup {t}
    BY <1>4 DEF YieldOutput
  <2>2. pending \in Seq(P) /\ next \in Nat /\ PendingOf(pending, next) /\ Len(verdicts) = next - 1 /\ t[1] = next
    BY <1>4 DEF Between
  <2>3. PICK n \in Nat : n = Len(pending)
    BY <2>2
  <2>4. t \in P /\ t = <<next, n + 1>>
    BY <2>2, <2>3
  <2> HIDE DEF P, t
  <2>5. /\ pending' \in Seq(P) /\ Len(pending') = n + 1 /\ pending'[n + 1] = t
        /\ \A k \in 1 .. n : k \in 1 .. n + 1 /\ pending'[k] = pending[k]
    BY <2>1, <2>2, <2>3, <2>4
  <2>6. PendingOf(pending', next)
    <3> SUFFICES ASSUME NEW k \in 1 .. n + 1 PROVE pending'[k] = <<next, k>>
      BY <2>5 DEF PendingOf
    <3>1. CASE k = n + 1
      BY <2>4, <2>5, <3>1
    <3>2. CASE k # n + 1
      <4>1. k \in 1 .. n
        BY <3>2
      <4> QED
        BY <2>2, <2>3, <2>5, <4>1 DEF PendingOf
    <3> QED
      BY <3>1, <3>2
  <2>7. \A x : In(x, pending) => In(x, pending')
    BY <2>3, <2>5 DEF In
  <2>8. In(t, pending') /\ t[1] \notin 1 .. Len(verdicts)
    <3>1. n + 1 \in 1 .. n + 1
      BY <2>3
    <3> QED
      BY <2>2, <2>5, <3>1 DEF In
  <2>9. OKept(emitted', pending', saved, verdicts)
    <3>1. ASSUME NEW x \in emitted
          PROVE  /\ JudgedAs(verdicts, x[1], "accepted") => In(x, saved) \/ In(x, pending')
                 /\ x[1] \notin 1 .. Len(verdicts) => In(x, pending')
      BY <2>7 DEF Between, OKept
    <3> QED
      BY <2>1, <2>8, <3>1 DEF OKept, JudgedAs
  <2>10. OTypes(verdicts, pending', saved, rejected)
    BY <2>5 DEF P, OTypes, Between
  <2>11. OBuffer(todo', phase, next, pending', verdicts, saved, Inputs)
    <3>1. Len(verdicts) # next
      BY <2>2
    <3> QED
      BY <1>2, <1>4, <2>6, <3>1 DEF Between, OBuffer
  <2>12. OCount(next, verdicts, Inputs) /\ OSaved(saved, rejected, verdicts)
    BY DEF OInv
  <2> QED
    BY <1>1, <1>2, <2>9, <2>10, <2>11, <2>12 DEF OInv
<1> QED
  BY <1>3, <1>4

LEMMA LoopOInv ==
  ASSUME IInv, OInv, Loop
  PROVE  OInv'
<1>1. Between /\ UNCHANGED phase
  BY BetweenTurns DEF Loop
<1>2. PICK c \in seen :
          \/ /\ c.at = "exception" /\ YieldException
             /\ Judged(c.at) /\ UNCHANGED <<emitted>>
          \/ /\ c.at \in Manual \ {"exception"}
             /\ YieldNextInput(c.at) \/ YieldLast(c.at)
             /\ Judged(c.at) /\ UNCHANGED emitted
          \/ /\ c.at = "output" /\ YieldOutput
          \/ /\ c.at \in {"halt", "limit"}
             /\ todo' = Local("after")
             /\ UNCHANGED <<next, opts, pending, saved, rejected, verdicts, emitted>>
  BY DEF Loop
<1>3. CASE c.at = "exception" /\ YieldException /\ Judged(c.at) /\ UNCHANGED emitted
  <2>1. Ruled("exception")
    BY <1>1, <1>3, JudgedRules DEF Manual
  <2>2. todo' = do_rollback \o Local("after") /\ NoFlush /\ UNCHANGED next /\ Inputs' = Inputs
    BY <1>3 DEF YieldException, Inputs
  <2>3. Whole(todo', FALSE) /\ LeadsOut(todo')
    BY <2>2, RollbackPart, OAtoms, OJoinPlain DEF Part
  <2> QED
    BY <1>1, <1>3, <2>1, <2>2, <2>3, KeepBuffer DEF Manual
<1>4. CASE c.at \in Manual \ {"exception"} /\ (YieldNextInput(c.at) \/ YieldLast(c.at)) /\ Judged(c.at) /\ UNCHANGED emitted
  <2>1. Ruled(c.at) /\ c.at \in Manual
    BY <1>1, <1>4, JudgedRules
  <2> QED
    BY <1>1, <1>4, <2>1, NextInputOInv, LastOInv
<1>5. CASE YieldOutput
  BY <1>1, <1>5, OutputOInv
<1>6. CASE todo' = Local("after") /\ UNCHANGED <<next, opts, pending, saved, rejected, verdicts, emitted>>
  <2>1. Whole(todo', FALSE)
    BY <1>6, OAtoms DEF Part
  <2>2. ~HasFlush(todo) /\ ~LeadsOut(todo) /\ Inputs' = Inputs
    BY <1>1, <1>6 DEF Between, HasFlush, LeadsOut, Inputs
  <2> QED
    BY <1>1, <1>6, <2>1, <2>2, ONewPlan
<1> QED
  BY <1>2, <1>3, <1>4, <1>5, <1>6

----------------
(* Types *)

FaultKinds == {"drop", "bind", "fork", "crash"}
TProcess(x) ==
  /\ x.inherits \subseteq Addresses \cup {Closed} /\ x.copies \subseteq Clients
  /\ x.machine = {} \/ \E c : x.machine = {c}
TProc(pr) == \A p \in Pids : TProcess(pr[p])
TInv == TProc(proc) /\ faults \in Seq(FaultKinds) /\ Len(faults) <= MaxFaults /\ grand \in Pids \cup {0}

\* The processes as a client or a handler leaves them.
LEMMA TUpdate ==
  ASSUME NEW pr, NEW ob, ProcOK(pr, ob), TProc(pr), NEW p \in Pids, NEW x, TProcess(x)
  PROVE  TProc([pr EXCEPT ![p] = x])
BY DEF TProc, ProcOK

LEMMA TSession ==
  ASSUME NEW pr, NEW ob, ProcOK(pr, ob), TProc(pr), NEW p \in Pids, NEW S
  PROVE  TProc([pr EXCEPT ![p].sess = S])
<1> DEFINE x == [pr[p] EXCEPT !.sess = S]
<1>1. DOMAIN pr[p] = ProcFields /\ TProcess(pr[p])
  BY DEF ProcOK, ProcessOK, TProc
<1>2. x.inherits = pr[p].inherits /\ x.copies = pr[p].copies /\ x.machine = pr[p].machine
  BY <1>1 DEF ProcFields
<1>3. [pr EXCEPT ![p].sess = S] = [pr EXCEPT ![p] = x]
  OBVIOUS
<1> HIDE DEF x
<1>4. TProcess(x)
  BY <1>1, <1>2 DEF TProcess
<1> QED
  BY <1>3, <1>4, TUpdate

LEMMA TStream ==
  ASSUME NEW pr, NEW ob, ProcOK(pr, ob), TProc(pr), NEW o
  PROVE  TProc(CloseStream(pr, o))
<1> SUFFICES ASSUME NEW p \in Pids PROVE TProcess(CloseStream(pr, o)[p])
  BY DEF TProc
<1> DEFINE x == CloseStream(pr, o)[p]
<1>1. DOMAIN pr[p] = ProcFields /\ TProcess(pr[p])
  BY DEF ProcOK, ProcessOK, TProc
<1>2. x = [pr[p] EXCEPT !.sess = @ \ {o}, !.copies = @ \ {o}]
  BY DEF CloseStream
<1>3. x.inherits = pr[p].inherits /\ x.copies = pr[p].copies \ {o} /\ x.machine = pr[p].machine
  BY <1>1, <1>2 DEF ProcFields
<1> HIDE DEF x
<1>4. TProcess(x)
  BY <1>1, <1>3 DEF TProcess
<1> QED
  BY <1>4 DEF x

LEMMA TMachine ==
  ASSUME ProcOK(proc, obj), TProc(proc), NEW p \in Pids, NEW S, S = {} \/ \E c : S = {c}
  PROVE  TProc([proc EXCEPT ![p].machine = S])
<1> DEFINE x == [proc[p] EXCEPT !.machine = S]
<1>0. DOMAIN proc[p] = ProcFields /\ TProcess(proc[p])
  BY DEF ProcOK, ProcessOK, TProc
<1>1. x.inherits = proc[p].inherits /\ x.copies = proc[p].copies /\ x.machine = S
  BY <1>0 DEF ProcFields
<1>2. [proc EXCEPT ![p].machine = S] = [proc EXCEPT ![p] = x]
  OBVIOUS
<1> HIDE DEF x
<1>3. TProcess(x)
  BY <1>0, <1>1 DEF TProcess
<1> QED
  BY <1>2, <1>3, TUpdate

LEMMA THandlers ==
  ASSUME ProcOK(proc, obj), AProc(proc), TProc(proc), NEW p \in Pids, NEW o
  PROVE  /\ TProc(jsonrpc_shutdown_handler(p, o).proc)
         /\ Unused # {} /\ proc[p].st = "up" => TProc(jsonrpc_fork_handler(p, o).proc)
         /\ \A a : TProc(jsonrpc_rebind_handler(p, o, a).proc)
         /\ TProc(Killed(p)) /\ TProc(Terminated(p))
         /\ TProc([proc EXCEPT ![p] = [@ EXCEPT !.st = "up", !.inherits = {}, !.copies = {}]])
         /\ TProc([proc EXCEPT ![p] = [NoProcess EXCEPT !.st = "up", !.addr = Home]])
<1>1. DOMAIN proc = Pids /\ DOMAIN proc[p] = ProcFields /\ TProcess(proc[p]) /\ proc[p].sess \subseteq Clients
  BY DEF ProcOK, ProcessOK, TProc
<1>2. TProc(jsonrpc_shutdown_handler(p, o).proc)
  <2> DEFINE x == [[[proc[p] EXCEPT !.machine = {}] EXCEPT !.addr = Closed] EXCEPT !.sess = @ \cap {o}]
  <2>1. jsonrpc_shutdown_handler(p, o).proc = [proc EXCEPT ![p] = x]
    BY DEF jsonrpc_shutdown_handler, Ok, close_sessions, close_acceptor
  <2>2. x.inherits = proc[p].inherits /\ x.copies = proc[p].copies /\ x.machine = {}
    BY <1>1 DEF ProcFields
  <2> HIDE DEF x
  <2>3. TProcess(x)
    BY <1>1, <2>2 DEF TProcess
  <2> QED
    BY <2>1, <2>3, TUpdate
<1>3. ASSUME Unused # {}, proc[p].st = "up" PROVE TProc(jsonrpc_fork_handler(p, o).proc)
  <2>1. PICK q \in Pids : jsonrpc_fork_handler(p, o).proc =
                             [proc EXCEPT ![q] = [proc[p] EXCEPT !.st = "child", !.addr = q,
                                !.inherits = @ \cup {proc[p].addr}, !.sess = {}, !.copies = proc[p].sess]]
    <3>1. PICK q \in Unused : \A r \in Unused : q <= r
      <4>1. Unused \subseteq Nat
        BY AddressFacts DEF Unused
      <4> QED
        BY <1>3, <4>1, LeastNat
    <3>2. (CHOOSE u \in Unused : \A r \in Unused : u <= r) \in Unused
      BY <3>1
    <3> QED
      BY <3>2 DEF jsonrpc_fork_handler, Ok, Unused
  <2> DEFINE x == [proc[p] EXCEPT !.st = "child", !.addr = q,
                     !.inherits = @ \cup {proc[p].addr}, !.sess = {}, !.copies = proc[p].sess]
  <2>2. x.inherits = proc[p].inherits \cup {proc[p].addr} /\ x.copies = proc[p].sess /\ x.machine = proc[p].machine
    BY <1>1 DEF ProcFields
  <2>3. proc[p].addr \in Addresses \cup {Closed}
    BY <1>3 DEF AProc, Runs, Addresses
  <2> HIDE DEF x
  <2>4. TProcess(x)
    BY <1>1, <2>2, <2>3 DEF TProcess
  <2>5. TProc([proc EXCEPT ![q] = x])
    BY <2>4, TUpdate
  <2> QED
    BY <2>1, <2>5 DEF x
<1>4. ASSUME NEW a PROVE TProc(jsonrpc_rebind_handler(p, o, a).proc)
  <2> DEFINE x == [proc[p] EXCEPT !.addr = a]
  <2>1. x.inherits = proc[p].inherits /\ x.copies = proc[p].copies /\ x.machine = proc[p].machine
    BY <1>1 DEF ProcFields
  <2>2. [proc EXCEPT ![p].addr = a] = [proc EXCEPT ![p] = x]
    OBVIOUS
  <2> HIDE DEF x
  <2>3. TProcess(x)
    BY <1>1, <2>1 DEF TProcess
  <2>4. TProc([proc EXCEPT ![p].addr = a])
    BY <2>2, <2>3, TUpdate
  <2> QED
    BY <2>4 DEF jsonrpc_rebind_handler, Ok, Error
<1>6. TProc([proc EXCEPT ![p] = proc[p]])
  BY <1>1, TUpdate
<1>7. TProc(Killed(p))
  <2> DEFINE x == [NoProcess EXCEPT !.st = "gone"]
  <2>1. x.inherits = {} /\ x.copies = {} /\ x.machine = {}
    BY DEF NoProcess
  <2>2. Killed(p) = [proc EXCEPT ![p] = x] \/ Killed(p) = [proc EXCEPT ![p] = proc[p]]
    BY DEF Killed
  <2> HIDE DEF x
  <2>3. TProcess(x)
    BY <2>1 DEF TProcess
  <2>4. TProc([proc EXCEPT ![p] = x])
    BY <2>3, TUpdate
  <2> QED
    BY <1>6, <2>2, <2>4
<1>8. TProc(Terminated(p))
  <2> DEFINE x == [[proc[p] EXCEPT !.addr = Closed] EXCEPT !.sess = @ \cap {}]
  <2>1. x.inherits = proc[p].inherits /\ x.copies = proc[p].copies /\ x.machine = proc[p].machine
    BY <1>1 DEF ProcFields
  <2>2. Terminated(p) = [proc EXCEPT ![p] = x] \/ Terminated(p) = [proc EXCEPT ![p] = proc[p]]
    BY DEF Terminated, close_sessions, close_acceptor
  <2> HIDE DEF x
  <2>3. TProcess(x)
    BY <1>1, <2>1 DEF TProcess
  <2>4. TProc([proc EXCEPT ![p] = x])
    BY <2>3, TUpdate
  <2> QED
    BY <1>6, <2>2, <2>4
<1>9. TProc([proc EXCEPT ![p] = [@ EXCEPT !.st = "up", !.inherits = {}, !.copies = {}]])
  <2> DEFINE x == [proc[p] EXCEPT !.st = "up", !.inherits = {}, !.copies = {}]
  <2>1. x.inherits = {} /\ x.copies = {} /\ x.machine = proc[p].machine
    BY <1>1 DEF ProcFields
  <2> HIDE DEF x
  <2>2. TProcess(x)
    BY <1>1, <2>1 DEF TProcess
  <2>3. TProc([proc EXCEPT ![p] = x])
    BY <2>2, TUpdate
  <2> QED
    BY <2>3 DEF x
<1>10. TProc([proc EXCEPT ![p] = [NoProcess EXCEPT !.st = "up", !.addr = Home]])
  <2> DEFINE x == [NoProcess EXCEPT !.st = "up", !.addr = Home]
  <2>1. x.inherits = {} /\ x.copies = {} /\ x.machine = {}
    BY DEF NoProcess
  <2> HIDE DEF x
  <2>2. TProcess(x)
    BY <2>1 DEF TProcess
  <2>3. TProc([proc EXCEPT ![p] = x])
    BY <2>2, TUpdate
  <2> QED
    BY <2>3 DEF x
<1> QED
  BY <1>2, <1>3, <1>4, <1>7, <1>8, <1>9, <1>10

\* The answer is sent.
LEMMA TReply ==
  ASSUME IInv, IInv', NEW p \in Pids, NEW o, NEW r, Reply(p, o, r), TProc(r.proc), DOMAIN r.proc = Pids, DOMAIN r.proc[p] = ProcFields
  PROVE  TProc(proc')
<1>1. CASE proc' = r.proc
  BY <1>1
<1>2. CASE proc' = [r.proc EXCEPT ![p].sess = @ \ {o}]
  <2> DEFINE x == [r.proc[p] EXCEPT !.sess = @ \ {o}]
  <2>1. x.inherits = r.proc[p].inherits /\ x.copies = r.proc[p].copies /\ x.machine = r.proc[p].machine
    BY DEF ProcFields
  <2>2. proc' = [r.proc EXCEPT ![p] = x]
    BY <1>2
  <2>3. TProcess(x)
    BY <2>1 DEF TProcess, TProc
  <2> HIDE DEF x
  <2> QED
    BY <2>2, <2>3 DEF TProc
<1> QED
  BY <1>1, <1>2 DEF Reply

LEMMA TFault ==
  ASSUME TInv, NEW kind \in FaultKinds, Fault(kind)
  PROVE  faults' \in Seq(FaultKinds) /\ Len(faults') <= MaxFaults
BY BoundsAssumption DEF TInv, Fault

LEMMA THandle ==
  ASSUME IInv, IInv', AInv, TInv, NEW p \in Pids, NEW o \in Clients, Handle(p, o)
  PROVE  TInv'
<1>1. ProcOK(proc, obj) /\ AProc(proc) /\ TProc(proc) /\ DOMAIN proc = Pids /\ DOMAIN proc[p] = ProcFields
  BY DEF IInv, AInv, TInv, ProcOK, ProcessOK
<1>2. proc[p].st = "up" /\ UNCHANGED grand
  BY DEF Handle, HandleServer, HandleMachine, Requested, scriptVars
<1>3. ASSUME NEW r, Reply(p, o, r), r.proc = proc PROVE TProc(proc')
  BY <1>1, <1>3, TReply
<1>4. ASSUME NEW S, NEW v, S = {} \/ \E c : S = {c}, Reply(p, o, Ok([proc EXCEPT ![p].machine = S], v)) PROVE TProc(proc')
  <2> DEFINE r == Ok([proc EXCEPT ![p].machine = S], v)
  <2>1. r.proc = [proc EXCEPT ![p].machine = S]
    BY DEF Ok
  <2>5. TProc([proc EXCEPT ![p].machine = S])
    BY <1>1, <1>4, TMachine
  <2>2. TProc(r.proc)
    BY <2>1, <2>5, Zenon
  <2>3. DOMAIN r.proc = Pids /\ DOMAIN r.proc[p] = ProcFields
    BY <1>1, <2>1
  <2>4. Reply(p, o, r)
    BY <1>4
  <2> HIDE DEF r
  <2> QED
    BY <2>2, <2>3, <2>4, TReply
<1>5. ASSUME Reply(p, o, jsonrpc_shutdown_handler(p, o)) PROVE TProc(proc')
  <2> DEFINE r == jsonrpc_shutdown_handler(p, o)
             x == [[[proc[p] EXCEPT !.machine = {}] EXCEPT !.addr = Closed] EXCEPT !.sess = @ \cap {o}]
  <2>1. r.proc = [proc EXCEPT ![p] = x]
    BY DEF jsonrpc_shutdown_handler, Ok, close_sessions, close_acceptor
  <2>2. DOMAIN r.proc = Pids /\ DOMAIN r.proc[p] = ProcFields
    BY <1>1, <2>1
  <2>3. TProc(r.proc)
    BY <1>1, THandlers
  <2>4. Reply(p, o, r)
    BY <1>5
  <2> HIDE DEF r
  <2> QED
    BY <2>2, <2>3, <2>4, TReply
<1>6. ASSUME Requested(p, o, "rebind"), Reply(p, o, jsonrpc_rebind_handler(p, o, call[o].arg)) PROVE TProc(proc')
  <2> DEFINE r == jsonrpc_rebind_handler(p, o, call[o].arg)
  <2>1. ProcOK(r.proc, obj)
    BY <1>1, <1>6, CurrentSound, RebindKeeps DEF Requested
  <2>2. DOMAIN r.proc = Pids /\ DOMAIN r.proc[p] = ProcFields
    BY <2>1 DEF ProcOK, ProcessOK
  <2>3. TProc(r.proc)
    BY <1>1, THandlers
  <2>4. Reply(p, o, r)
    BY <1>6
  <2> HIDE DEF r
  <2> QED
    BY <2>2, <2>3, <2>4, TReply
<1>7. ASSUME Unused # {}, Reply(p, o, jsonrpc_fork_handler(p, o)) PROVE TProc(proc')
  <2> DEFINE r == jsonrpc_fork_handler(p, o)
  <2>1. ProcOK(r.proc, obj)
    BY <1>1, <1>7, ForkKeeps
  <2>2. DOMAIN r.proc = Pids /\ DOMAIN r.proc[p] = ProcFields
    BY <2>1 DEF ProcOK, ProcessOK
  <2>3. TProc(r.proc)
    BY <1>1, <1>2, <1>7, THandlers
  <2>4. Reply(p, o, r)
    BY <1>7
  <2> HIDE DEF r
  <2> QED
    BY <2>2, <2>3, <2>4, TReply
<1>8. TProc(proc')
  <2>1. CASE HandleServer(p, o)
    <3>1. CASE Reply(p, o, Error(proc))
      BY <3>1, <1>3 DEF Error
    <3>2. CASE Reply(p, o, jsonrpc_get_version_handler(p, o))
      BY <3>2, <1>3 DEF jsonrpc_get_version_handler, Ok
    <3>3. CASE Reply(p, o, jsonrpc_machine_destroy_handler(p, o))
      BY <3>3, <1>4 DEF jsonrpc_machine_destroy_handler
    <3>4. \/ Reply(p, o, Error(proc)) \/ Reply(p, o, jsonrpc_get_version_handler(p, o))
          \/ Reply(p, o, jsonrpc_machine_destroy_handler(p, o)) \/ Reply(p, o, jsonrpc_shutdown_handler(p, o))
          \/ Requested(p, o, "rebind") /\ Reply(p, o, jsonrpc_rebind_handler(p, o, call[o].arg))
          \/ Unused # {} /\ Reply(p, o, jsonrpc_fork_handler(p, o))
      BY <2>1 DEF HandleServer
    <3> QED
      BY <1>5, <1>6, <1>7, <3>1, <3>2, <3>3, <3>4
  <2>2. CASE HandleMachine(p, o)
    <3>1. CASE Reply(p, o, Error(proc))
      BY <3>1, <1>3 DEF Error
    <3>2. CASE Reply(p, o, jsonrpc_machine_create_handler(p, o, Booted))
      BY <3>1, <3>2, <1>4 DEF jsonrpc_machine_create_handler
    <3>3. ASSUME NEW d, Reply(p, o, MachineHandler(p, d)) PROVE TProc(proc')
      BY <3>1, <3>3, <1>4 DEF MachineHandler
    <3> QED
      BY <2>2, <3>1, <3>2, <3>3 DEF HandleMachine
  <2> QED
    BY <2>1, <2>2 DEF Handle
<1>9. faults' \in Seq(FaultKinds) /\ Len(faults') <= MaxFaults
  <2>1. CASE UNCHANGED faults
    BY <2>1 DEF TInv
  <2>2. CASE Fault("bind") \/ Fault("fork")
    BY <2>2, TFault DEF FaultKinds
  <2> QED
    BY <2>1, <2>2 DEF Handle, HandleServer, HandleMachine
<1> QED
  BY <1>2, <1>8, <1>9 DEF TInv

\* Only the streams of clients change.
LEMMA TClient ==
  ASSUME IInv, TInv, NEW o, grand' \in Pids \cup {0},
         proc' = proc \/ proc' = CloseStream(proc, o),
         UNCHANGED faults \/ Fault("drop")
  PROVE  TInv'
<1>1. TProc(proc')
  BY TStream DEF IInv, TInv
<1>2. faults' \in Seq(FaultKinds) /\ Len(faults') <= MaxFaults
  <2>1. CASE UNCHANGED faults
    BY <2>1 DEF TInv
  <2>2. CASE Fault("drop")
    BY <2>2, TFault DEF FaultKinds
  <2> QED
    BY <2>1, <2>2
<1> QED
  BY <1>1, <1>2 DEF TInv

LEMMA TSend ==
  ASSUME IInv, TInv, NEW o \in Clients, NEW m, NEW arg, NEW keep, Send(o, m, arg, keep), UNCHANGED scriptVars
  PROVE  TInv'
<1> DEFINE s == IF Reuses(o) THEN obj[o].srv ELSE CHOOSE p \in Listening(obj[o].addr) : TRUE
           pr == IF Reuses(o) THEN proc ELSE CloseStream(proc, o)
<1>1. proc' = [pr EXCEPT ![s].sess = @ \cup {o}] /\ CanSend(o) /\ UNCHANGED faults /\ UNCHANGED grand
  BY DEF Send, scriptVars
<1>2. s \in Pids
  <2>1. CASE Reuses(o)
    BY <2>1 DEF Reuses, IInv, ObjOK, ObjectOK
  <2>2. CASE ~Reuses(o)
    <3>1. Listening(obj[o].addr) # {} /\ s = CHOOSE p \in Listening(obj[o].addr) : TRUE
      BY <1>1, <2>2 DEF CanSend
    <3>2. s \in Listening(obj[o].addr)
      BY <3>1
    <3> HIDE DEF s
    <3> QED
      BY <3>2 DEF Listening
  <2> QED
    BY <2>1, <2>2
<1>3. ProcOK(pr, obj) /\ TProc(pr)
  BY StreamClosed, TStream DEF IInv, TInv
<1> HIDE DEF s, pr
<1>4. TProc([pr EXCEPT ![s].sess = pr[s].sess \cup {o}])
  BY <1>2, <1>3, TSession
<1>5. [pr EXCEPT ![s].sess = pr[s].sess \cup {o}] = proc'
  BY <1>1
<1> QED
  BY <1>1, <1>4, <1>5 DEF TInv

LEMMA NextTInv ==
  ASSUME IInv, AInv, TInv, [Next]_vars
  PROVE  TInv'
<1>0. IInv' /\ ProcOK(proc, obj) /\ AProc(proc) /\ TProc(proc) /\ grand \in Pids \cup {0} /\ 1 \in Pids
  BY NextKeeps, OneIsPid DEF IInv, AInv, TInv
<1>1. ASSUME UNCHANGED <<proc, faults, grand>> PROVE TInv'
  BY <1>1 DEF TInv
<1>2. CASE CallSend
  <2>1. Head(todo).o \in Clients
    BY <1>2, DoingCall DEF CallSend
  <2> QED
    BY <1>2, <2>1, TSend DEF CallSend
<1>3. CASE CallReturns
  <2> DEFINE c == Head(todo)
             o == c.o
             v == call[o].res
  <2>1. /\ proc' = (IF call[o].keep THEN proc ELSE CloseStream(proc, o)) /\ UNCHANGED faults
        /\ grand' = (IF c.then = "grand" THEN v[1] ELSE grand) /\ call[o].st = "answered" /\ v # <<>>
    BY <1>3 DEF CallReturns, Receive
  <2>2. c = todo[1] /\ o \in Users /\ o \in Clients /\ SoundCall(c) /\ c.op = "call"
    BY <1>3, DoingCall DEF CallReturns
  <2>3. call[o].m = c.m /\ CallRecordOK(call[o])
    BY <2>1, <2>2 DEF IInv, CallOK, Current
  <2>4. c.then = "grand" => v[1] \in Pids
    BY <2>1, <2>2, <2>3 DEF SoundCall, CallRecordOK
  <2> QED
    BY <1>0, <2>1, <2>4, TClient
<1>4. CASE CallFails
  <2> DEFINE o == Head(todo).o
  <2>1. UNCHANGED grand
    BY <1>4 DEF CallFails, Raise
  <2>2. proc' = proc \/ proc' = CloseStream(proc, o)
    BY <1>4 DEF CallFails, SendFails, ReceiveFails, Receive
  <2>3. UNCHANGED faults \/ Fault("drop")
    BY <1>4 DEF CallFails, SendFails, ReceiveFails, Receive
  <2> QED
    BY <1>0, <2>1, <2>2, <2>3, TClient
<1>5. CASE LocalStep \/ Loop \/ LoopRun \/ Closers
  <2>1. UNCHANGED <<proc, faults, grand>>
    BY <1>5 DEF LocalStep, Loop, LoopRun, Closers, Raise, remoteVars
  <2> QED
    BY <1>1, <2>1
<1>6. CASE SpawnStep
  <2>1. UNCHANGED <<faults, grand>>
    BY <1>6 DEF SpawnStep
  <2>2. TProc(proc')
    BY <1>0, <1>6, THandlers DEF SpawnStep
  <2> QED
    BY <2>1, <2>2 DEF TInv
<1>7. CASE Observer
  <2>1. "o" \in Clients /\ UNCHANGED scriptVars /\ UNCHANGED grand
    BY <1>7 DEF Clients, Observer, scriptVars
  <2>2. CASE Send("o", "get_version", Closed, TRUE)
    BY <2>1, <2>2, TSend
  <2>3. CASE SendFails("o") \/ Receive("o", AfterAnswer("o")) \/ ReceiveFails("o")
    <3>1. proc' = proc \/ proc' = CloseStream(proc, "o")
      BY <2>3 DEF SendFails, Receive, ReceiveFails
    <3>2. UNCHANGED faults \/ Fault("drop")
      BY <2>3 DEF SendFails, Receive, ReceiveFails
    <3> QED
      BY <1>0, <2>1, <3>1, <3>2, TClient
  <2> QED
    BY <1>7, <2>2, <2>3 DEF Observer
<1>8. CASE \E p \in Pids : \E o \in Clients : Handle(p, o)
  BY <1>0, <1>8, THandle
<1>9. CASE \E p \in Pids : Child(p) \/ Leave(p) \/ (Crash(p) /\ UNCHANGED scriptVars)
  <2>1. PICK p \in Pids : Child(p) \/ Leave(p) \/ (Crash(p) /\ UNCHANGED scriptVars)
    BY <1>9
  <2>2. UNCHANGED grand
    BY <2>1 DEF Child, Leave, scriptVars
  <2>3. CASE Child(p)
    BY <1>0, <2>2, <2>3, THandlers DEF Child, ForkChild, TInv
  <2>4. CASE Leave(p)
    BY <1>0, <2>2, <2>4, THandlers DEF Leave, Exit, TInv
  <2>5. CASE Crash(p)
    <3>1. TProc(proc') /\ Fault("crash")
      BY <1>0, <2>5, THandlers DEF Crash
    <3>2. faults' \in Seq(FaultKinds) /\ Len(faults') <= MaxFaults
      BY <3>1, TFault DEF FaultKinds
    <3> QED
      BY <1>0, <2>2, <3>1, <3>2 DEF TInv
  <2> QED
    BY <2>1, <2>3, <2>4, <2>5
<1>10. CASE \E c \in late : HandleLate(c, LateContents(c)) /\ UNCHANGED scriptVars
  <2>1. PICK c \in late : HandleLate(c, LateContents(c)) /\ UNCHANGED scriptVars
    BY <1>10
  <2>2. UNCHANGED <<faults, grand>> /\ c.srv \in Pids /\ proc[c.srv].st = "up"
    BY <2>1 DEF HandleLate, scriptVars, IInv, LateOK
  <2>3. TProc(proc')
    <3>1. /\ TProc(jsonrpc_shutdown_handler(c.srv, "none").proc) /\ TProc(jsonrpc_rebind_handler(c.srv, "none", c.arg).proc)
          /\ Unused # {} => TProc(jsonrpc_fork_handler(c.srv, "none").proc)
      BY <1>0, <2>2, THandlers
    <3>2. ASSUME NEW S, AtMostOne(S) PROVE TProc(WithMachine(c.srv, S))
      BY <1>0, <2>2, <3>2, TMachine DEF AtMostOne, WithMachine
    <3> QED
      BY <2>1, <3>1, <3>2, LateMeans
  <2> QED
    BY <2>2, <2>3 DEF TInv
<1>11. CASE UNCHANGED vars
  BY <1>1, <1>11 DEF vars
<1> QED
  BY <1>2, <1>3, <1>4, <1>5, <1>6, <1>7, <1>8, <1>9, <1>10, <1>11 DEF Next, Script

LEMMA InitOInv ==
  ASSUME Init
  PROVE  OInv
<1>1. /\ todo = SpawnSteps /\ next = 0 /\ pending = <<>> /\ saved = <<>> /\ rejected = <<>> /\ verdicts = <<>>
      /\ emitted = {} /\ phase = "spawn"
  BY DEF Init
<1>2. Inputs \in Nat
  <2>1. PICK e \in Epochs : opts = [inputs |-> e[1], inspect |-> e[2], shutdown |-> FALSE]
    BY DEF Init
  <2> QED
    BY <2>1, EpochsAssumption, BoundsAssumption DEF Inputs
<1>3. \A i \in 1 .. 12 : i \in {1, 2, 3, 4, 5, 6, 7, 8, 9, 10, 11, 12}
  OBVIOUS
<1>4. \A i \in 1 .. Len(todo) : todo[i].op # "flush" /\ ~Leads(todo[i], "check")
  BY <1>1, <1>3, SpawnFields DEF Leads
<1>5. OPlan(todo, next, pending) /\ ~HasFlush(todo)
  BY <1>1, <1>4 DEF OPlan, OStep, HasFlush
<1>6. OTypes(verdicts, pending, saved, rejected)
  BY <1>1 DEF OTypes
<1>7. OCount(next, verdicts, Inputs)
  <2>1. Query # 0 /\ Len(verdicts) = 0
    BY <1>1, BoundsAssumption DEF Query
  <2> QED
    BY <1>1, <1>2, <2>1 DEF OCount
<1>8. OBuffer(todo, phase, next, pending, verdicts, saved, Inputs)
  BY <1>1, <1>5 DEF OBuffer
<1>9. OKept(emitted, pending, saved, verdicts) /\ OSaved(saved, rejected, verdicts)
  BY <1>1 DEF OKept, OSaved, Sorted
<1> QED
  BY <1>5, <1>6, <1>7, <1>8, <1>9 DEF OInv

LEMMA NextOInv ==
  ASSUME IInv, AInv, OInv, [Next]_vars
  PROVE  OInv'
<1>1. ASSUME UNCHANGED scriptVars PROVE OInv'
  <2>1. UNCHANGED <<todo, phase, next, pending, saved, rejected, verdicts, emitted, opts>>
    BY <1>1 DEF scriptVars
  <2> QED
    BY <2>1 DEF OInv, Inputs
<1>2. CASE CallFails
  BY <1>2, ORaise DEF CallFails, Doing
<1>3. CASE CallSend \/ Observer
  BY <1>1, <1>3 DEF CallSend, Observer
<1>4. CASE \E p \in Pids : \E o \in Clients : Handle(p, o)
  BY <1>1, <1>4 DEF Handle
<1>5. CASE \E p \in Pids : Child(p) \/ Leave(p) \/ (Crash(p) /\ UNCHANGED scriptVars)
  BY <1>1, <1>5 DEF Child, Leave
<1>6. CASE UNCHANGED vars
  BY <1>1, <1>6 DEF vars, scriptVars
<1>7. CASE \E c \in late : HandleLate(c, LateContents(c)) /\ UNCHANGED scriptVars
  BY <1>1, <1>7
<1>8. CASE Script
  BY <1>2, <1>3, <1>8, CallReturnsOInv, LocalStepOInv, SpawnStepOInv, LoopOInv, LoopRunOInv, ClosersOInv DEF Script
<1> QED
  BY <1>3, <1>4, <1>5, <1>6, <1>7, <1>8 DEF Next

LEMMA InitTInv ==
  ASSUME Init
  PROVE  TInv
<1>1. faults = <<>> /\ grand = 0 /\ \A p \in Pids : proc[p] = NoProcess
  BY DEF Init
<1>2. NoProcess.inherits = {} /\ NoProcess.copies = {} /\ NoProcess.machine = {}
  BY DEF NoProcess
<1>3. TProc(proc)
  BY <1>1, <1>2 DEF TProc, TProcess
<1> QED
  BY <1>1, <1>3, BoundsAssumption DEF TInv

LEMMA TypesHold ==
  ASSUME IInv, AInv, OInv, TInv
  PROVE  TypeOK
<1>1. ASSUME NEW p \in Pids
      PROVE  /\ proc[p].st \in {"none", "child", "up", "gone"}
             /\ proc[p].addr \in Addresses \cup {Closed}
             /\ proc[p].inherits \subseteq Addresses \cup {Closed}
             /\ proc[p].sess \cup proc[p].copies \subseteq Clients
             /\ Cardinality(proc[p].machine) <= 1
  <2>1. /\ proc[p].st \in {"none", "child", "up", "gone"}
        /\ proc[p].addr \in Addresses \cup {Closed}
    BY DEF AInv, AProc, Runs, Addresses
  <2>2. /\ proc[p].sess \subseteq Clients /\ proc[p].copies \subseteq Clients
        /\ proc[p].inherits \subseteq Addresses \cup {Closed}
        /\ proc[p].machine = {} \/ \E c : proc[p].machine = {c}
    BY DEF IInv, ProcOK, ProcessOK, TInv, TProc, TProcess
  <2>3. Cardinality(proc[p].machine) <= 1
    <3>1. CASE proc[p].machine = {}
      <4>1. Cardinality({}) = 0
        BY FS_EmptySet
      <4> QED
        BY <3>1, <4>1
    <3>2. CASE \E c : proc[p].machine = {c}
      <4>1. PICK c : proc[p].machine = {c}
        BY <3>2
      <4>2. Cardinality({c}) = 1
        BY FS_Singleton, Zenon
      <4> QED
        BY <4>1, <4>2
    <3> QED
      BY <2>2, <3>1, <3>2
  <2> QED
    BY <2>1, <2>2, <2>3
<1>2. ASSUME NEW o \in Clients
      PROVE  obj[o].srv \in Pids \cup {0} /\ call[o].st \in {"idle", "sent", "answered"}
  BY DEF IInv, ObjOK, ObjectOK, CallOK, CallRecordOK
<1>3. phase \in {"spawn", "connect", "start", "loop", "after", "closing", "gc", "ended"}
  BY DEF AInv, APlan, Phases
<1>4. next \in 0 .. Inputs \cup {Query} /\ grand \in Pids \cup {0} /\ Len(faults) <= MaxFaults
  BY DEF OInv, OCount, TInv
<1> QED
  BY <1>1, <1>2, <1>3, <1>4 DEF TypeOK

LEMMA OutputsFollow ==
  ASSUME OInv
  PROVE  OutputsFollowVerdicts
<1>1. /\ DOMAIN saved = 1 .. Len(saved) /\ DOMAIN rejected = 1 .. Len(rejected) /\ DOMAIN verdicts = 1 .. Len(verdicts)
      /\ DOMAIN pending = 1 .. Len(pending)
  BY DEF OInv, OTypes
<1>2. \A i, v : i \in Judgement(v) <=> JudgedAs(verdicts, i, v)
  BY <1>1 DEF Judgement, JudgedAs
<1>3. OSaved(saved, rejected, verdicts) /\ OKept(emitted, pending, saved, verdicts)
  BY DEF OInv
<1>4. \A k \in DOMAIN saved : saved[k][1] \in Judgement("accepted")
  BY <1>1, <1>2, <1>3 DEF OSaved
<1>5. \A k \in DOMAIN rejected : rejected[k][1] \in Judgement("rejected")
  BY <1>1, <1>2, <1>3 DEF OSaved
<1>6. \A k, l \in DOMAIN saved :
         k < l => saved[k][1] < saved[l][1] \/ (saved[k][1] = saved[l][1] /\ saved[k][2] < saved[l][2])
  BY <1>1, <1>3 DEF OSaved, Sorted
<1>7. ASSUME NEW t \in emitted, t[1] \in Judgement("accepted") PROVE t \in ToSet(saved) \cup ToSet(pending)
  <2>1. In(t, saved) \/ In(t, pending)
    BY <1>2, <1>3, <1>7 DEF OKept
  <2> QED
    BY <1>1, <2>1 DEF In, ToSet
<1> QED
  BY <1>4, <1>5, <1>6, <1>7 DEF OutputsFollowVerdicts

\* The buffer of the script holds the outputs of one input, the next or the
\* one whose flush it has still to do, and there is one verdict for every
\* input before it (run_loop and flush_pending_outputs of
\* cartesi-machine.lua).
THEOREM OutputInvariant == Spec => []OInv
<1>1. Init => OInv
  BY InitOInv
<1>2. IInv /\ AInv /\ OInv /\ [Next]_vars => OInv'
  BY NextOInv
<1> QED
  BY <1>1, <1>2, InductiveInvariant, ScriptInvariant, PTL DEF Spec

----------------
(* The backup, and outputs that are all written *)

\* Where in the script a step may stand.
BOps(ph) ==
  {c \in Steps : /\ Backs(c) \/ c.op = "flush" => ph = "loop"
                 /\ c.op \in {"kill", "terminate", "wait"} => ph = "spawn"
                 /\ c.op = "start" => ph \in {"spawn", "connect", "start"}
                 /\ c.op = "loop" => ph \in {"spawn", "connect", "start"}
                 /\ Leads(c, "address") => ph = "spawn"}
\* A backup that is shut down before its time is replaced at once.
Replaced(td, i) == (Leads(td[i], "reset") /\ td[i].o = "b") => i < Len(td) /\ Backs(td[i + 1])
BPlan(td, ph) == td \in Seq(BOps(ph)) /\ \A i \in 1 .. Len(td) : Replaced(td, i)

\* The backup is shut down just before the flush of its input.
FlushNext(td, bok) ==
  HasFlush(td) => \/ td[1].op = "flush"
                  \/ Leads(td[1], "no_backup") /\ bok /\ Len(td) >= 2 /\ td[2].op = "flush"
\* In the loop a backup that does not answer is about to be replaced.
BackupKnown(td, ph, bnil, bok) ==
  (ph = "loop" /\ ~bnil /\ ~bok) => td # <<>> /\ (Leads(td[1], "rolled_back") \/ Backs(td[1]))
BScript(td, ph, bnil, bok) ==
  /\ BPlan(td, ph) /\ FlushNext(td, bok) /\ BackupKnown(td, ph, bnil, bok)
  /\ ph \in {"spawn", "connect", "start"} => bnil

\* The process of the backup listens and has its request, or has answered.
BackupServes(ob, cl, pr) ==
  ob["b"].ok =>
    /\ cl["b"].st = "answered" => cl["b"].res # <<>>
    /\ cl["b"].st # "answered" => /\ Runs(pr[ob["b"].addr]) /\ pr[ob["b"].addr].addr = ob["b"].addr
                                  /\ cl["b"].st = "sent" => "b" \in pr[ob["b"].addr].sess
ForkServes(cl, pr) ==
  (cl["m"].st = "answered" /\ cl["m"].m = "fork" /\ cl["m"].res # <<>>) =>
    Runs(pr[cl["m"].res[1]]) /\ pr[cl["m"].res[1]].addr = cl["m"].res[1]
BServe(ph, ob, cl, pr, lt) == lt = {} /\ (ph = "loop" => BackupServes(ob, cl, pr) /\ ForkServes(cl, pr))

\* Outputs of accepted inputs are written, or are about to be.
Flushed(td, em, sa, vd) == \A t \in em : JudgedAs(vd, t[1], "accepted") => In(t, sa) \/ HasFlush(td)

BInv ==
  /\ BScript(todo, phase, obj["b"].nil, obj["b"].ok)
  /\ faults = <<>> => BServe(phase, obj, call, proc, late) /\ Flushed(todo, emitted, saved, verdicts)

----------------
\* Plans put together from pieces.
LEMMA BJoin ==
  ASSUME NEW ph, NEW s, NEW t, BPlan(s, ph), BPlan(t, ph)
  PROVE  BPlan(s \o t, ph)
<1> DEFINE u == s \o t
           S == BOps(ph)
<1>1. s \in Seq(S) /\ t \in Seq(S)
  BY DEF BPlan
<1>2. (\A i \in 1 .. Len(s) : Replaced(s, i)) /\ (\A i \in 1 .. Len(t) : Replaced(t, i))
  BY DEF BPlan
<1> HIDE DEF S
<1>3. PICK n \in Nat, k \in Nat : Joined(S, u, s, t, n, k)
  BY <1>1, JoinedFacts
<1> HIDE DEF u
<1>4. /\ n = Len(s) /\ k = Len(t) /\ u \in Seq(S) /\ Len(u) = n + k
      /\ \A i \in 1 .. n : u[i] = s[i]
      /\ \A i \in 1 .. k : u[n + i] = t[i]
  BY <1>3 DEF Joined
<1>5. ASSUME NEW i \in 1 .. n PROVE Replaced(u, i)
  <2>1. Replaced(s, i) /\ u[i] = s[i]
    BY <1>2, <1>4
  <2>2. CASE i < n
    <3>1. i + 1 \in 1 .. n /\ i < n + k
      BY <2>2
    <3>2. u[i + 1] = s[i + 1]
      BY <1>4, <3>1
    <3> QED
      BY <1>4, <2>1, <2>2, <3>1, <3>2 DEF Replaced
  <2>3. CASE ~(i < n)
    BY <1>4, <2>1, <2>3 DEF Replaced
  <2> QED
    BY <2>2, <2>3
<1>6. ASSUME NEW i \in 1 .. k PROVE Replaced(u, n + i)
  <2>1. Replaced(t, i) /\ u[n + i] = t[i]
    BY <1>2, <1>4
  <2>2. CASE i < k
    <3>1. i + 1 \in 1 .. k /\ n + i < n + k /\ n + (i + 1) = (n + i) + 1
      BY <2>2
    <3>2. u[(n + i) + 1] = t[i + 1]
      BY <1>4, <3>1
    <3> QED
      BY <1>4, <2>1, <2>2, <3>1, <3>2 DEF Replaced
  <2>3. CASE ~(i < k)
    BY <1>4, <2>1, <2>3 DEF Replaced
  <2> QED
    BY <2>2, <2>3
<1>7. ASSUME NEW i \in 1 .. n + k PROVE Replaced(u, i)
  <2>1. CASE i <= n
    BY <1>5, <2>1
  <2>2. CASE i > n
    <3>1. i - n \in 1 .. k /\ n + (i - n) = i
      BY <2>2
    <3> QED
      BY <1>6, <3>1
  <2> QED
    BY <2>1, <2>2
<1> QED
  BY <1>4, <1>7 DEF BPlan, u, S

LEMMA BAtom ==
  ASSUME NEW ph, NEW c \in BOps(ph), ~(Leads(c, "reset") /\ c.o = "b")
  PROVE  BPlan(<<c>>, ph)
<1> DEFINE s == <<c>>
<1>1. s \in Seq(BOps(ph)) /\ Len(s) = 1 /\ s[1] = c
  OBVIOUS
<1> HIDE DEF s
<1>2. \A i \in 1 .. Len(s) : i = 1
  BY <1>1
<1> QED
  BY <1>1, <1>2 DEF BPlan, Replaced, s

LEMMA BNone ==
  ASSUME NEW ph
  PROVE  BPlan(<<>>, ph) /\ ~HasFlush(<<>>)
BY DEF BPlan, HasFlush

LEMMA BCall ==
  ASSUME NEW ph, NEW o \in Users, NEW m \in Methods, NEW arg \in Nat, NEW keep \in BOOLEAN, NEW then \in Thens,
         SoundCall([op |-> "call", o |-> o, m |-> m, arg |-> arg, keep |-> keep, then |-> then]),
         then = "backup" => ph = "loop", then # "address", ~(o = "b" /\ then = "reset")
  PROVE  BPlan(Call(o, m, arg, keep, then), ph)
<1> DEFINE c == [op |-> "call", o |-> o, m |-> m, arg |-> arg, keep |-> keep, then |-> then]
<1>1. c \in Steps
  BY DEF Steps, CallSteps, CallRecords
<1>2. c.op = "call" /\ c.o = o /\ c.then = then
  OBVIOUS
<1>3. Call(o, m, arg, keep, then) = <<c>>
  BY DEF Call
<1> HIDE DEF c
<1>4. c \in BOps(ph)
  BY <1>1, <1>2 DEF BOps, Backs, Leads
<1> QED
  BY <1>2, <1>3, <1>4, BAtom DEF Leads

LEMMA BLocal ==
  ASSUME NEW ph, NEW op \in LocalOps \ {"start", "loop"}, op = "flush" => ph = "loop",
         op \in {"kill", "terminate", "wait"} => ph = "spawn"
  PROVE  BPlan(Local(op), ph)
<1> DEFINE c == [op |-> op]
<1>1. c \in Steps /\ c.op = op /\ op # "call"
  BY DEF Steps, LocalOps
<1>2. Local(op) = <<c>>
  BY DEF Local
<1> HIDE DEF c
<1>3. c \in BOps(ph) /\ ~Leads(c, "reset")
  BY <1>1 DEF BOps, Backs, Leads
<1> QED
  BY <1>2, <1>3, BAtom

LEMMA BCalls ==
  ASSUME NEW ph
  PROVE  /\ BPlan(Check, ph) /\ BPlan(Proof, ph) /\ BPlan(do_commit, ph)
         /\ \A i \in Nat : BPlan(Call("m", "send_cmio_response", i, TRUE, "none"), ph)
         /\ BPlan(Call("m", "run", Closed, TRUE, "seen"), ph)
         /\ BPlan(Call("m", "destroy", Closed, TRUE, "none"), ph)
         /\ BPlan(Call("m", "shutdown", Closed, FALSE, "reset"), ph)
         /\ BPlan(Call("m", "shutdown", Closed, FALSE, "swap"), ph)
         /\ \A a \in Nat \ {Closed} : BPlan(Call("m", "rebind", a, FALSE, "rolled_back"), ph)
         /\ ph = "loop" => BPlan(Call("m", "fork", Closed, FALSE, "backup"), ph)
<1> USE AddressFacts DEF Users, Methods, Thens, SoundCall
<1>1. BPlan(Check, ph) /\ BPlan(Proof, ph)
  BY BCall DEF Check, Proof
<1>2. BPlan(Call("b", "shutdown", Closed, FALSE, "no_backup"), ph)
  BY BCall
<1>3. BPlan(do_commit, ph)
  BY <1>2, BNone DEF do_commit
<1>4. \A i \in Nat : BPlan(Call("m", "send_cmio_response", i, TRUE, "none"), ph)
  BY BCall
<1>5. BPlan(Call("m", "run", Closed, TRUE, "seen"), ph) /\ BPlan(Call("m", "destroy", Closed, TRUE, "none"), ph)
  BY BCall
<1>6. BPlan(Call("m", "shutdown", Closed, FALSE, "reset"), ph) /\ BPlan(Call("m", "shutdown", Closed, FALSE, "swap"), ph)
  BY BCall
<1>7. \A a \in Nat \ {Closed} : BPlan(Call("m", "rebind", a, FALSE, "rolled_back"), ph)
  BY BCall
<1>8. ph = "loop" => BPlan(Call("m", "fork", Closed, FALSE, "backup"), ph)
  BY BCall
<1> QED
  BY <1>1, <1>3, <1>4, <1>5, <1>6, <1>7, <1>8

LEMMA RollbackBPlan ==
  ASSUME IInv, NEW ph
  PROVE  BPlan(do_rollback, ph)
<1>1. CASE obj["b"].nil
  BY <1>1, BLocal DEF do_rollback, LocalOps
<1>2. CASE ~obj["b"].nil
  <2> DEFINE s == Call("m", "shutdown", Closed, FALSE, "swap")
             t == Call("m", "rebind", obj["m"].addr, FALSE, "rolled_back")
  <2>1. obj["m"].addr \in Nat \ {Closed}
    BY <1>2 DEF IInv, ObjOK, ObjectOK, Clients
  <2>2. BPlan(s, ph) /\ BPlan(t, ph)
    BY <2>1, BCalls
  <2>3. do_rollback = s \o t
    BY <1>2 DEF do_rollback
  <2> HIDE DEF s, t
  <2> QED
    BY <2>2, <2>3, BJoin
<1> QED
  BY <1>1, <1>2

LEMMA SnapshotBPlan ==
  \A has \in BOOLEAN : BPlan(do_snapshot(has), "loop")
<1> TAKE has \in BOOLEAN
<1> DEFINE c == [op |-> "call", o |-> "b", m |-> "shutdown", arg |-> Closed, keep |-> FALSE, then |-> "reset"]
           d == [op |-> "call", o |-> "m", m |-> "fork", arg |-> Closed, keep |-> FALSE, then |-> "backup"]
<1>1. c \in Steps /\ d \in Steps
  BY AddressFacts DEF Steps, CallSteps, CallRecords, SoundCall, Users, Methods, Thens
<1>2. c.op = "call" /\ c.then = "reset" /\ d.op = "call" /\ d.then = "backup"
  OBVIOUS
<1>3. do_snapshot(has) = (IF has THEN <<c>> ELSE <<>>) \o <<d>>
  BY DEF do_snapshot, Call
<1> HIDE DEF c, d
<1>4. c \in BOps("loop") /\ d \in BOps("loop")
  BY <1>1, <1>2 DEF BOps, Backs, Leads
<1>5. CASE has
  <2> DEFINE u == <<c>> \o <<d>>
  <2>1. u \in Seq(BOps("loop")) /\ Len(u) = 2 /\ u[1] = c /\ u[2] = d
    BY <1>4
  <2> HIDE DEF u
  <2>2. \A i \in 1 .. Len(u) : i = 1 \/ i = 2
    BY <2>1
  <2>3. Replaced(u, 1) /\ Replaced(u, 2)
    BY <1>2, <2>1 DEF Replaced, Leads, Backs
  <2>4. do_snapshot(has) = u
    BY <1>3, <1>5 DEF u
  <2> QED
    BY <2>1, <2>2, <2>3, <2>4 DEF BPlan
<1>6. CASE ~has
  <2>1. do_snapshot(has) = <<d>>
    BY <1>3, <1>6
  <2> QED
    BY <1>2, <1>4, <2>1, BAtom DEF Leads
<1> QED
  BY <1>5, <1>6

\* The first step is done.
LEMMA BTail ==
  ASSUME NEW td \in Seq(Steps), td # <<>>, NEW ph, NEW nph, BPlan(td, ph),
         \/ nph = ph
         \/ Len(td) = 1
         \/ nph \in {"connect", "start"} /\ \A j \in 2 .. Len(td) : Simple(td[j])
  PROVE  BPlan(Tail(td), nph)
<1>1. PICK n \in Nat : /\ Len(td) = n /\ n # 0 /\ Len(Tail(td)) = n - 1 /\ Tail(td) \in Seq(Steps)
                       /\ \A i \in 1 .. n - 1 : Tail(td)[i] = td[i + 1]
  BY TailOf
<1>2. (\A i \in 1 .. n : Replaced(td, i)) /\ (\A i \in 1 .. n : td[i] \in BOps(ph))
  BY <1>1 DEF BPlan
<1>3. ASSUME NEW i \in 1 .. n - 1 PROVE Replaced(Tail(td), i)
  <2>1. Replaced(td, i + 1) /\ Tail(td)[i] = td[i + 1]
    BY <1>1, <1>2
  <2>2. CASE i < n - 1
    <3>1. i + 1 \in 1 .. n - 1 /\ (i + 1) + 1 \in 1 .. n
      BY <2>2
    <3>2. Tail(td)[i + 1] = td[(i + 1) + 1]
      BY <1>1, <3>1
    <3> QED
      BY <1>1, <2>1, <2>2, <3>2 DEF Replaced
  <2>3. CASE ~(i < n - 1)
    <3>1. ~(i + 1 < n)
      BY <2>3
    <3> QED
      BY <1>1, <2>1, <3>1 DEF Replaced
  <2> QED
    BY <2>2, <2>3
<1>4. ASSUME NEW i \in 1 .. n - 1 PROVE Tail(td)[i] \in BOps(nph)
  <2>1. i + 1 \in 1 .. n /\ i + 1 \in 2 .. n /\ n # 1
    OBVIOUS
  <2>2. Tail(td)[i] = td[i + 1] /\ td[i + 1] \in BOps(ph)
    BY <1>1, <1>2, <2>1
  <2>3. CASE nph = ph
    BY <2>2, <2>3
  <2>4. CASE nph \in {"connect", "start"} /\ \A j \in 2 .. Len(td) : Simple(td[j])
    <3> DEFINE c == td[i + 1]
    <3>1. Simple(c) /\ c \in Steps
      BY <1>1, <2>1, <2>2, <2>4 DEF BOps
    <3> HIDE DEF c
    <3>2. c.op \in {"start", "loop"} \/ c.op = "call"
      BY <3>1 DEF Simple
    <3>3. c.op = "call" => SoundCall(c)
      BY <3>1 DEF Steps, CallSteps, LocalOps, SpawnOps
    <3>4. ~Backs(c) /\ ~Leads(c, "address")
      BY <3>1, <3>2, <3>3 DEF Simple, SoundCall, Backs, Leads, Forks, Rebinds
    <3>5. c \in BOps(nph)
      BY <2>4, <3>1, <3>2, <3>4 DEF BOps
    <3> QED
      BY <2>2, <3>5 DEF c
  <2> QED
    BY <1>1, <2>1, <2>3, <2>4
<1> DEFINE u == Tail(td)
           S == BOps(nph)
<1>5. Len(u) = n - 1 /\ u \in Seq(Steps) /\ (\A i \in 1 .. n - 1 : u[i] \in S) /\ \A i \in 1 .. n - 1 : Replaced(u, i)
  BY <1>1, <1>3, <1>4
<1> HIDE DEF u, S
<1>6. u \in Seq(S)
  BY <1>5
<1> QED
  BY <1>5, <1>6 DEF BPlan, u, S

\* The flush is the next thing to do once the commit is done.
LEMMA FlushTail ==
  ASSUME IInv, OInv, todo # <<>>, NEW bok, FlushNext(todo, bok)
  PROVE  /\ HasFlush(Tail(todo)) => Tail(todo)[1].op = "flush" /\ HasFlush(todo)
         /\ \A nbok : FlushNext(Tail(todo), nbok)
         /\ todo[1].op = "flush" => ~HasFlush(Tail(todo))
<1>1. /\ todo[1] = Head(todo) /\ OStep(todo, 1, next, pending)
      /\ (HasFlush(todo) <=> HasFlush(Tail(todo)) \/ todo[1].op = "flush") /\ todo \in Seq(Steps)
  BY OFirst DEF IInv, TodoOK
<1>2. PICK n \in Nat : /\ Len(todo) = n /\ n # 0 /\ Len(Tail(todo)) = n - 1
                       /\ \A i \in 1 .. n - 1 : Tail(todo)[i] = todo[i + 1]
  BY <1>1, TailOf
<1>3. ASSUME todo[1].op = "flush" PROVE ~HasFlush(Tail(todo))
  <2>1. \A j \in 1 + 1 .. n : todo[j].op # "flush"
    BY <1>1, <1>2, <1>3 DEF OStep
  <2>2. ASSUME NEW i \in 1 .. n - 1 PROVE Tail(todo)[i].op # "flush"
    <3>1. i + 1 \in 1 + 1 .. n
      OBVIOUS
    <3> QED
      BY <1>2, <2>1, <3>1
  <2> QED
    BY <1>2, <2>2 DEF HasFlush
<1>4. ASSUME HasFlush(Tail(todo)) PROVE Tail(todo)[1].op = "flush"
  <2>1. n >= 2 /\ todo[2].op = "flush"
    BY <1>1, <1>2, <1>3, <1>4 DEF FlushNext
  <2>2. 1 \in 1 .. n - 1 /\ 1 + 1 = 2
    BY <2>1
  <2> QED
    BY <1>2, <2>1, <2>2
<1> QED
  BY <1>1, <1>3, <1>4 DEF FlushNext

BNow == BScript(todo, phase, obj["b"].nil, obj["b"].ok)
BThen == BScript(todo', phase', obj'["b"].nil, obj'["b"].ok)

LEMMA BSame ==
  ASSUME BNow, UNCHANGED <<todo, phase>>, obj'["b"].nil = obj["b"].nil, obj'["b"].ok = obj["b"].ok
  PROVE  BThen
BY DEF BNow, BThen

\* An error is raised.
LEMMA CleanupBPlan ==
  BPlan(SpawnCleanup, "spawn") /\ ~HasFlush(SpawnCleanup)
<1>1. /\ BPlan(Local("kill"), "spawn") /\ BPlan(Local("terminate"), "spawn") /\ BPlan(Local("wait"), "spawn")
      /\ BPlan(Local("end"), "spawn")
  BY BLocal DEF LocalOps
<1>2. SpawnCleanup = Local("kill") \o (Local("terminate") \o (Local("wait") \o Local("end")))
  BY DEF SpawnCleanup, Local
<1>3. BPlan(Local("terminate") \o (Local("wait") \o Local("end")), "spawn")
  BY <1>1, BJoin
<1>4. \A i \in 1 .. 4 : i \in {1, 2, 3, 4}
  OBVIOUS
<1> QED
  BY <1>1, <1>2, <1>3, <1>4, BJoin, CleanupList DEF HasFlush

LEMMA BRaise ==
  ASSUME AInv, BNow, Raise, todo # <<>>, obj'["b"].nil = obj["b"].nil, obj'["b"].ok = obj["b"].ok
  PROVE  BThen
<1>1. phase \in Phases /\ phase # "ended"
  BY DEF AInv, APlan
<1>2. CASE phase = "spawn"
  <2>1. phase' = "spawn" /\ todo' = SpawnCleanup
    BY <1>2 DEF Raise
  <2> QED
    BY <1>2, <2>1, CleanupBPlan DEF BNow, BThen, BScript, FlushNext, BackupKnown
<1>3. CASE phase # "spawn"
  <2>1. phase' \in {"closing", "gc", "ended"} /\ todo' = <<>>
    BY <1>1, <1>3 DEF Raise, Phases
  <2> QED
    BY <2>1, BNone DEF BThen, BScript, FlushNext, BackupKnown
<1> QED
  BY <1>1, <1>2, <1>3

LEMMA CallReturnsB ==
  ASSUME IInv, AInv, OInv, BNow, CallReturns
  PROVE  BThen
<1>1. PICK c, o, v, ob : Back(c, o, v, ob)
  BY BackFacts
<1>2. /\ c = todo[1] /\ o = c.o /\ todo # <<>> /\ c.op = "call" /\ SoundCall(c) /\ o \in Users /\ todo \in Seq(Steps)
      /\ PlanStep(todo, 1, phase, obj["b"].ok, grand) /\ UNCHANGED phase /\ Leaves(c.then, o, v, ob, obj')
      /\ ob["b"].nil = obj["b"].nil /\ ob["b"].ok = obj["b"].ok
      /\ todo' = IF c.then = "check" /\ v.at \in Manual THEN do_commit \o Local("after") ELSE Tail(todo)
  BY <1>1 DEF Back, Touched, Clients
<1>3. PICK n \in Nat : /\ Len(todo) = n /\ n # 0 /\ Len(Tail(todo)) = n - 1
                       /\ \A i \in 1 .. n - 1 : Tail(todo)[i] = todo[i + 1]
  BY <1>2, TailOf
<1>4. BPlan(todo, phase) /\ FlushNext(todo, obj["b"].ok) /\ BackupKnown(todo, phase, obj["b"].nil, obj["b"].ok)
  BY DEF BNow, BScript
<1>5. c \in BOps(phase) /\ Replaced(todo, 1)
  BY <1>2, <1>3, <1>4 DEF BPlan
<1>6. phase \in {"spawn", "connect", "start"} => obj'["b"].nil
  <2>1. phase \in {"spawn", "connect", "start"} => obj["b"].nil
    BY DEF BNow, BScript
  <2>2. c.then = "backup" => phase = "loop"
    BY <1>2, <1>5 DEF BOps, Backs
  <2>3. c.then = "swap" => ~obj["b"].nil
    BY <1>1 DEF Back
  <2>4. o = "b" => ~obj["b"].nil
    BY <1>1 DEF Back
  <2>5. NilObject.nil
    BY DEF NilObject
  <2> QED
    BY <1>2, <2>1, <2>2, <2>3, <2>4, <2>5 DEF Leaves
<1>7. CASE todo' = Tail(todo)
  <2>1. BPlan(todo', phase) /\ FlushNext(todo', obj'["b"].ok)
    BY <1>2, <1>4, <1>7, BTail, FlushTail
  <2>2. ASSUME phase = "loop", ~obj'["b"].nil, ~obj'["b"].ok
        PROVE  todo' # <<>> /\ (Leads(todo'[1], "rolled_back") \/ Backs(todo'[1]))
    <3>1. c.then \notin {"no_backup", "rolled_back", "backup"}
      BY <1>2, <2>2 DEF Leaves, NilObject, NewObject
    <3>2. CASE c.then = "swap"
      <4>1. Frees(c)
        BY <1>2, <3>2 DEF Frees
      <4>2. FreesOrder(todo, 1)
        BY <1>2, <4>1 DEF PlanStep
      <4>3. 1 < n /\ Rebinds(todo[1 + 1]) /\ 2 \in 1 .. n /\ 1 \in 1 .. n - 1
        BY <1>3, <4>2 DEF FreesOrder
      <4>4. Tail(todo)[1] = todo[2] /\ Tail(todo) # <<>> /\ Rebinds(todo[2])
        BY <1>3, <4>3
      <4>5. RebindOrder(todo, 2) /\ todo[2] \in BOps("loop")
        BY <1>3, <1>4, <2>2, <4>3, <4>4 DEF AInv, APlan, PlanStep, BPlan
      <4> QED
        BY <1>7, <4>4, <4>5 DEF RebindOrder, BOps, Leads, Rebinds
    <3>3. CASE c.then = "reset" /\ o = "b"
      <4>1. 1 < n /\ Backs(todo[1 + 1])
        BY <1>2, <1>3, <1>5, <3>3 DEF Replaced, Leads
      <4>2. 1 \in 1 .. n - 1
        BY <4>1
      <4>3. Tail(todo)[1] = todo[1 + 1] /\ Tail(todo) # <<>>
        BY <1>3, <4>2
      <4> QED
        BY <1>7, <4>1, <4>3
    <3>4. CASE c.then # "swap" /\ ~(c.then = "reset" /\ o = "b")
      <4>1. obj'["b"] = ob["b"]
        BY <1>2, <3>1, <3>4 DEF Leaves
      <4>2. Leads(c, "rolled_back") \/ Backs(c)
        BY <1>2, <1>4, <2>2, <4>1 DEF BackupKnown
      <4> QED
        BY <3>1, <4>2 DEF Leads, Backs
    <3> QED
      BY <3>2, <3>3, <3>4
  <2> QED
    BY <1>2, <1>6, <2>1, <2>2 DEF BThen, BScript, BackupKnown
<1>8. CASE c.then = "check" /\ todo' = do_commit \o Local("after")
  <2>1. obj'["b"] = ob["b"]
    BY <1>2, <1>8 DEF Leaves
  <2>2. BPlan(todo', phase)
    BY <1>8, BCalls, BLocal, BJoin DEF LocalOps
  <2>3. ~HasFlush(todo')
    BY <1>8, CommitPart, OAtoms, OJoinPlain DEF Part, Whole
  <2>4. ~(phase = "loop" /\ ~obj["b"].nil /\ ~obj["b"].ok)
    BY <1>2, <1>4, <1>8 DEF BackupKnown, Leads, Backs
  <2> QED
    BY <1>2, <1>6, <2>1, <2>2, <2>3, <2>4 DEF BThen, BScript, BackupKnown, FlushNext
<1> QED
  BY <1>2, <1>7, <1>8

\* A step of the script that is no call.
LEMMA TurnB ==
  ASSUME IInv, AInv, OInv, BNow, todo # <<>>, todo[1].op # "call", todo' = Tail(todo), obj'["b"] = obj["b"],
         todo[1].op \in {"connect", "start", "loop", "after", "closing", "gc", "ended"} => phase' = todo[1].op,
         todo[1].op = "end" => phase' = "ended",
         todo[1].op \notin {"connect", "start", "loop", "after", "closing", "gc", "ended", "end"} => phase' = phase
  PROVE  BThen
<1>1. PICK n \in Nat : /\ Len(todo) = n /\ n # 0 /\ Len(Tail(todo)) = n - 1 /\ todo \in Seq(Steps)
  BY TailOf DEF IInv, TodoOK
<1>2. BPlan(todo, phase) /\ FlushNext(todo, obj["b"].ok) /\ BackupKnown(todo, phase, obj["b"].nil, obj["b"].ok)
  BY DEF BNow, BScript
<1>3. todo[1] \in BOps(phase) /\ PlanStep(todo, 1, phase, obj["b"].ok, grand)
  BY <1>1, <1>2 DEF BPlan, AInv, APlan
<1>4. FlushNext(todo', obj'["b"].ok)
  BY <1>2, FlushTail
<1>5. /\ todo[1].op \in {"connect", "start"} => \A j \in 1 + 1 .. n : Simple(todo[j])
      /\ todo[1].op \in {"loop", "after", "closing", "gc", "ended", "end"} => n = 1
      /\ todo[1].op \in {"connect", "end"} => phase = "spawn"
      /\ todo[1].op = "start" => phase \in {"spawn", "connect", "start"}
      /\ todo[1].op = "loop" => phase \in {"spawn", "connect", "start"}
  BY <1>1, <1>3 DEF PlanStep, PhaseOrder, BOps
<1>6. BPlan(todo', phase')
  <2>1. CASE todo[1].op \in {"connect", "start"}
    <3>1. phase' \in {"connect", "start"} /\ \A j \in 2 .. Len(todo) : Simple(todo[j])
      BY <1>1, <1>5, <2>1
    <3> QED
      BY <1>1, <1>2, <3>1, BTail
  <2>2. CASE todo[1].op \in {"loop", "after", "closing", "gc", "ended", "end"}
    BY <1>1, <1>2, <1>5, <2>2, BTail
  <2>3. CASE todo[1].op \notin {"connect", "start", "loop", "after", "closing", "gc", "ended", "end"}
    BY <1>1, <1>2, <2>3, BTail
  <2> QED
    BY <2>1, <2>2, <2>3
<1>7. phase' \in {"spawn", "connect", "start"} => obj'["b"].nil
  <2>1. phase \in {"spawn", "connect", "start"} => obj["b"].nil
    BY DEF BNow, BScript
  <2> QED
    BY <1>5, <2>1
<1>8. BackupKnown(todo', phase', obj'["b"].nil, obj'["b"].ok)
  <2> SUFFICES ASSUME phase' = "loop", ~obj["b"].nil, ~obj["b"].ok PROVE FALSE
    BY DEF BackupKnown
  <2>1. phase \in {"spawn", "connect", "start"} => obj["b"].nil
    BY DEF BNow, BScript
  <2>2. phase = "loop"
    BY <1>5, <2>1
  <2> QED
    BY <1>2, <2>2 DEF BackupKnown, Leads, Backs
<1> QED
  BY <1>4, <1>6, <1>7, <1>8 DEF BThen, BScript

LEMMA LocalStepB ==
  ASSUME IInv, AInv, OInv, BNow, LocalStep
  PROVE  BThen
<1>1. todo # <<>> /\ todo \in Seq(Steps) /\ Head(todo) = todo[1]
  BY DEF LocalStep, IInv, TodoOK
<1>2. CASE Doing("raise") /\ Raise /\ UNCHANGED remoteVars
  BY <1>1, <1>2, BRaise DEF remoteVars
<1>3. CASE Doing("flush") /\ todo' = Tail(todo) /\ UNCHANGED phase /\ UNCHANGED remoteVars
  <2>1. todo[1].op = "flush" /\ UNCHANGED obj
    BY <1>1, <1>3 DEF Doing, remoteVars
  <2> QED
    BY <1>1, <1>3, <2>1, TurnB
<1>4. ASSUME NEW ph \in {"start", "loop", "after", "closing", "gc", "ended"}, Doing(ph), phase' = ph,
             todo' = Tail(todo), UNCHANGED remoteVars
      PROVE  BThen
  <2>1. todo[1].op = ph /\ UNCHANGED obj
    BY <1>1, <1>4 DEF Doing, remoteVars
  <2> QED
    BY <1>1, <1>4, <2>1, TurnB
<1> QED
  BY <1>2, <1>3, <1>4 DEF LocalStep

LEMMA SpawnStepB ==
  ASSUME IInv, AInv, OInv, BNow, SpawnStep
  PROVE  BThen
<1>1. todo # <<>> /\ todo \in Seq(Steps) /\ Head(todo) = todo[1] /\ todo' = Tail(todo)
  BY DEF SpawnStep, IInv, TodoOK
<1>2. obj'["b"] = obj["b"]
  BY DEF SpawnStep, IInv, ObjOK, Clients
<1>3. todo[1].op \in {"spawn", "kill", "terminate", "wait", "connect", "end"}
  BY <1>1 DEF SpawnStep, Doing
<1>4. /\ todo[1].op = "connect" => phase' = "connect"
      /\ todo[1].op = "end" => phase' = "ended"
      /\ todo[1].op \notin {"connect", "end"} => phase' = phase
  BY <1>1 DEF SpawnStep, Doing
<1> QED
  BY <1>1, <1>2, <1>3, <1>4, TurnB

LEMMA Prefix ==
  ASSUME NEW S, NEW s \in Seq(S), NEW t \in Seq(S), NEW i \in 1 .. Len(s)
  PROVE  (s \o t)[i] = s[i] /\ i \in 1 .. Len(s \o t) /\ s \o t \in Seq(S)
<1> DEFINE u == s \o t
<1>1. PICK n \in Nat, k \in Nat : Joined(S, u, s, t, n, k)
  BY JoinedFacts
<1> HIDE DEF u
<1>2. u[i] = s[i] /\ i \in 1 .. Len(u) /\ u \in Seq(S)
  BY <1>1 DEF Joined
<1> QED
  BY <1>2 DEF u

\* The script makes a plan.
LEMMA FreshB ==
  ASSUME BNow, todo = <<>>, UNCHANGED phase, obj'["b"] = obj["b"], BPlan(todo', phase), FlushNext(todo', obj["b"].ok)
  PROVE  BThen
BY DEF BNow, BThen, BScript, BackupKnown

LEMMA FeedBPlan ==
  ASSUME NEW i \in Nat
  PROVE  BPlan(FeedOf(i), "loop")
<1> DEFINE s == do_snapshot(FALSE)
           t == Call("m", "send_cmio_response", i, TRUE, "none")
<1>1. BPlan(s, "loop") /\ BPlan(t, "loop") /\ BPlan(Check, "loop")
  BY SnapshotBPlan, BCalls
<1>2. FeedOf(i) = (s \o t) \o Check
  BY DEF FeedOf
<1> HIDE DEF s, t
<1> QED
  BY <1>1, <1>2, BJoin

\* The commit comes just before the flush.
LEMMA CommitFlush ==
  ASSUME IInv, NEW g \in Seq(Steps), obj["b"].nil \/ obj["b"].ok
  PROVE  FlushNext((do_commit \o (Local("flush") \o Proof)) \o g, obj["b"].ok)
<1> DEFINE c == [op |-> "call", o |-> "b", m |-> "shutdown", arg |-> Closed, keep |-> FALSE, then |-> "no_backup"]
           l == [op |-> "flush"]
           f == Local("flush") \o Proof
<1>1. f \in Seq(Steps) /\ f[1].op = "flush" /\ Len(f) = 2
  <2>1. Part(Local("flush"), TRUE) /\ Part(Proof, FALSE)
    BY OAtoms
  <2>2. Local("flush") \in Seq(Steps) /\ Proof \in Seq(Steps)
    BY <2>1 DEF Part, Whole
  <2>3. Len(Local("flush")) = 1 /\ Local("flush")[1].op = "flush" /\ Len(Proof) = 1
    BY DEF Local, Proof, Call
  <2>4. 1 \in 1 .. Len(Local("flush"))
    BY <2>3
  <2>5. f[1] = Local("flush")[1] /\ f \in Seq(Steps)
    BY <2>2, <2>4, Prefix
  <2> DEFINE s == Local("flush")
             t == Proof
  <2>6. PICK n \in Nat, k \in Nat : Joined(Steps, f, s, t, n, k)
    BY <2>2, JoinedFacts
  <2>7. Len(s) = 1 /\ Len(t) = 1
    BY <2>3
  <2> HIDE DEF s, t, f
  <2>8. Len(f) = 2
    BY <2>6, <2>7 DEF Joined
  <2>9. f[1].op = "flush"
    BY <2>3, <2>5
  <2> QED
    BY <2>5, <2>8, <2>9
<1>2. do_commit \in Seq(Steps)
  BY CommitPart DEF Part, Whole
<1> HIDE DEF f
<1>3. CASE obj["b"].nil
  <2>1. do_commit \o f = f
    BY <1>1, <1>3 DEF do_commit
  <2>2. 1 \in 1 .. Len(f)
    BY <1>1
  <2>3. (f \o g)[1] = f[1]
    BY <1>1, <2>2, Prefix
  <2> QED
    BY <1>1, <2>1, <2>3 DEF FlushNext, f
<1>4. CASE ~obj["b"].nil
  <2>1. do_commit = <<c>> /\ c.op = "call" /\ c.then = "no_backup"
    BY <1>4 DEF do_commit, Call
  <2> HIDE DEF c
  <2> DEFINE u == do_commit \o f
  <2> DEFINE s == do_commit
  <2>a. s \in Seq(Steps) /\ Len(s) = 1 /\ s[1] = c
    BY <1>2, <2>1
  <2>b. PICK n \in Nat, k \in Nat : Joined(Steps, u, s, f, n, k)
    BY <1>1, <2>a, JoinedFacts
  <2> HIDE DEF u, s
  <2>c. n = 1 /\ k = 2 /\ 1 \in 1 .. 1 /\ 1 \in 1 .. 2 /\ 1 + 1 = 2 /\ 1 + 2 = 3
    BY <1>1, <2>a, <2>b DEF Joined
  <2>2. u \in Seq(Steps) /\ u[1] = c /\ u[2] = f[1] /\ Len(u) = 3
    BY <2>a, <2>b, <2>c DEF Joined
  <2>3. 1 \in 1 .. Len(u) /\ 2 \in 1 .. Len(u)
    BY <2>2
  <2>4. (u \o g)[1] = u[1] /\ (u \o g)[2] = u[2] /\ 2 \in 1 .. Len(u \o g) /\ u \o g \in Seq(Steps)
    BY <2>2, <2>3, Prefix
  <2>5. Len(u \o g) >= 2
    BY <2>4
  <2> QED
    BY <1>1, <1>4, <2>1, <2>2, <2>4, <2>5 DEF FlushNext, Leads, u, f
<1> QED
  BY <1>3, <1>4

LEMMA NextInputB ==
  ASSUME IInv, BNow, phase = "loop", todo = <<>>, NEW at, YieldNextInput(at), UNCHANGED phase, UNCHANGED obj
  PROVE  BThen
<1>1. next \in Nat /\ next + 1 \in Nat
  BY DEF IInv, ScriptOK
<1>2. BPlan(FeedOf(next + 1), "loop") /\ Whole(FeedOf(next + 1), FALSE)
  BY <1>1, FeedBPlan, FeedWhole
<1>3. obj["b"].nil \/ obj["b"].ok
  BY DEF BNow, BScript, BackupKnown
<1>4. CASE at = "accepted" /\ next > 0
  <2>1. todo' = (do_commit \o (Local("flush") \o Proof)) \o FeedOf(next + 1)
    BY <1>4 DEF YieldNextInput, FeedOf
  <2>2. BPlan(Local("flush") \o Proof, "loop")
    BY BLocal, BCalls, BJoin DEF LocalOps
  <2>3. BPlan(do_commit \o (Local("flush") \o Proof), "loop")
    BY <2>2, BCalls, BJoin
  <2>4. BPlan(todo', "loop")
    BY <1>2, <2>1, <2>3, BJoin
  <2>5. FlushNext(todo', obj["b"].ok)
    BY <1>2, <1>3, <2>1, CommitFlush DEF Whole
  <2> QED
    BY <2>4, <2>5, FreshB
<1>5. CASE at = "accepted" /\ ~(next > 0)
  <2>1. todo' = (do_commit \o <<>>) \o FeedOf(next + 1)
    BY <1>5 DEF YieldNextInput, FeedOf
  <2>2. do_commit \o <<>> = do_commit
    <3>1. do_commit \in Seq(Steps)
      BY CommitPart DEF Part, Whole
    <3> QED
      BY <3>1
  <2>3. BPlan(todo', "loop")
    BY <1>2, <2>1, <2>2, BCalls, BJoin
  <2>4. Whole(todo', FALSE)
    BY <1>2, <2>1, <2>2, CommitPart, OJoinPlain
  <2> QED
    BY <2>3, <2>4, FreshB DEF FlushNext, Whole
<1>6. CASE at = "rejected"
  <2>1. todo' = do_rollback \o FeedOf(next + 1)
    BY <1>6 DEF YieldNextInput, FeedOf
  <2>2. BPlan(todo', "loop")
    BY <1>2, <2>1, RollbackBPlan, BJoin
  <2>3. Whole(todo', FALSE)
    BY <1>2, <2>1, RollbackPart, OJoinPlain
  <2> QED
    BY <2>2, <2>3, FreshB DEF FlushNext, Whole
<1>7. CASE at = "other"
  <2>1. todo' = Local("raise")
    BY <1>7 DEF YieldNextInput
  <2>2. BPlan(todo', "loop") /\ Whole(todo', FALSE)
    BY <2>1, BLocal, OAtoms DEF LocalOps, Part
  <2> QED
    BY <2>2, FreshB DEF FlushNext, Whole
<1> QED
  BY <1>4, <1>5, <1>6, <1>7 DEF YieldNextInput

LEMMA LastB ==
  ASSUME IInv, BNow, phase = "loop", todo = <<>>, NEW at \in Manual, YieldLast(at), UNCHANGED phase, UNCHANGED obj
  PROVE  BThen
<1> DEFINE closes == next \in 1 .. Inputs
           left == ~ obj["b"].nil /\ (~ closes \/ at = "other")
           epoch == CASE ~ closes -> <<>>
                      [] closes /\ at = "accepted" -> Proof \o do_commit
                      [] closes /\ at = "rejected" -> do_rollback
                      [] OTHER -> <<>>
           inspect == CASE opts.inspect = "no" -> <<>>
                        [] opts.inspect = "query" ->
                             do_snapshot(left) \o Call("m", "send_cmio_response", Query, TRUE, "none")
                        [] opts.inspect = "fed" -> do_rollback
<1>1. todo' = (epoch \o inspect) \o Check
  BY DEF YieldLast
<1>2. left \in BOOLEAN /\ opts.inspect \in {"no", "query", "fed"} /\ obj["b"].nil \in BOOLEAN
  BY DEF IInv, ScriptOK, ObjOK, ObjectOK, Clients
<1>3. BPlan(epoch, "loop") /\ Part(epoch, FALSE)
  <2>1. BPlan(Proof \o do_commit, "loop") /\ Part(Proof \o do_commit, FALSE)
    BY BCalls, BJoin, OAtoms, CommitPart, OJoinPlain
  <2>2. BPlan(do_rollback, "loop") /\ Part(do_rollback, FALSE)
    BY RollbackBPlan, RollbackPart
  <2>3. BPlan(<<>>, "loop") /\ Part(<<>>, FALSE)
    BY BNone, ONone
  <2> QED
    BY <2>1, <2>2, <2>3
<1>4. BPlan(inspect, "loop") /\ Part(inspect, FALSE)
  <2> DEFINE q == Call("m", "send_cmio_response", Query, TRUE, "none")
  <2>1. BPlan(q, "loop") /\ Part(q, FALSE)
    BY BCalls, OAtoms, AddressFacts
  <2>2. BPlan(do_snapshot(left), "loop") /\ Part(do_snapshot(left), FALSE)
    BY <1>2, SnapshotBPlan, SnapshotPart
  <2>3. BPlan(do_snapshot(left) \o q, "loop") /\ Part(do_snapshot(left) \o q, FALSE)
    <3> HIDE DEF q, left
    <3> QED
      BY <2>1, <2>2, BJoin, OJoinPlain
  <2>4. BPlan(do_rollback, "loop") /\ Part(do_rollback, FALSE)
    BY RollbackBPlan, RollbackPart
  <2>5. BPlan(<<>>, "loop") /\ Part(<<>>, FALSE)
    BY BNone, ONone
  <2> HIDE DEF q, left
  <2>6. inspect = <<>> \/ inspect = do_snapshot(left) \o q \/ inspect = do_rollback
    BY <1>2 DEF q
  <2> QED
    BY <2>3, <2>4, <2>5, <2>6
<1> HIDE DEF epoch, inspect
<1>5. BPlan(epoch \o inspect, "loop") /\ Part(epoch \o inspect, FALSE)
  BY <1>3, <1>4, BJoin, OJoinPlain
<1>6. BPlan(Check, "loop") /\ Whole(Check, FALSE)
  BY BCalls, OAtoms
<1>7. BPlan(todo', "loop") /\ Whole(todo', FALSE)
  BY <1>1, <1>5, <1>6, BJoin, OJoinPlain
<1> QED
  BY <1>7, FreshB DEF FlushNext, Whole

LEMMA LoopB ==
  ASSUME IInv, AInv, BNow, Loop
  PROVE  BThen
<1>1. phase = "loop" /\ todo = <<>> /\ UNCHANGED phase /\ UNCHANGED obj
  BY DEF Loop, remoteVars
<1>2. PICK c \in seen :
          \/ c.at = "exception" /\ YieldException
          \/ c.at \in Manual \ {"exception"} /\ (YieldNextInput(c.at) \/ YieldLast(c.at))
          \/ c.at = "output" /\ YieldOutput
          \/ c.at \in {"halt", "limit"} /\ todo' = Local("after")
  BY DEF Loop
<1>3. CASE YieldException
  <2>1. todo' = do_rollback \o Local("after")
    BY <1>3 DEF YieldException
  <2>2. BPlan(todo', "loop")
    BY <2>1, RollbackBPlan, BLocal, BJoin DEF LocalOps
  <2>3. Whole(todo', FALSE)
    BY <2>1, RollbackPart, OAtoms, OJoinPlain DEF Part
  <2> QED
    BY <1>1, <2>2, <2>3, FreshB DEF FlushNext, Whole
<1>4. CASE c.at \in Manual \ {"exception"} /\ (YieldNextInput(c.at) \/ YieldLast(c.at))
  BY <1>1, <1>4, NextInputB, LastB
<1>5. CASE YieldOutput
  <2>1. todo' = Call("m", "run", Closed, TRUE, "seen")
    BY <1>5 DEF YieldOutput
  <2>2. BPlan(todo', "loop") /\ Whole(todo', FALSE)
    BY <2>1, BCalls, OAtoms DEF Part
  <2> QED
    BY <1>1, <2>2, FreshB DEF FlushNext, Whole
<1>6. CASE todo' = Local("after")
  <2>1. BPlan(todo', "loop") /\ Whole(todo', FALSE)
    BY <1>6, BLocal, OAtoms DEF Part, LocalOps
  <2> QED
    BY <1>1, <2>1, FreshB DEF FlushNext, Whole
<1> QED
  BY <1>2, <1>3, <1>4, <1>5, <1>6

LEMMA LoopRunB ==
  ASSUME IInv, BNow, LoopRun
  PROVE  BThen
<1>1. phase = "loop" /\ todo = <<>> /\ UNCHANGED phase /\ UNCHANGED obj /\ todo' = Call("m", "run", Closed, TRUE, "seen")
  BY DEF LoopRun, remoteVars
<1>2. BPlan(todo', "loop") /\ Whole(todo', FALSE)
  BY <1>1, BCalls, OAtoms DEF Part
<1> QED
  BY <1>1, <1>2, FreshB DEF FlushNext, Whole

LEMMA ClosersB ==
  ASSUME IInv, BNow, Closers
  PROVE  BThen
<1>1. todo = <<>> /\ UNCHANGED phase /\ UNCHANGED obj
  BY DEF Closers, remoteVars
<1>2. /\ BPlan(Local("closing"), phase) /\ BPlan(Local("gc"), phase) /\ BPlan(Local("ended"), phase)
      /\ Part(Local("closing"), FALSE) /\ Part(Local("gc"), FALSE) /\ Part(Local("ended"), FALSE)
      /\ Whole(Local("closing"), FALSE) /\ Whole(Local("gc"), FALSE) /\ Whole(Local("ended"), FALSE)
  BY BLocal, OAtoms DEF LocalOps, Part
<1> DEFINE s == IF obj["b"].nil THEN <<>> ELSE do_rollback
           d == Call("m", "destroy", Closed, TRUE, "none")
           h == Call("m", "shutdown", Closed, FALSE, "reset")
<1>3. /\ BPlan(s, phase) /\ BPlan(d, phase) /\ BPlan(h, phase) /\ Part(s, FALSE) /\ Part(d, FALSE) /\ Part(h, FALSE)
  BY BNone, ONone, RollbackBPlan, RollbackPart, BCalls, OAtoms
<1>4. \/ todo' = d \o Local("closing") \/ todo' = Local("closing") \/ todo' = s \o Local("gc")
      \/ todo' = h \o Local("ended") \/ todo' = Local("ended")
  BY DEF Closers
<1> HIDE DEF s, d, h
<1>5. BPlan(todo', phase) /\ Whole(todo', FALSE)
  BY <1>2, <1>3, <1>4, BJoin, OJoinPlain
<1> QED
  BY <1>1, <1>5, FreshB DEF FlushNext, Whole

LEMMA InitB ==
  ASSUME Init
  PROVE  BNow
<1>1. todo = SpawnSteps /\ phase = "spawn" /\ obj["b"].nil
  BY DEF Init, Clients, NilObject
<1>2. TodoOK(todo, obj)
  BY InitHolds DEF IInv
<1>3. \A i \in 1 .. 12 : i \in {1, 2, 3, 4, 5, 6, 7, 8, 9, 10, 11, 12}
  OBVIOUS
<1>4. \A i \in 1 .. Len(todo) : todo[i].op # "flush" /\ ~Leads(todo[i], "reset") /\ ~Backs(todo[i])
  BY <1>1, <1>3, SpawnFields DEF Leads, Backs
<1>5. \A i \in 1 .. Len(todo) : todo[i] \in BOps("spawn")
  BY <1>2, <1>4 DEF BOps, TodoOK
<1>6. todo \in Seq(BOps("spawn"))
  <2>1. todo \in Seq(Steps)
    BY <1>2 DEF TodoOK
  <2> QED
    BY <1>5, <2>1
<1>7. BPlan(todo, "spawn")
  BY <1>4, <1>6 DEF BPlan, Replaced
<1> QED
  BY <1>1, <1>4, <1>7 DEF BNow, BScript, FlushNext, HasFlush, BackupKnown

----------------
(* What a handler does, in one place *)

\* The processes after the call m with argument arg, answered with res.
Served(p, m, arg, res, pr, qr) ==
  /\ qr[p].st = "up"
  /\ \A q \in Pids : q # p => qr[q] = pr[q] \/ (m = "fork" /\ res = <<q>>)
  /\ m \notin {"shutdown", "rebind"} => qr[p].addr = pr[p].addr
  /\ m = "shutdown" => res # <<>> /\ qr[p].addr = Closed
  /\ m = "rebind" => qr[p].addr = IF res = <<>> THEN pr[p].addr ELSE arg
  /\ (m = "fork" /\ res # <<>>) =>
       \E q \in Pids : /\ res = <<q>> /\ q # p /\ pr[q].st = "none" /\ qr[q].st = "child" /\ qr[q].addr = q
                       /\ qr[q].sess = {} /\ qr[q].machine = pr[p].machine
  /\ res = <<>> \/ m \in {"get_version", "rebind", "fork"} => qr[p].machine = pr[p].machine
  /\ m \in {"shutdown", "destroy"} => qr[p].machine = {}
  /\ (m = "create" /\ res # <<>>) => qr[p].machine = {Booted}
  /\ (m \in {"run", "send_cmio_response", "read"} /\ res # <<>>) =>
       \E c \in pr[p].machine : \E d \in MachineAfter(m, arg, c) : qr[p].machine = {d} /\ res = <<d>>
  /\ m \in {"get_version", "destroy"} => res # <<>>

RequestServed(p, o) ==
  /\ proc[p].st = "up" /\ o \in proc[p].sess /\ proc[p].addr # Closed /\ call[o].st = "sent" /\ obj[o].srv = p
  /\ call'[o].st = "answered" /\ call'[o].m = call[o].m /\ call'[o].arg = call[o].arg /\ call'[o].keep = call[o].keep
  /\ \A x \in Clients : x # o => call'[x] = call[x]
  /\ UNCHANGED <<obj, late>> /\ UNCHANGED scriptVars
  /\ Served(p, call[o].m, call[o].arg, call'[o].res, proc, proc')

LEMMA ReplyFacts ==
  ASSUME NEW p \in Pids, NEW o \in Clients, NEW r, Reply(p, o, r), DOMAIN r.proc = Pids, DOMAIN r.proc[p] = ProcFields,
         DOMAIN call = Clients, DOMAIN call[o] = CallFields
  PROVE  /\ \A q \in Pids : q # p => proc'[q] = r.proc[q]
         /\ proc'[p].st = r.proc[p].st /\ proc'[p].addr = r.proc[p].addr /\ proc'[p].machine = r.proc[p].machine
         /\ call'[o].st = "answered" /\ call'[o].m = call[o].m /\ call'[o].arg = call[o].arg
         /\ call'[o].keep = call[o].keep /\ call'[o].res = r.res
         /\ \A x \in Clients : x # o => call'[x] = call[x]
         /\ UNCHANGED <<obj, late>>
<1> DEFINE x == [r.proc[p] EXCEPT !.sess = @ \ {o}]
           y == [[[call[o] EXCEPT !.st = "answered"] EXCEPT !.by = p] EXCEPT !.res = r.res]
<1>1. /\ call' = [call EXCEPT ![o] = y] /\ UNCHANGED <<obj, late>>
      /\ proc' = r.proc \/ proc' = [r.proc EXCEPT ![p] = x]
  BY DEF Reply
<1>2. y.st = "answered" /\ y.m = call[o].m /\ y.arg = call[o].arg /\ y.keep = call[o].keep /\ y.res = r.res
  BY DEF CallFields
<1>3. x.st = r.proc[p].st /\ x.addr = r.proc[p].addr /\ x.machine = r.proc[p].machine
  BY DEF ProcFields
<1> HIDE DEF x, y
<1>4. (\A q \in Pids : q # p => proc'[q] = r.proc[q]) /\ (proc'[p] = r.proc[p] \/ proc'[p] = x)
  BY <1>1
<1>5. call'[o] = y /\ \A z \in Clients : z # o => call'[z] = call[z]
  BY <1>1
<1> QED
  BY <1>1, <1>2, <1>3, <1>4, <1>5

\* A handler that changes at most a machine, to M.
MachineOnly(p, r, M) == (r.proc = proc /\ M = proc[p].machine) \/ r.proc = [proc EXCEPT ![p].machine = M]
Suits(p, o, r, M) ==
  \A qr : (\A q \in Pids : q # p => qr[q] = proc[q]) /\ qr[p].st = "up" /\ qr[p].addr = proc[p].addr /\ qr[p].machine = M
             => Served(p, call[o].m, call[o].arg, r.res, proc, qr)
LEMMA MachineServed ==
  ASSUME IInv, AInv, NEW p \in Pids, NEW o \in Clients, Handle(p, o), NEW r, Reply(p, o, r), NEW M,
         MachineOnly(p, r, M), Suits(p, o, r, M)
  PROVE  RequestServed(p, o)
<1>1. /\ call[o].st = "sent" /\ proc[p].st = "up" /\ o \in proc[p].sess /\ obj[o].srv = p /\ proc[p].addr # Closed
      /\ DOMAIN proc = Pids /\ DOMAIN proc[p] = ProcFields /\ DOMAIN call = Clients /\ DOMAIN call[o] = CallFields
  BY RequestFacts
<1> DEFINE x == [proc[p] EXCEPT !.machine = M]
<1>2. x.st = proc[p].st /\ x.addr = proc[p].addr /\ x.machine = M /\ DOMAIN x = ProcFields
  BY <1>1 DEF ProcFields
<1>3. r.proc = proc \/ r.proc = [proc EXCEPT ![p] = x]
  BY DEF MachineOnly
<1> HIDE DEF x
<1>4. /\ DOMAIN r.proc = Pids /\ DOMAIN r.proc[p] = ProcFields /\ \A q \in Pids : q # p => r.proc[q] = proc[q]
      /\ r.proc[p].st = "up" /\ r.proc[p].addr = proc[p].addr
  BY <1>1, <1>2, <1>3
<1>5. r.proc[p].machine = M
  <2>1. CASE r.proc = proc /\ M = proc[p].machine
    BY <2>1
  <2>2. CASE r.proc = [proc EXCEPT ![p].machine = M]
    <3>1. r.proc[p] = [proc[p] EXCEPT !.machine = M]
      BY <1>1, <2>2
    <3> QED
      BY <1>1, <3>1 DEF ProcFields
  <2> QED
    BY <2>1, <2>2 DEF MachineOnly
<1>6. /\ \A q \in Pids : q # p => proc'[q] = r.proc[q]
      /\ proc'[p].st = r.proc[p].st /\ proc'[p].addr = r.proc[p].addr /\ proc'[p].machine = r.proc[p].machine
      /\ call'[o].st = "answered" /\ call'[o].m = call[o].m /\ call'[o].arg = call[o].arg
      /\ call'[o].keep = call[o].keep /\ call'[o].res = r.res
      /\ \A z \in Clients : z # o => call'[z] = call[z]
      /\ UNCHANGED <<obj, late>>
  BY <1>1, <1>4, ReplyFacts
<1>7. Served(p, call[o].m, call[o].arg, r.res, proc, proc')
  BY <1>4, <1>5, <1>6 DEF Suits
<1> QED
  BY <1>1, <1>6, <1>7 DEF RequestServed, Handle

LEMMA ShutdownServed ==
  ASSUME IInv, AInv, NEW p \in Pids, NEW o \in Clients, Handle(p, o), call[o].m = "shutdown",
         Reply(p, o, jsonrpc_shutdown_handler(p, o))
  PROVE  RequestServed(p, o)
<1> DEFINE r == jsonrpc_shutdown_handler(p, o)
           x == [[[proc[p] EXCEPT !.machine = {}] EXCEPT !.addr = Closed] EXCEPT !.sess = @ \cap {o}]
<1>1. /\ call[o].st = "sent" /\ proc[p].st = "up" /\ o \in proc[p].sess /\ obj[o].srv = p /\ proc[p].addr # Closed
      /\ DOMAIN proc = Pids /\ DOMAIN proc[p] = ProcFields /\ DOMAIN call = Clients /\ DOMAIN call[o] = CallFields
  BY RequestFacts
<1>2. r.proc = [proc EXCEPT ![p] = x] /\ r.res = <<TRUE>>
  BY DEF jsonrpc_shutdown_handler, Ok, close_sessions, close_acceptor
<1>3. DOMAIN x = ProcFields /\ x.st = "up" /\ x.addr = Closed /\ x.machine = {}
  BY <1>1 DEF ProcFields
<1>4. Reply(p, o, r)
  OBVIOUS
<1> HIDE DEF x, r
<1>5. r.proc[p] = x /\ DOMAIN r.proc = Pids /\ \A q \in Pids : q # p => r.proc[q] = proc[q]
  BY <1>1, <1>2, UpdateFacts
<1>6. /\ \A q \in Pids : q # p => proc'[q] = r.proc[q]
      /\ proc'[p].st = r.proc[p].st /\ proc'[p].addr = r.proc[p].addr /\ proc'[p].machine = r.proc[p].machine
      /\ call'[o].st = "answered" /\ call'[o].m = call[o].m /\ call'[o].arg = call[o].arg
      /\ call'[o].keep = call[o].keep /\ call'[o].res = r.res
      /\ \A z \in Clients : z # o => call'[z] = call[z]
      /\ UNCHANGED <<obj, late>>
  BY <1>1, <1>3, <1>4, <1>5, ReplyFacts
<1>7. r.res # <<>>
  BY <1>2
<1>8. Served(p, call[o].m, call[o].arg, r.res, proc, proc')
  BY <1>3, <1>5, <1>6, <1>7 DEF Served
<1> QED
  BY <1>1, <1>6, <1>8 DEF RequestServed, Handle

LEMMA RebindServed ==
  ASSUME IInv, AInv, NEW p \in Pids, NEW o \in Clients, Handle(p, o), call[o].m = "rebind",
         Reply(p, o, jsonrpc_rebind_handler(p, o, call[o].arg))
  PROVE  RequestServed(p, o)
<1> DEFINE r == jsonrpc_rebind_handler(p, o, call[o].arg)
           x == [proc[p] EXCEPT !.addr = call[o].arg]
<1>1. /\ call[o].st = "sent" /\ proc[p].st = "up" /\ o \in proc[p].sess /\ obj[o].srv = p /\ proc[p].addr # Closed
      /\ DOMAIN proc = Pids /\ DOMAIN proc[p] = ProcFields /\ DOMAIN call = Clients /\ DOMAIN call[o] = CallFields
  BY RequestFacts
<1>2. /\ \/ r.proc = proc /\ r.res = <<call[o].arg>> /\ proc[p].addr = call[o].arg
         \/ r.proc = proc /\ r.res = <<>>
         \/ r.proc = [proc EXCEPT ![p] = x] /\ r.res = <<call[o].arg>>
  BY DEF jsonrpc_rebind_handler, Ok, Error
<1>3. DOMAIN x = ProcFields /\ x.st = "up" /\ x.addr = call[o].arg /\ x.machine = proc[p].machine
  BY <1>1 DEF ProcFields
<1>4. Reply(p, o, r)
  OBVIOUS
<1> HIDE DEF x, r
<1>5. /\ r.proc[p] = x \/ r.proc[p] = proc[p]
      /\ DOMAIN r.proc = Pids /\ \A q \in Pids : q # p => r.proc[q] = proc[q]
  BY <1>1, <1>2, UpdateFacts
<1>6. /\ \A q \in Pids : q # p => proc'[q] = r.proc[q]
      /\ proc'[p].st = r.proc[p].st /\ proc'[p].addr = r.proc[p].addr /\ proc'[p].machine = r.proc[p].machine
      /\ call'[o].st = "answered" /\ call'[o].m = call[o].m /\ call'[o].arg = call[o].arg
      /\ call'[o].keep = call[o].keep /\ call'[o].res = r.res
      /\ \A z \in Clients : z # o => call'[z] = call[z]
      /\ UNCHANGED <<obj, late>>
  BY <1>1, <1>3, <1>4, <1>5, ReplyFacts
<1>7. r.proc[p].addr = IF r.res = <<>> THEN proc[p].addr ELSE call[o].arg
  <2>1. r.proc = [proc EXCEPT ![p] = x] => r.proc[p] = x
    BY <1>1, UpdateFacts
  <2>2. <<call[o].arg>> # <<>>
    OBVIOUS
  <2> QED
    BY <1>2, <1>3, <2>1, <2>2
<1>8. Served(p, call[o].m, call[o].arg, r.res, proc, proc')
  BY <1>1, <1>3, <1>5, <1>6, <1>7 DEF Served
<1> QED
  BY <1>1, <1>6, <1>8 DEF RequestServed, Handle

LEMMA ForkServed ==
  ASSUME IInv, AInv, NEW p \in Pids, NEW o \in Clients, Handle(p, o), call[o].m = "fork", Unused # {},
         Reply(p, o, jsonrpc_fork_handler(p, o))
  PROVE  RequestServed(p, o)
<1> DEFINE r == jsonrpc_fork_handler(p, o)
           q == CHOOSE q \in Unused : \A z \in Unused : q <= z
           x == [proc[p] EXCEPT !.st = "child", !.addr = q, !.inherits = @ \cup {proc[p].addr}, !.sess = {}, !.copies = proc[p].sess]
<1>1. /\ call[o].st = "sent" /\ proc[p].st = "up" /\ o \in proc[p].sess /\ obj[o].srv = p /\ proc[p].addr # Closed
      /\ DOMAIN proc = Pids /\ DOMAIN proc[p] = ProcFields /\ DOMAIN call = Clients /\ DOMAIN call[o] = CallFields
      /\ ProcOK(proc, obj) /\ AProc(proc)
  BY RequestFacts DEF IInv, AInv
<1>2. r.proc = [proc EXCEPT ![q] = x] /\ r.res = <<q>>
  BY DEF jsonrpc_fork_handler, Ok
<1>3. DOMAIN x = ProcFields /\ x.st = "child" /\ x.addr = q /\ x.sess = {} /\ x.machine = proc[p].machine
  BY <1>1 DEF ProcFields
<1>4. Reply(p, o, r)
  OBVIOUS
<1>5. \E u \in Pids : r.res = <<u>> /\ Forked(proc, r.proc, p, u)
  <2>1. r.proc = jsonrpc_fork_handler(p, o).proc
    OBVIOUS
  <2> QED
    BY <1>1, <2>1, ForkedProc
<1> HIDE DEF x, r, q
<1>6. q \in Pids /\ Forked(proc, r.proc, p, q)
  BY <1>2, <1>5
<1>7. q # p /\ proc[q].st = "none"
  BY <1>6 DEF Forked
<1>8. /\ r.proc[q] = x /\ DOMAIN r.proc = Pids /\ (\A u \in Pids : u # q => r.proc[u] = proc[u]) /\ r.proc[p] = proc[p]
  BY <1>1, <1>2, <1>6, <1>7, UpdateFacts
<1>9. /\ \A u \in Pids : u # p => proc'[u] = r.proc[u]
      /\ proc'[p].st = r.proc[p].st /\ proc'[p].addr = r.proc[p].addr /\ proc'[p].machine = r.proc[p].machine
      /\ call'[o].st = "answered" /\ call'[o].m = call[o].m /\ call'[o].arg = call[o].arg
      /\ call'[o].keep = call[o].keep /\ call'[o].res = r.res
      /\ \A z \in Clients : z # o => call'[z] = call[z]
      /\ UNCHANGED <<obj, late>>
  BY <1>1, <1>4, <1>8, ReplyFacts
<1>10. proc'[q].st = "child" /\ proc'[q].addr = q /\ proc'[q].sess = {} /\ proc'[q].machine = proc[p].machine
  BY <1>3, <1>6, <1>7, <1>8, <1>9
<1>11. \A u \in Pids : u # p => proc'[u] = proc[u] \/ r.res = <<u>>
  BY <1>2, <1>8, <1>9
<1>12. Served(p, call[o].m, call[o].arg, r.res, proc, proc')
  BY <1>1, <1>2, <1>6, <1>7, <1>8, <1>9, <1>10, <1>11 DEF Served
<1> QED
  BY <1>1, <1>9, <1>12 DEF RequestServed, Handle

\* Every request that is handled is served.
LEMMA HandleServed ==
  ASSUME IInv, AInv, NEW p \in Pids, NEW o \in Clients, Handle(p, o)
  PROVE  RequestServed(p, o)
<1>0. proc[p].st = "up" /\ DOMAIN proc = Pids /\ DOMAIN proc[p] = ProcFields
  BY RequestFacts
<1>1. ASSUME NEW r, Reply(p, o, r), r.proc = proc, r.res = <<>>,
             call[o].m \notin {"shutdown", "destroy", "get_version"}
      PROVE  RequestServed(p, o)
  <2> DEFINE M == proc[p].machine
  <2>1. Suits(p, o, r, M)
    BY <1>1 DEF Served, Suits
  <2>2. MachineOnly(p, r, M)
    BY <1>1 DEF MachineOnly
  <2> HIDE DEF M
  <2> QED
    BY <1>1, <2>1, <2>2, MachineServed
<1>2. CASE call[o].m = "get_version" /\ Reply(p, o, jsonrpc_get_version_handler(p, o))
  <2> DEFINE r == jsonrpc_get_version_handler(p, o)
             M == proc[p].machine
  <2>1. r.proc = proc /\ r.res = <<0>> /\ Reply(p, o, r)
    BY <1>2 DEF jsonrpc_get_version_handler, Ok
  <2>2. r.res # <<>>
    BY <2>1
  <2> HIDE DEF r
  <2>3. Suits(p, o, r, M)
    BY <1>2, <2>2 DEF Served, Suits
  <2>4. MachineOnly(p, r, M)
    BY <2>1 DEF MachineOnly
  <2> HIDE DEF M
  <2> QED
    BY <2>1, <2>3, <2>4, MachineServed
<1>3. CASE call[o].m = "destroy" /\ Reply(p, o, jsonrpc_machine_destroy_handler(p, o))
  <2> DEFINE r == jsonrpc_machine_destroy_handler(p, o)
  <2>0. PICK M : M = {}
    OBVIOUS
  <2>1. r.proc = [proc EXCEPT ![p].machine = M] /\ r.res = <<TRUE>> /\ Reply(p, o, r)
    BY <1>3, <2>0 DEF jsonrpc_machine_destroy_handler, Ok
  <2>2. r.res # <<>>
    BY <2>1
  <2> HIDE DEF r
  <2>3. Suits(p, o, r, M)
    BY <1>3, <2>0, <2>2 DEF Served, Suits
  <2>4. MachineOnly(p, r, M) /\ Reply(p, o, r)
    BY <2>1 DEF MachineOnly
  <2> QED
    BY <2>3, <2>4, MachineServed
<1>4. CASE call[o].m = "create" /\ Reply(p, o, jsonrpc_machine_create_handler(p, o, Booted))
  <2> DEFINE r == jsonrpc_machine_create_handler(p, o, Booted)
  <2>0. PICK M : M = {Booted}
    OBVIOUS
  <2>1. Reply(p, o, r) /\ ((r.proc = proc /\ r.res = <<>>) \/ (r.proc = [proc EXCEPT ![p].machine = M] /\ r.res = <<TRUE>>))
    BY <1>4, <2>0 DEF jsonrpc_machine_create_handler, Ok, Error
  <2>2. <<TRUE>> # <<>>
    OBVIOUS
  <2> HIDE DEF r
  <2>3. CASE r.proc = proc /\ r.res = <<>>
    BY <1>1, <1>4, <2>1, <2>3
  <2>4. CASE r.proc = [proc EXCEPT ![p].machine = M] /\ r.res = <<TRUE>>
    <3>1. Suits(p, o, r, M)
      BY <1>4, <2>0, <2>2, <2>4 DEF Served, Suits
    <3>2. MachineOnly(p, r, M) /\ Reply(p, o, r)
      BY <2>1, <2>4 DEF MachineOnly
    <3> QED
      BY <3>1, <3>2, MachineServed
  <2> QED
    BY <2>1, <2>3, <2>4
<1>5. ASSUME call[o].m \in {"run", "send_cmio_response", "read"}, NEW c \in proc[p].machine,
             NEW d \in MachineAfter(call[o].m, call[o].arg, c), Reply(p, o, MachineHandler(p, d))
      PROVE  RequestServed(p, o)
  <2> DEFINE r == MachineHandler(p, d)
             M == {d}
  <2>1. Reply(p, o, r) /\ r.proc = [proc EXCEPT ![p].machine = M] /\ r.res = <<d>>
    BY <1>5 DEF MachineHandler, Ok
  <2>2. <<d>> # <<>>
    OBVIOUS
  <2> HIDE DEF r
  <2>3. Suits(p, o, r, M)
    BY <1>5, <2>1, <2>2 DEF Served, Suits
  <2>4. MachineOnly(p, r, M) /\ Reply(p, o, r)
    BY <2>1 DEF MachineOnly
  <2> HIDE DEF M
  <2> QED
    BY <2>3, <2>4, MachineServed
<1>6. CASE HandleServer(p, o)
  <2>1. CASE Requested(p, o, "get_version") /\ Reply(p, o, jsonrpc_get_version_handler(p, o))
    BY <1>2, <2>1 DEF Requested
  <2>2. CASE Requested(p, o, "shutdown") /\ Reply(p, o, jsonrpc_shutdown_handler(p, o))
    BY <2>2, ShutdownServed DEF Requested
  <2>3. CASE Requested(p, o, "rebind") /\ Reply(p, o, jsonrpc_rebind_handler(p, o, call[o].arg))
    BY <2>3, RebindServed DEF Requested
  <2>4. CASE (Requested(p, o, "rebind") \/ Requested(p, o, "fork")) /\ Reply(p, o, Error(proc))
    BY <1>1, <2>4 DEF Error, Requested
  <2>5. CASE Requested(p, o, "fork") /\ Unused # {} /\ Reply(p, o, jsonrpc_fork_handler(p, o))
    BY <2>5, ForkServed DEF Requested
  <2>6. CASE Requested(p, o, "destroy") /\ Reply(p, o, jsonrpc_machine_destroy_handler(p, o))
    BY <1>3, <2>6 DEF Requested
  <2> QED
    BY <1>6, <2>1, <2>2, <2>3, <2>4, <2>5, <2>6 DEF HandleServer
<1>7. CASE HandleMachine(p, o)
  <2>1. CASE Requested(p, o, "create") /\ Reply(p, o, jsonrpc_machine_create_handler(p, o, Booted))
    BY <1>4, <2>1 DEF Requested
  <2>2. ASSUME NEW m \in {"run", "send_cmio_response", "read"}, Requested(p, o, m),
               IF proc[p].machine = {} THEN Reply(p, o, Error(proc))
               ELSE \E c \in proc[p].machine : \E d \in MachineAfter(m, call[o].arg, c) : Reply(p, o, MachineHandler(p, d))
        PROVE  RequestServed(p, o)
    <3>1. call[o].m = m
      BY <2>2 DEF Requested
    <3>2. CASE proc[p].machine = {}
      BY <1>1, <2>2, <3>1, <3>2 DEF Error
    <3>3. CASE proc[p].machine # {}
      BY <1>5, <2>2, <3>1, <3>3
    <3> QED
      BY <3>2, <3>3
  <2> QED
    BY <1>7, <2>1, <2>2 DEF HandleMachine
<1> QED
  BY <1>6, <1>7 DEF Handle

\* The object of the backup is left alone, or its stream changes.
LEMMA StreamB ==
  ASSUME BNow, NEW o \in Clients, Touches(o, obj', proc', call'), UNCHANGED scriptVars
  PROVE  BThen
<1>1. obj'["b"].nil = obj["b"].nil /\ obj'["b"].ok = obj["b"].ok
  BY DEF Touches, Clients
<1>2. UNCHANGED <<todo, phase>>
  BY DEF scriptVars
<1> QED
  BY <1>1, <1>2, BSame

LEMMA CallSendTouches ==
  ASSUME IInv, AInv, CallSend
  PROVE  /\ todo[1].o \in Clients /\ Touches(todo[1].o, obj', proc', call') /\ UNCHANGED <<late, faults>> /\ UNCHANGED scriptVars
         /\ call[todo[1].o].st = "idle" /\ call'[todo[1].o].st = "sent" /\ todo # <<>>
<1> DEFINE c == todo[1]
<1>1. Head(todo) = c /\ c.o \in Clients /\ c.keep \in BOOLEAN /\ todo # <<>>
  BY DoingCall DEF CallSend
<1>2. Send(c.o, c.m, c.arg, c.keep) /\ UNCHANGED scriptVars
  BY <1>1 DEF CallSend
<1>3. UNCHANGED faults
  BY <1>2 DEF Send
<1> HIDE DEF c
<1>4. /\ Touches(c.o, obj', proc', call') /\ call[c.o].st = "idle" /\ UNCHANGED late /\ call'[c.o].st = "sent"
  BY <1>1, <1>2, SendTouches
<1> QED
  BY <1>1, <1>2, <1>3, <1>4 DEF c

LEMMA ObserverTouches ==
  ASSUME IInv, AInv, Observer
  PROVE  /\ Touches("o", obj', proc', call') /\ UNCHANGED scriptVars
         /\ faults' = <<>> => UNCHANGED late /\ faults = <<>>
<1>1. /\ "o" \in Clients /\ UNCHANGED scriptVars /\ DOMAIN call = Clients
  BY DEF Clients, Observer, IInv, CallOK
<1>2. ASSUME call' = [call EXCEPT !["o"] = Idle]
      PROVE  call'["o"].st = "idle" /\ \A x \in Clients : x # "o" => call'[x] = call[x]
  BY <1>1, <1>2, IdleField
<1>3. CASE Send("o", "get_version", Closed, TRUE)
  <2>1. UNCHANGED faults
    BY <1>3 DEF Send
  <2> QED
    BY <1>1, <1>3, <2>1, SendTouches
<1>4. CASE SendFails("o")
  <2>1. /\ proc' = CloseStream(proc, "o") /\ obj' = [obj EXCEPT !["o"] = Disconnected(@)] /\ UNCHANGED <<call, late, faults>>
        /\ call["o"].st = "idle"
    BY <1>4 DEF SendFails
  <2> QED
    BY <1>1, <2>1, CutTouches
<1>5. CASE Receive("o", AfterAnswer("o"))
  <2>1. /\ proc' = (IF call["o"].keep THEN proc ELSE CloseStream(proc, "o")) /\ obj' = AfterAnswer("o")
        /\ call' = [call EXCEPT !["o"] = Idle] /\ UNCHANGED <<late, faults>>
    BY <1>5 DEF Receive
  <2> QED
    BY <1>1, <1>2, <2>1, AnswerTouches
<1>6. CASE Broken("o") /\ ReceiveFails("o")
  <2>1. /\ proc' = CloseStream(proc, "o") /\ obj' = [obj EXCEPT !["o"] = Disconnected(@)]
        /\ call' = [call EXCEPT !["o"] = Idle]
    BY <1>6 DEF ReceiveFails
  <2>2. Touches("o", obj', proc', call')
    BY <1>1, <1>2, <2>1, CutTouches
  <2>3. UNCHANGED <<late, faults>>
    BY <1>6 DEF ReceiveFails, Broken
  <2> QED
    BY <1>1, <2>2, <2>3
<1> QED
  BY <1>3, <1>4, <1>5, <1>6 DEF Observer

LEMMA CallFailsTouches ==
  ASSUME IInv, AInv, CallFails
  PROVE  Touches(todo[1].o, obj', proc', call') /\ todo[1].o \in Clients /\ todo # <<>> /\ Raise
<1> DEFINE o == todo[1].o
<1>1. /\ Head(todo) = todo[1] /\ o \in Users /\ o \in Clients /\ todo # <<>>
  BY DoingCall DEF CallFails
<1>2. DOMAIN call = Clients /\ Raise
  BY DEF CallFails, IInv, CallOK
<1> HIDE DEF o
<1>3. ASSUME call' = [call EXCEPT ![o] = Idle]
      PROVE  call'[o].st = "idle" /\ \A x \in Clients : x # o => call'[x] = call[x]
  BY <1>1, <1>2, <1>3, IdleField
<1>4. CASE SendFails(o)
  <2>1. /\ proc' = CloseStream(proc, o) /\ obj' = [obj EXCEPT ![o] = Disconnected(@)] /\ UNCHANGED <<call, late>>
        /\ call[o].st = "idle"
    BY <1>4 DEF SendFails
  <2> QED
    BY <1>1, <1>2, <2>1, CutTouches DEF o
<1>5. CASE ReceiveFails(o)
  <2>1. /\ proc' = CloseStream(proc, o) /\ obj' = [obj EXCEPT ![o] = Disconnected(@)]
        /\ call' = [call EXCEPT ![o] = Idle]
    BY <1>5 DEF ReceiveFails
  <2> QED
    BY <1>1, <1>2, <1>3, <2>1, CutTouches DEF o
<1>6. CASE Receive(o, AfterAnswer(o))
  <2>1. /\ proc' = (IF call[o].keep THEN proc ELSE CloseStream(proc, o)) /\ obj' = AfterAnswer(o)
        /\ call' = [call EXCEPT ![o] = Idle]
    BY <1>6 DEF Receive
  <2> QED
    BY <1>1, <1>2, <1>3, <2>1, AnswerTouches DEF o
<1> QED
  BY <1>1, <1>4, <1>5, <1>6 DEF CallFails, o

\* Where the script stands is kept by every step.
LEMMA NextB ==
  ASSUME IInv, AInv, OInv, BNow, [Next]_vars
  PROVE  BThen
<1>1. ASSUME UNCHANGED scriptVars, UNCHANGED obj PROVE BThen
  BY <1>1, BSame DEF scriptVars
<1>2. CASE CallFails
  <2>1. Touches(todo[1].o, obj', proc', call') /\ todo[1].o \in Clients /\ todo # <<>> /\ Raise
    BY <1>2, CallFailsTouches
  <2>2. obj'["b"].nil = obj["b"].nil /\ obj'["b"].ok = obj["b"].ok
    BY <2>1 DEF Touches, Clients
  <2> QED
    BY <2>1, <2>2, BRaise
<1>3. CASE CallSend
  BY <1>3, CallSendTouches, StreamB
<1>4. CASE Observer
  BY <1>4, ObserverTouches, StreamB DEF Clients
<1>5. CASE Script
  BY <1>2, <1>3, <1>5, CallReturnsB, LocalStepB, SpawnStepB, LoopB, LoopRunB, ClosersB DEF Script
<1>6. CASE \E p \in Pids : \E o \in Clients : Handle(p, o)
  <2>1. UNCHANGED scriptVars /\ UNCHANGED obj
    BY <1>6, HandleServed DEF RequestServed
  <2> QED
    BY <1>1, <2>1
<1>7. CASE \E p \in Pids : Child(p) \/ Leave(p) \/ (Crash(p) /\ UNCHANGED scriptVars)
  BY <1>1, <1>7 DEF Child, ForkChild, Leave, Exit, Crash
<1>8. CASE \E c \in late : HandleLate(c, LateContents(c)) /\ UNCHANGED scriptVars
  BY <1>1, <1>8 DEF HandleLate
<1>9. CASE UNCHANGED vars
  BY <1>1, <1>9 DEF vars, scriptVars
<1> QED
  BY <1>4, <1>5, <1>6, <1>7, <1>8, <1>9 DEF Next

SNow == BServe(phase, obj, call, proc, late)
SThen == BServe(phase', obj', call', proc', late')

\* Nobody but the script asks the servers it keeps in the background.
LEMMA FarAway ==
  ASSUME IInv, AInv, phase = "loop", NEW p \in Pids, NEW o \in proc[p].sess, call[o].st # "idle", proc[p].addr = p
  PROVE  /\ o # "o" /\ obj[o].addr = p
         /\ o = "m" => ~obj["b"].ok /\ call["m"].m = "rebind"
         /\ o = "b" => obj["b"].ok /\ call["b"].m = "shutdown"
<1>1. o \in Clients /\ ObjOK(obj)
  BY DEF IInv, ProcOK, ProcessOK
<1>2. SessionsLead(proc, obj) /\ AtHome(todo, obj) /\ ACall(call, obj, proc) /\ AObj(obj)
  BY DEF AInv, ALive, Live
<1>3. obj[o].addr = p /\ obj[o].ok
  BY <1>1, <1>2 DEF SessionsLead, ACall
<1>4. p # Home
  BY AddressFacts DEF Home
<1>5. o # "o"
  BY <1>2, <1>3, <1>4 DEF AObj
<1>6. o \in Users
  BY <1>1, <1>5 DEF Users, Clients
<1>7. /\ todo # <<>> /\ todo[1].op = "call" /\ todo[1].o = o /\ todo[1].m = call[o].m /\ ~obj[o].nil
      /\ SoundCall(todo[1]) /\ PlanStep(todo, 1, phase, obj["b"].ok, grand)
  BY <1>1, <1>6, RequestPlan
<1>8. ASSUME o = "m" PROVE ~obj["b"].ok /\ call["m"].m = "rebind"
  <2>1. RebindNext(todo)
    BY <1>2, <1>3, <1>4, <1>7, <1>8 DEF AtHome
  <2>2. BackupOrder(todo, 1, obj["b"].ok) /\ todo[1].m = "rebind"
    BY <1>7, <2>1 DEF PlanStep, RebindNext, Rebinds
  <2> QED
    BY <1>7, <1>8, <2>2 DEF BackupOrder
<1>9. o = "b" => obj["b"].ok /\ call["b"].m = "shutdown"
  BY <1>3, <1>7 DEF SoundCall
<1> QED
  BY <1>3, <1>5, <1>8, <1>9

\* A stream of another client, or a request of the script.
LEMMA StreamServes ==
  ASSUME IInv, AInv, SNow, NEW o \in Clients, Touches(o, obj', proc', call'), UNCHANGED phase, UNCHANGED late,
         o = "b" => call'["b"].st = "sent", o = "m" => call'["m"].st # "answered"
  PROVE  SThen
<1> SUFFICES ASSUME phase = "loop" PROVE BackupServes(obj', call', proc') /\ ForkServes(call', proc')
  BY DEF SNow, SThen, BServe
<1>1. BackupServes(obj, call, proc) /\ ForkServes(call, proc) /\ CallOK(call, todo, obj) /\ AObj(obj)
  BY DEF SNow, BServe, IInv, AInv
<1>2. /\ SameSockets(proc, proc')
      /\ \A x \in Clients : x # o => /\ obj'[x] = obj[x] /\ call'[x] = call[x]
                                     /\ \A p \in Pids : x \in proc'[p].sess <=> x \in proc[p].sess
      /\ obj'[o].addr = obj[o].addr /\ obj'[o].ok = obj[o].ok
      /\ Cut(o, obj', proc', call') \/ Kept(o, obj', proc', call') \/ Linked(o, obj', proc', call')
  BY DEF Touches
<1>3. BackupServes(obj', call', proc')
  <2> SUFFICES ASSUME obj'["b"].ok
               PROVE  /\ call'["b"].st = "answered" => call'["b"].res # <<>>
                      /\ call'["b"].st # "answered" =>
                           /\ Runs(proc'[obj'["b"].addr]) /\ proc'[obj'["b"].addr].addr = obj'["b"].addr
                           /\ call'["b"].st = "sent" => "b" \in proc'[obj'["b"].addr].sess
    BY DEF BackupServes
  <2>1. obj["b"].ok /\ obj'["b"].addr = obj["b"].addr /\ obj["b"].addr \in Pids
    BY <1>1, <1>2 DEF AObj, Clients
  <2> DEFINE a == obj["b"].addr
  <2>2. proc'[a].st = proc[a].st /\ proc'[a].addr = proc[a].addr
    BY <1>2, <2>1 DEF SameSockets
  <2>3. CASE o = "b"
    <3>1. Linked("b", obj', proc', call')
      BY <1>2, <2>3 DEF Cut, Kept
    <3>2. obj'["b"].srv = a /\ "b" \in proc'[a].sess /\ Runs(proc[a]) /\ proc[a].addr = a
      BY <2>1, <3>1 DEF Linked, Live
    <3> QED
      BY <2>1, <2>2, <2>3, <3>2 DEF Runs
  <2>4. CASE o # "b"
    BY <1>1, <1>2, <2>1, <2>2, <2>4 DEF BackupServes, Clients, Runs
  <2> QED
    BY <2>3, <2>4
<1>4. ForkServes(call', proc')
  <2> SUFFICES ASSUME call'["m"].st = "answered", call'["m"].m = "fork", call'["m"].res # <<>>
               PROVE  Runs(proc'[call'["m"].res[1]]) /\ proc'[call'["m"].res[1]].addr = call'["m"].res[1]
    BY DEF ForkServes
  <2>1. call'["m"] = call["m"]
    BY <1>2 DEF Clients
  <2> DEFINE q == call["m"].res[1]
  <2>2. q \in Pids
    BY <1>1, <2>1 DEF CallOK, CallRecordOK, Clients
  <2>3. Runs(proc[q]) /\ proc[q].addr = q
    BY <1>1, <2>1 DEF ForkServes
  <2> QED
    BY <1>2, <2>1, <2>2, <2>3 DEF SameSockets, Runs
<1> QED
  BY <1>3, <1>4

\* A handler.
LEMMA HandleServes ==
  ASSUME IInv, AInv, SNow, NEW p \in Pids, NEW o \in Clients, Handle(p, o)
  PROVE  SThen
<1>1. RequestServed(p, o)
  BY HandleServed
<1>2. /\ proc[p].st = "up" /\ o \in proc[p].sess /\ call[o].st = "sent" /\ obj[o].srv = p
      /\ call'[o].st = "answered" /\ call'[o].m = call[o].m
      /\ \A x \in Clients : x # o => call'[x] = call[x]
      /\ UNCHANGED <<obj, late, phase>>
      /\ Served(p, call[o].m, call[o].arg, call'[o].res, proc, proc')
  BY <1>1 DEF RequestServed, scriptVars
<1> SUFFICES ASSUME phase = "loop" PROVE BackupServes(obj, call', proc') /\ ForkServes(call', proc')
  BY <1>2 DEF SNow, SThen, BServe
<1>3. BackupServes(obj, call, proc) /\ ForkServes(call, proc) /\ CallOK(call, todo, obj) /\ AObj(obj) /\ AProc(proc)
  BY DEF SNow, BServe, IInv, AInv
<1>4. /\ proc[p].addr = p => /\ o # "o" /\ obj[o].addr = p
                             /\ o = "m" => ~obj["b"].ok /\ call["m"].m = "rebind"
                             /\ o = "b" => obj["b"].ok /\ call["b"].m = "shutdown"
  BY <1>2, FarAway
<1>5. ASSUME NEW q \in Pids, q # p, Runs(proc[q]) PROVE proc'[q] = proc[q]
  <2>1. proc'[q] = proc[q] \/ (call[o].m = "fork" /\ call'[o].res = <<q>>)
    BY <1>2, <1>5 DEF Served
  <2>2. ASSUME call[o].m = "fork", call'[o].res = <<q>> PROVE FALSE
    <3>1. call'[o].res # <<>>
      BY <2>2
    <3>2. PICK u \in Pids : call'[o].res = <<u>> /\ proc[u].st = "none"
      BY <1>2, <2>2, <3>1 DEF Served
    <3>3. u = q
      BY <2>2, <3>2
    <3> QED
      BY <1>5, <3>2, <3>3 DEF Runs
  <2> QED
    BY <2>1, <2>2
<1>6. BackupServes(obj, call', proc')
  <2> SUFFICES ASSUME obj["b"].ok
               PROVE  /\ call'["b"].st = "answered" => call'["b"].res # <<>>
                      /\ call'["b"].st # "answered" =>
                           /\ Runs(proc'[obj["b"].addr]) /\ proc'[obj["b"].addr].addr = obj["b"].addr
                           /\ call'["b"].st = "sent" => "b" \in proc'[obj["b"].addr].sess
    BY DEF BackupServes
  <2> DEFINE a == obj["b"].addr
  <2>1. a \in Pids
    BY <1>3 DEF AObj
  <2>2. CASE o = "b"
    <3>1. Runs(proc[a]) /\ proc[a].addr = a
      BY <1>2, <1>3, <2>2 DEF BackupServes
    <3>2. "b" \in Users /\ "b" \in Clients
      BY DEF Users, Clients
    <3>3. todo[1].o = "b" /\ todo[1].m = call["b"].m /\ SoundCall(todo[1])
      BY <1>2, <2>2, <3>2, RequestPlan
    <3>4. call["b"].m = "shutdown"
      BY <3>3 DEF SoundCall
    <3> QED
      BY <1>2, <2>2, <3>4 DEF Served
  <2>3. CASE o # "b"
    <3>1. call'["b"] = call["b"]
      BY <1>2, <2>3 DEF Clients
    <3>2. CASE call["b"].st = "answered"
      BY <1>3, <3>1, <3>2 DEF BackupServes
    <3>3. CASE call["b"].st # "answered"
      <4>1. Runs(proc[a]) /\ proc[a].addr = a /\ (call["b"].st = "sent" => "b" \in proc[a].sess)
        BY <1>3, <3>3 DEF BackupServes
      <4>2. p # a
        BY <1>2, <1>4, <2>3, <4>1 DEF Clients
      <4>3. proc'[a] = proc[a]
        BY <1>5, <2>1, <4>1, <4>2
      <4> QED
        BY <3>1, <3>3, <4>1, <4>3
    <3> QED
      BY <3>2, <3>3
  <2> QED
    BY <2>2, <2>3
<1>7. ForkServes(call', proc')
  <2> SUFFICES ASSUME call'["m"].st = "answered", call'["m"].m = "fork", call'["m"].res # <<>>
               PROVE  Runs(proc'[call'["m"].res[1]]) /\ proc'[call'["m"].res[1]].addr = call'["m"].res[1]
    BY DEF ForkServes
  <2>1. CASE o = "m"
    <3>1. PICK u \in Pids : call'["m"].res = <<u>> /\ proc'[u].st = "child" /\ proc'[u].addr = u
      BY <1>2, <2>1 DEF Served
    <3>2. call'["m"].res[1] = u
      BY <3>1
    <3> QED
      BY <3>1, <3>2 DEF Runs
  <2>2. CASE o # "m"
    <3>1. call'["m"] = call["m"]
      BY <1>2, <2>2 DEF Clients
    <3> DEFINE q == call["m"].res[1]
    <3>2. q \in Pids
      BY <1>3, <3>1 DEF CallOK, CallRecordOK, Clients
    <3>3. Runs(proc[q]) /\ proc[q].addr = q
      BY <1>3, <3>1 DEF ForkServes
    <3>4. "m" \in Users /\ "m" \in Clients /\ call["m"].st # "idle"
      BY <3>1 DEF Users, Clients
    <3>5. todo[1].o = "m"
      BY <3>4, RequestPlan
    <3>6. o # "b"
      <4> SUFFICES ASSUME o = "b" PROVE FALSE
        OBVIOUS
      <4>1. "b" \in Users
        BY DEF Users
      <4> QED
        BY <1>2, <3>5, <4>1, RequestPlan
    <3>7. p # q
      BY <1>4, <2>2, <3>3, <3>6 DEF Clients
    <3> QED
      BY <1>5, <3>1, <3>2, <3>3, <3>7
  <2> QED
    BY <2>1, <2>2
<1> QED
  BY <1>6, <1>7

\* A call of the script returns: the fork gives the backup.
LEMMA CallReturnsServes ==
  ASSUME IInv, AInv, BNow, SNow, CallReturns
  PROVE  SThen
<1>1. PICK c, o, v, ob : Back(c, o, v, ob)
  BY BackFacts
<1>2. /\ c = todo[1] /\ o = c.o /\ o \in Users /\ o \in Clients /\ c.op = "call" /\ SoundCall(c) /\ v = call[o].res[1]
      /\ call[o].st = "answered" /\ call[o].res # <<>> /\ call[o].m = c.m /\ (c.m = "fork" => v \in Pids)
      /\ UNCHANGED <<phase, late>> /\ (\A x \in Users : call'[x].st = "idle")
      /\ Leaves(c.then, o, v, ob, obj') /\ ob = AfterAnswer(o)
  BY <1>1 DEF Back
<1>3. /\ proc' = (IF call[o].keep THEN proc ELSE CloseStream(proc, o)) /\ call' = [call EXCEPT ![o] = Idle]
      /\ Head(todo) = todo[1] /\ DOMAIN call = Clients
  <2>1. Head(todo) = todo[1]
    BY DoingCall DEF CallReturns
  <2> QED
    BY <1>2, <2>1 DEF CallReturns, Receive, IInv, CallOK
<1> SUFFICES ASSUME phase = "loop" PROVE BackupServes(obj', call', proc') /\ ForkServes(call', proc')
  BY <1>2 DEF SNow, SThen, BServe
<1>4. ForkServes(call', proc')
  BY <1>2 DEF ForkServes, Users
<1>5. call'[o].st = "idle" /\ \A x \in Clients : x # o => call'[x] = call[x]
  BY <1>2, <1>3, IdleField
<1>6. Touches(o, ob, proc', call')
  BY <1>2, <1>3, <1>5, AnswerTouches
<1>7. SameSockets(proc, proc') /\ (o # "b" => ob["b"] = obj["b"])
  BY <1>6 DEF Touches, Clients
<1>8. BackupServes(obj', call', proc')
  <2> SUFFICES ASSUME obj'["b"].ok PROVE Runs(proc'[obj'["b"].addr]) /\ proc'[obj'["b"].addr].addr = obj'["b"].addr
    BY <1>2 DEF BackupServes, Users
  <2>1. c.then \notin {"no_backup", "rolled_back", "swap"} /\ ~(c.then = "reset" /\ o = "b")
    BY <1>2 DEF Leaves, NilObject
  <2>2. o # "b"
    BY <1>2, <2>1 DEF SoundCall
  <2>3. o = "m"
    BY <1>2, <2>2 DEF Users
  <2>4. CASE c.then = "backup"
    <3>1. c.m = "fork" /\ obj'["b"].addr = v
      BY <1>2, <2>4 DEF SoundCall, Leaves, NewObject
    <3>2. v \in Pids /\ Runs(proc[v]) /\ proc[v].addr = v
      BY <1>2, <2>3, <3>1 DEF SNow, BServe, ForkServes
    <3> QED
      BY <1>7, <3>1, <3>2 DEF SameSockets, Runs
  <2>5. CASE c.then # "backup"
    <3>1. obj'["b"] = obj["b"]
      BY <1>2, <1>7, <2>1, <2>2, <2>5 DEF Leaves
    <3>2. call["b"].st = "idle"
      BY <1>5, <1>2, <2>2 DEF Users, Clients
    <3>3. obj["b"].addr \in Pids
      BY <3>1 DEF AInv, AObj
    <3>4. Runs(proc[obj["b"].addr]) /\ proc[obj["b"].addr].addr = obj["b"].addr
      BY <3>1, <3>2 DEF SNow, BServe, BackupServes
    <3> QED
      BY <1>7, <3>1, <3>3, <3>4 DEF SameSockets, Runs
  <2> QED
    BY <2>4, <2>5
<1> QED
  BY <1>4, <1>8

\* A child begins to serve, a server that was told to stop exits.
LEMMA ProcessServes ==
  ASSUME IInv, AInv, SNow, NEW p \in Pids, Child(p) \/ Leave(p)
  PROVE  SThen
<1>1. UNCHANGED <<obj, call, late, phase>>
  BY DEF Child, ForkChild, Leave, Exit, scriptVars
<1>2. DOMAIN proc = Pids /\ DOMAIN proc[p] = ProcFields /\ AObj(obj) /\ CallOK(call, todo, obj)
  BY DEF IInv, ProcOK, ProcessOK, AInv
<1>3. ASSUME NEW q \in Pids, Runs(proc[q]), proc[q].addr = q
      PROVE  Runs(proc'[q]) /\ proc'[q].addr = q /\ proc'[q].sess = proc[q].sess
  <2>1. CASE Child(p)
    <3> DEFINE x == [proc[p] EXCEPT !.st = "up", !.inherits = {}, !.copies = {}]
    <3>1. x.st = "up" /\ x.addr = proc[p].addr /\ x.sess = proc[p].sess
      BY <1>2 DEF ProcFields
    <3>2. proc' = [proc EXCEPT ![p] = x]
      BY <2>1 DEF Child, ForkChild
    <3> HIDE DEF x
    <3>3. proc'[q] = IF q = p THEN x ELSE proc[q]
      BY <1>2, <3>2
    <3> QED
      BY <1>3, <3>1, <3>3 DEF Runs
  <2>2. CASE Leave(p)
    <3>1. proc[p].addr = Closed
      BY <2>2 DEF Leave, Exit
    <3>2. p # q
      BY <1>3, <3>1, AddressFacts
    <3>3. proc'[q] = proc[q]
      BY <1>2, <2>2, <3>2 DEF Leave, Exit, Killed
    <3> QED
      BY <1>3, <3>3
  <2> QED
    BY <2>1, <2>2
<1> SUFFICES ASSUME phase = "loop" PROVE BackupServes(obj, call, proc') /\ ForkServes(call, proc')
  BY <1>1 DEF SNow, SThen, BServe
<1>4. BackupServes(obj, call, proc) /\ ForkServes(call, proc)
  BY DEF SNow, BServe
<1>5. BackupServes(obj, call, proc')
  <2>1. obj["b"].ok => obj["b"].addr \in Pids
    BY <1>2 DEF AObj
  <2> QED
    BY <1>3, <1>4, <2>1 DEF BackupServes
<1>6. ForkServes(call, proc')
  <2>1. (call["m"].st = "answered" /\ call["m"].m = "fork" /\ call["m"].res # <<>>) => call["m"].res[1] \in Pids
    BY <1>2 DEF CallOK, CallRecordOK, Clients
  <2> QED
    BY <1>3, <1>4, <2>1 DEF ForkServes
<1> QED
  BY <1>5, <1>6

\* Outside the loop there is nothing to say but of late requests.
LEMMA OutOfLoop ==
  ASSUME SNow, phase' # "loop", UNCHANGED late
  PROVE  SThen
BY DEF SNow, SThen, BServe

LEMMA RaiseLeaves ==
  ASSUME AInv, Raise, todo # <<>>
  PROVE  phase' # "loop"
<1>1. phase \in Phases /\ phase # "ended"
  BY DEF AInv, APlan
<1> QED
  BY <1>1 DEF Raise, Phases

LEMMA CallFailsServes ==
  ASSUME IInv, AInv, SNow, CallFails, faults' = <<>>, faults = <<>>
  PROVE  SThen
<1>1. todo # <<>> /\ Raise
  BY CallFailsTouches
<1>2. phase' # "loop"
  BY <1>1, RaiseLeaves
<1>3. \A kind : ~Fault(kind)
  <2>1. \A kind : Append(faults, kind) # <<>>
    BY DEF SNow
  <2> QED
    BY <2>1 DEF Fault
<1>4. UNCHANGED late
  BY <1>3 DEF CallFails, SendFails, ReceiveFails, Receive
<1> QED
  BY <1>2, <1>4, OutOfLoop

LEMMA LocalStepServes ==
  ASSUME IInv, AInv, BNow, SNow, LocalStep
  PROVE  SThen
<1>1. todo # <<>> /\ todo \in Seq(Steps) /\ Head(todo) = todo[1] /\ 1 \in 1 .. Len(todo)
  BY TailOf DEF LocalStep, IInv, TodoOK
<1>2. UNCHANGED remoteVars
  BY DEF LocalStep
<1>3. UNCHANGED <<proc, obj, call, late>>
  BY <1>2 DEF remoteVars
<1>4. CASE phase' # "loop"
  BY <1>3, <1>4, OutOfLoop
<1>5. CASE phase' = "loop" /\ phase = "loop"
  BY <1>3, <1>5 DEF SNow, SThen
<1>6. CASE phase' = "loop" /\ phase # "loop"
  <2>1. ~Doing("raise") \/ ~Raise
    BY <1>1, <1>6, RaiseLeaves
  <2>2. Doing("loop")
    BY <1>6, <2>1 DEF LocalStep
  <2>3. todo[1].op = "loop"
    BY <1>1, <2>2 DEF Doing
  <2>4. todo[1] \in BOps(phase)
    BY <1>1 DEF BNow, BScript, BPlan
  <2>5. obj["b"].nil
    BY <2>3, <2>4 DEF BOps, BNow, BScript
  <2>6. ~obj["b"].ok
    BY <2>5 DEF IInv, ObjOK, ObjectOK, Clients
  <2>7. call["m"].st = "idle"
    BY <2>3 DEF IInv, CallOK, Current, Users
  <2>8. BackupServes(obj, call, proc) /\ ForkServes(call, proc)
    BY <2>6, <2>7 DEF BackupServes, ForkServes
  <2> QED
    BY <1>3, <2>8 DEF SNow, SThen, BServe
<1> QED
  BY <1>4, <1>5, <1>6

LEMMA SpawnStepServes ==
  ASSUME IInv, AInv, BNow, SNow, SpawnStep
  PROVE  SThen
<1>1. todo # <<>> /\ todo \in Seq(Steps) /\ Head(todo) = todo[1] /\ 1 \in 1 .. Len(todo)
  BY TailOf DEF SpawnStep, IInv, TodoOK
<1>2. todo[1].op \in {"spawn", "kill", "terminate", "wait", "connect", "end"}
  BY <1>1 DEF SpawnStep, Doing
<1>3. todo[1] \in BOps(phase) /\ PlanStep(todo, 1, phase, obj["b"].ok, grand)
  BY <1>1 DEF BNow, BScript, BPlan, AInv, APlan
<1>4. phase = "spawn"
  BY <1>2, <1>3 DEF BOps, PlanStep, PhaseOrder
<1>5. phase' # "loop" /\ UNCHANGED late
  BY <1>4 DEF SpawnStep
<1> QED
  BY <1>5, OutOfLoop

\* Faults aside, the backup answers until it is shut down.
LEMMA NextServes ==
  ASSUME IInv, AInv, BNow, SNow, faults = <<>>, [Next]_vars, faults' = <<>>
  PROVE  SThen
<1>1. CASE CallSend
  <2>1. /\ todo[1].o \in Clients /\ Touches(todo[1].o, obj', proc', call') /\ UNCHANGED late /\ UNCHANGED scriptVars
        /\ call'[todo[1].o].st = "sent"
    BY <1>1, CallSendTouches
  <2>2. UNCHANGED phase
    BY <2>1 DEF scriptVars
  <2> QED
    BY <2>1, <2>2, StreamServes
<1>2. CASE Observer
  <2>1. Touches("o", obj', proc', call') /\ UNCHANGED late /\ UNCHANGED scriptVars
    BY <1>2, ObserverTouches
  <2>2. UNCHANGED phase /\ "o" \in Clients
    BY <2>1 DEF scriptVars, Clients
  <2> QED
    BY <2>1, <2>2, StreamServes
<1>3. CASE Loop \/ LoopRun \/ Closers
  <2>1. UNCHANGED <<proc, obj, call, late, phase>>
    BY <1>3 DEF Loop, LoopRun, Closers, remoteVars
  <2> QED
    BY <2>1 DEF SNow, SThen
<1>4. CASE Script
  BY <1>1, <1>3, <1>4, CallReturnsServes, CallFailsServes, LocalStepServes, SpawnStepServes DEF Script
<1>5. CASE \E p \in Pids : \E o \in Clients : Handle(p, o)
  BY <1>5, HandleServes
<1>6. CASE \E p \in Pids : Child(p) \/ Leave(p)
  BY <1>6, ProcessServes
<1>7. CASE \E p \in Pids : Crash(p)
  <2>1. Append(faults, "crash") # <<>>
    OBVIOUS
  <2> QED
    BY <1>7, <2>1 DEF Crash, Fault
<1>8. CASE \E c \in late : HandleLate(c, LateContents(c)) /\ UNCHANGED scriptVars
  BY <1>8 DEF SNow, BServe
<1>9. CASE UNCHANGED vars
  <2>1. UNCHANGED <<proc, obj, call, late, phase>>
    BY <1>9 DEF vars
  <2> QED
    BY <2>1 DEF SNow, SThen
<1> QED
  BY <1>2, <1>4, <1>5, <1>6, <1>7, <1>8, <1>9 DEF Next

FNow == Flushed(todo, emitted, saved, verdicts)
FThen == Flushed(todo', emitted', saved', verdicts')

\* The flush is not lost, and nothing is added.
LEMMA KeepsFlushed ==
  ASSUME FNow, UNCHANGED <<emitted, saved, verdicts>>, HasFlush(todo) => HasFlush(todo')
  PROVE  FThen
BY DEF FNow, FThen, Flushed

\* An empty buffer has been flushed.
LEMMA EmptyFlushed ==
  ASSUME OInv', pending' = <<>>
  PROVE  FThen
<1>1. OKept(emitted', pending', saved', verdicts')
  BY DEF OInv
<1>2. \A t : ~In(t, pending')
  BY DEF In
<1> QED
  BY <1>1, <1>2 DEF OKept, FThen, Flushed

\* The first step is done, and was not the flush.
LEMMA TailFlushed ==
  ASSUME IInv, OInv, FNow, UNCHANGED <<emitted, saved, verdicts>>, todo # <<>>, todo[1].op # "flush", todo' = Tail(todo)
  PROVE  FThen
<1>1. HasFlush(todo) <=> HasFlush(Tail(todo)) \/ todo[1].op = "flush"
  BY OFirst
<1> QED
  BY <1>1, KeepsFlushed

LEMMA CallReturnsFlushed ==
  ASSUME IInv, AInv, OInv, BNow, FNow, CallReturns
  PROVE  FThen
<1>1. PICK c, o, v, ob : Back(c, o, v, ob)
  BY BackFacts
<1>2. /\ c = todo[1] /\ c.op = "call" /\ todo # <<>> /\ UNCHANGED <<emitted, saved, verdicts>>
      /\ todo' = IF c.then = "check" /\ v.at \in Manual THEN do_commit \o Local("after") ELSE Tail(todo)
  BY <1>1 DEF Back, CallReturns, KeepScript
<1>3. CASE todo' = Tail(todo)
  BY <1>2, <1>3, TailFlushed
<1>4. CASE c.then = "check"
  <2>1. ~HasFlush(todo)
    BY <1>2, <1>4 DEF BNow, BScript, FlushNext, Leads
  <2> QED
    BY <1>2, <2>1, KeepsFlushed
<1> QED
  BY <1>2, <1>3, <1>4

\* A call before the flush does not fail.
LEMMA CallFailsFlushed ==
  ASSUME IInv, AInv, OInv, BNow, SNow, FNow, CallFails, faults = <<>>, faults' = <<>>
  PROVE  FThen
<1>1. UNCHANGED <<emitted, saved, verdicts>>
  BY DEF CallFails, Raise, KeepScript
<1>2. /\ todo # <<>> /\ Head(todo) = todo[1] /\ todo[1].op = "call" /\ todo[1].o \in Users
      /\ SoundCall(todo[1]) /\ todo \in Seq(Steps) /\ Len(todo) \in Nat \ {0}
  BY DoingCall DEF CallFails
<1>3. ASSUME HasFlush(todo) PROVE FALSE
  <2>1. Leads(todo[1], "no_backup") /\ obj["b"].ok
    BY <1>2, <1>3 DEF BNow, BScript, FlushNext
  <2>2. PICK i \in 1 .. Len(todo) : todo[i].op = "flush"
    BY <1>3 DEF HasFlush
  <2>3. phase = "loop"
    <3>1. todo[i] \in BOps(phase)
      BY <2>2 DEF BNow, BScript, BPlan
    <3> QED
      BY <2>2, <3>1 DEF BOps
  <2>4. BackupServes(obj, call, proc) /\ obj["b"].addr \in Pids /\ CallOK(call, todo, obj)
    BY <2>1, <2>3 DEF SNow, BServe, AInv, AObj, IInv
  <2>5. todo[1].o = "b"
    <3>1. PlanStep(todo, 1, phase, obj["b"].ok, grand)
      BY <1>2 DEF AInv, APlan
    <3> QED
      BY <2>1, <3>1 DEF PlanStep
  <2>6. \A kind : ~Fault(kind)
    <3>1. \A kind : Append(faults, kind) # <<>>
      OBVIOUS
    <3> QED
      BY <3>1 DEF Fault
  <2> DEFINE a == obj["b"].addr
  <2>7. ~SendFails("b")
    <3> SUFFICES ASSUME call["b"].st = "idle" PROVE CanSend("b")
      BY DEF SendFails
    <3>1. obj["b"].srv = 0
      BY <2>4 DEF CallOK
    <3>2. Runs(proc[a]) /\ proc[a].addr = a
      BY <2>1, <2>4 DEF BackupServes
    <3>3. a \in Listening(a)
      BY <2>4, <3>2 DEF Listening, Alive, Runs
    <3> QED
      BY <2>1, <3>1, <3>3 DEF CanSend, Reuses
  <2>8. ~ReceiveFails("b")
    <3>1. ~Broken("b")
      <4> SUFFICES ASSUME call["b"].st = "sent", \A p \in Pids : Alive(p) => "b" \notin proc[p].sess PROVE FALSE
        BY DEF Broken
      <4>1. Runs(proc[a]) /\ "b" \in proc[a].sess
        BY <2>1, <2>4 DEF BackupServes
      <4> QED
        BY <2>4, <4>1 DEF Alive, Runs
    <3> QED
      BY <2>6, <3>1 DEF ReceiveFails
  <2>9. ~(call["b"].res = <<>> /\ Receive("b", AfterAnswer("b")))
    BY <2>1, <2>4 DEF BackupServes, Receive
  <2> QED
    BY <1>2, <2>5, <2>7, <2>8, <2>9 DEF CallFails
<1> QED
  BY <1>1, <1>3, KeepsFlushed

LEMMA LocalStepFlushed ==
  ASSUME IInv, AInv, OInv, OInv', BNow, FNow, LocalStep
  PROVE  FThen
<1>1. todo # <<>> /\ todo[1] = Head(todo)
  BY OFirst DEF LocalStep
<1>2. CASE Doing("raise") /\ Raise
  <2>1. todo[1].op = "raise" /\ UNCHANGED <<emitted, saved, verdicts>>
    BY <1>1, <1>2 DEF Doing, Raise, KeepScript
  <2>2. ~HasFlush(todo)
    BY <2>1 DEF BNow, BScript, FlushNext, Leads
  <2> QED
    BY <2>1, <2>2, KeepsFlushed
<1>3. CASE Doing("flush") /\ flush_pending_outputs("accepted")
  <2>1. pending' = <<>>
    BY <1>3 DEF flush_pending_outputs
  <2> QED
    BY <2>1, EmptyFlushed
<1>4. CASE \E ph \in {"start", "loop", "after", "closing", "gc", "ended"} :
              /\ Doing(ph) /\ phase' = ph /\ todo' = Tail(todo) /\ KeepScript
  <2>1. todo[1].op # "flush" /\ todo' = Tail(todo) /\ UNCHANGED <<emitted, saved, verdicts>>
    BY <1>1, <1>4 DEF Doing, KeepScript
  <2> QED
    BY <1>1, <2>1, TailFlushed
<1> QED
  BY <1>2, <1>3, <1>4 DEF LocalStep

LEMMA SpawnStepFlushed ==
  ASSUME IInv, OInv, FNow, SpawnStep
  PROVE  FThen
<1>1. todo # <<>> /\ todo' = Tail(todo) /\ UNCHANGED <<saved, verdicts, emitted>>
  BY DEF SpawnStep, KeepScript
<1>2. todo[1] = Head(todo)
  BY <1>1, OFirst
<1>3. todo[1].op # "flush"
  BY <1>2 DEF SpawnStep, Doing
<1> QED
  BY <1>1, <1>3, TailFlushed

----------------
\* A verdict that is not an acceptance, or none.
LEMMA OtherVerdict ==
  ASSUME OInv, NEW at, Judged(at), next \in 1 .. Inputs => at # "accepted", NEW i, JudgedAs(verdicts', i, "accepted")
  PROVE  JudgedAs(verdicts, i, "accepted")
<1>1. verdicts \in Seq(Manual)
  BY DEF OInv, OTypes
<1>2. CASE verdicts' = verdicts
  BY <1>2
<1>3. CASE verdicts' # verdicts
  <2>1. next \in 1 .. Inputs /\ verdicts' = Append(verdicts, at) /\ at # "accepted"
    BY <1>3 DEF Judged
  <2>2. PICK n \in Nat : Len(verdicts) = n
    BY <1>1
  <2>3. /\ Len(verdicts') = n + 1 /\ verdicts'[n + 1] = at
        /\ \A j \in 1 .. n : verdicts'[j] = verdicts[j]
    BY <1>1, <2>1, <2>2
  <2>4. i \in 1 .. n + 1 /\ verdicts'[i] = "accepted"
    BY <2>3 DEF JudgedAs
  <2>5. i # n + 1
    BY <2>1, <2>3, <2>4
  <2>6. i \in 1 .. n
    BY <2>4, <2>5
  <2> QED
    BY <2>2, <2>3, <2>4, <2>6 DEF JudgedAs
<1> QED
  BY <1>2, <1>3

LEMMA LoopFlushed ==
  ASSUME IInv, OInv, OInv', FNow, Loop
  PROVE  FThen
<1>1. Between /\ todo = <<>>
  BY BetweenTurns DEF Loop
<1>2. \A t \in emitted : JudgedAs(verdicts, t[1], "accepted") => In(t, saved)
  BY <1>1 DEF FNow, Flushed, HasFlush
<1>3. PICK c \in seen :
          \/ /\ c.at = "exception" /\ YieldException
             /\ Judged(c.at) /\ UNCHANGED <<emitted>>
          \/ /\ c.at \in Manual \ {"exception"}
             /\ YieldNextInput(c.at) \/ YieldLast(c.at)
             /\ Judged(c.at) /\ UNCHANGED emitted
          \/ /\ c.at = "output" /\ YieldOutput
          \/ /\ c.at \in {"halt", "limit"}
             /\ todo' = Local("after")
             /\ UNCHANGED <<next, opts, pending, saved, rejected, verdicts, emitted>>
  BY DEF Loop
<1>4. ASSUME Judged(c.at), UNCHANGED <<emitted, saved>>, next \in 1 .. Inputs => c.at # "accepted" PROVE FThen
  BY <1>2, <1>4, OtherVerdict DEF FThen, Flushed
<1>5. CASE c.at = "exception" /\ YieldException /\ Judged(c.at) /\ UNCHANGED emitted
  BY <1>4, <1>5 DEF YieldException, NoFlush
<1>6. CASE YieldNextInput(c.at) /\ Judged(c.at) /\ UNCHANGED emitted
  <2>1. next < Inputs /\ next \in Nat
    BY <1>1, <1>6 DEF YieldNextInput, Between
  <2>2. CASE c.at = "accepted" /\ next > 0
    <3>1. todo' = (do_commit \o (Local("flush") \o Proof)) \o FeedOf(next + 1)
      BY <2>2, <1>6 DEF YieldNextInput, FeedOf
    <3> DEFINE f == Local("flush") \o Proof
    <3>2. Part(f, TRUE)
      BY OAtoms, OJoin DEF Part
    <3> HIDE DEF f
    <3>3. Part(do_commit \o f, TRUE)
      BY <3>2, CommitPart, OJoin DEF Part
    <3>4. Whole(FeedOf(next + 1), FALSE)
      <4>1. next + 1 \in Nat
        BY <2>1
      <4> QED
        BY <4>1, FeedWhole
    <3>5. Whole(todo', TRUE)
      BY <3>1, <3>3, <3>4, OJoin DEF f
    <3> QED
      BY <3>5 DEF Whole, FThen, Flushed
  <2>3. CASE c.at = "accepted" /\ ~(next > 0)
    <3>1. next \notin 1 .. Inputs /\ UNCHANGED saved
      BY <1>6, <2>1, <2>3 DEF YieldNextInput, NoFlush
    <3> QED
      BY <1>4, <1>6, <3>1
  <2>4. CASE c.at # "accepted"
    <3>1. UNCHANGED saved
      BY <1>6, <2>4 DEF YieldNextInput, NoFlush, flush_pending_outputs
    <3> QED
      BY <1>4, <1>6, <2>4, <3>1
  <2> QED
    BY <2>2, <2>3, <2>4
<1>7. CASE YieldLast(c.at) /\ Judged(c.at) /\ UNCHANGED emitted
  <2>1. CASE next \in 1 .. Inputs
    <3>1. pending' = <<>>
      BY <1>7, <2>1 DEF YieldLast, flush_pending_outputs
    <3> QED
      BY <3>1, EmptyFlushed
  <2>2. CASE next \notin 1 .. Inputs
    <3>1. UNCHANGED saved
      BY <1>7, <2>2 DEF YieldLast, NoFlush
    <3> QED
      BY <1>4, <1>7, <2>2, <3>1
  <2> QED
    BY <2>1, <2>2
<1>8. CASE YieldOutput
  <2>1. UNCHANGED <<saved, verdicts>>
    BY <1>8 DEF YieldOutput
  <2>2. ASSUME NEW t \in emitted', t \notin emitted PROVE ~JudgedAs(verdicts, t[1], "accepted")
    <3>1. next \in 1 .. Inputs /\ t = <<next, Len(pending) + 1>>
      BY <1>8, <2>2 DEF YieldOutput
    <3>2. Len(verdicts) = next - 1 /\ next \in Nat /\ t[1] = next
      BY <1>1, <3>1 DEF Between
    <3> QED
      BY <3>2 DEF JudgedAs
  <2> QED
    BY <1>2, <2>1, <2>2 DEF FThen, Flushed
<1>9. CASE UNCHANGED <<saved, verdicts, emitted>>
  BY <1>2, <1>9 DEF FThen, Flushed
<1> QED
  BY <1>3, <1>5, <1>6, <1>7, <1>8, <1>9

LEMMA NextFlushed ==
  ASSUME IInv, AInv, OInv, BNow, SNow, FNow, faults = <<>>, [Next]_vars, faults' = <<>>
  PROVE  FThen
<1>0. OInv'
  BY NextOInv
<1>1. ASSUME UNCHANGED scriptVars PROVE FThen
  <2>1. UNCHANGED <<todo, emitted, saved, verdicts>>
    BY <1>1 DEF scriptVars
  <2> QED
    BY <2>1, KeepsFlushed
<1>2. CASE CallSend \/ Observer
  BY <1>1, <1>2 DEF CallSend, Observer
<1>3. CASE LoopRun \/ Closers
  <2>1. todo = <<>> /\ UNCHANGED <<emitted, saved, verdicts>>
    BY <1>3 DEF LoopRun, Closers
  <2>2. ~HasFlush(todo)
    BY <2>1, BNone
  <2> QED
    BY <2>1, <2>2, KeepsFlushed
<1>4. CASE CallReturns
  BY <1>4, CallReturnsFlushed
<1>5. CASE CallFails
  BY <1>5, CallFailsFlushed
<1>6. CASE LocalStep
  BY <1>0, <1>6, LocalStepFlushed
<1>7. CASE SpawnStep
  BY <1>7, SpawnStepFlushed
<1>8. CASE Loop
  BY <1>0, <1>8, LoopFlushed
<1>9. CASE Script
  BY <1>2, <1>3, <1>4, <1>5, <1>6, <1>7, <1>8, <1>9 DEF Script
<1>10. CASE \E p \in Pids : \E o \in Clients : Handle(p, o)
  BY <1>1, <1>10 DEF Handle
<1>11. CASE \E p \in Pids : Child(p) \/ Leave(p) \/ (Crash(p) /\ UNCHANGED scriptVars)
  BY <1>1, <1>11 DEF Child, Leave
<1>12. CASE \E c \in late : HandleLate(c, LateContents(c)) /\ UNCHANGED scriptVars
  BY <1>1, <1>12
<1>13. CASE UNCHANGED vars
  BY <1>1, <1>13 DEF vars, scriptVars
<1> QED
  BY <1>2, <1>9, <1>10, <1>11, <1>12, <1>13 DEF Next

\* A fault is not forgotten.
LEMMA FaultsStay ==
  ASSUME TInv, [Next]_vars, faults' = <<>>
  PROVE  faults = <<>>
<1>1. ASSUME NEW kind, Fault(kind) PROVE FALSE
  <2>1. PICK n \in Nat : Len(faults) = n
    BY DEF TInv
  <2>2. Len(Append(faults, kind)) = n + 1 /\ Append(faults, kind) = <<>>
    BY <1>1, <2>1 DEF TInv, Fault
  <2>3. Len(<<>>) = 0
    OBVIOUS
  <2> QED
    BY <2>1, <2>2, <2>3
<1>2. CASE CallSend
  BY <1>2 DEF CallSend, Send
<1>3. CASE CallReturns
  BY <1>3 DEF CallReturns, Receive
<1>4. CASE CallFails
  BY <1>1, <1>4 DEF CallFails, SendFails, ReceiveFails, Receive
<1>5. CASE LocalStep \/ Loop \/ LoopRun \/ Closers \/ SpawnStep
  BY <1>5 DEF LocalStep, Loop, LoopRun, Closers, SpawnStep, Raise, remoteVars
<1>6. CASE Observer
  BY <1>1, <1>6 DEF Observer, Send, SendFails, Receive, ReceiveFails
<1>7. CASE \E p \in Pids : \E o \in Clients : Handle(p, o)
  <2>1. UNCHANGED faults \/ Fault("bind") \/ Fault("fork")
    BY <1>7 DEF Handle, HandleServer, HandleMachine
  <2> QED
    BY <1>1, <2>1
<1>8. CASE \E p \in Pids : Child(p) \/ Leave(p) \/ (Crash(p) /\ UNCHANGED scriptVars)
  BY <1>1, <1>8 DEF Child, ForkChild, Leave, Exit, Crash
<1>9. CASE \E c \in late : HandleLate(c, LateContents(c)) /\ UNCHANGED scriptVars
  BY <1>9 DEF HandleLate
<1>10. CASE UNCHANGED vars
  BY <1>10 DEF vars
<1> QED
  BY <1>2, <1>3, <1>4, <1>5, <1>6, <1>7, <1>8, <1>9, <1>10 DEF Next, Script

LEMMA InitBInv ==
  ASSUME Init
  PROVE  BInv
<1>1. phase = "spawn" /\ late = {} /\ emitted = {}
  BY DEF Init
<1>2. BNow
  BY InitB
<1> QED
  BY <1>1, <1>2 DEF BInv, BNow, BServe, Flushed

LEMMA NextBInv ==
  ASSUME IInv, AInv, OInv, TInv, BInv, [Next]_vars
  PROVE  BInv'
<1>1. BNow /\ (faults = <<>> => SNow /\ FNow)
  BY DEF BInv, BNow, SNow, FNow
<1>2. BThen
  BY <1>1, NextB
<1>3. ASSUME faults' = <<>> PROVE SThen /\ FThen
  <2>1. faults = <<>>
    BY <1>3, FaultsStay
  <2> QED
    BY <1>1, <1>3, <2>1, NextServes, NextFlushed
<1> QED
  BY <1>2, <1>3 DEF BInv, BThen, SThen, FThen

LEMMA OutputsAreWritten ==
  ASSUME AInv, OInv, BInv
  PROVE  OutputsWritten
<1> SUFFICES ASSUME phase = "ended", faults = <<>>, NEW t \in emitted, t[1] \in Judgement("accepted")
             PROVE  t \in ToSet(saved)
  BY DEF OutputsWritten
<1>1. DOMAIN saved = 1 .. Len(saved) /\ DOMAIN verdicts = 1 .. Len(verdicts)
  BY DEF OInv, OTypes
<1>2. JudgedAs(verdicts, t[1], "accepted")
  BY <1>1 DEF Judgement, JudgedAs
<1>3. todo = <<>>
  BY DEF AInv, APlan
<1>4. ~HasFlush(todo)
  BY <1>3, BNone
<1>5. In(t, saved)
  BY <1>2, <1>4 DEF BInv, Flushed
<1> QED
  BY <1>1, <1>5 DEF In, ToSet

\* As long as nothing has failed the backup the script keeps answers: its
\* process listens and holds the request it was sent, and its shutdown comes
\* just before the flush of the outputs of the accepted input, which
\* therefore is reached (do_commit, then flush_pending_outputs, in run_loop
\* of cartesi-machine.lua).
THEOREM BackupInvariant == Spec => []BInv
<1>1. Init => TInv /\ BInv
  BY InitTInv, InitBInv
<1>2. IInv /\ AInv /\ OInv /\ TInv /\ BInv /\ [Next]_vars => TInv' /\ BInv'
  BY NextTInv, NextBInv
<1> QED
  BY <1>1, <1>2, InductiveInvariant, ScriptInvariant, OutputInvariant, PTL DEF Spec

\* For any number of servers, inputs, outputs and faults, and whatever fails:
\* the types hold, outputs are written under consecutive indices exactly for
\* accepted inputs and to the files of rejected outputs exactly for rejected
\* ones, in the order the machine emitted them, none of an accepted input is
\* dropped from the buffer unwritten, and a rebind finds its address free.
\* When nothing failed, all the outputs of accepted inputs are in their files
\* at the end.
THEOREM FaultsAreContained == Spec => []FaultsContained
<1>1. Init => TInv
  BY InitTInv
<1>2. IInv /\ AInv /\ TInv /\ [Next]_vars => TInv'
  BY NextTInv
<1>3. IInv /\ AInv /\ OInv /\ TInv /\ BInv => FaultsContained
  BY TypesHold, OutputsFollow, OutputsAreWritten, AddressIsFree DEF FaultsContained
<1> QED
  BY <1>1, <1>2, <1>3, InductiveInvariant, ScriptInvariant, OutputInvariant, BackupInvariant, PTL DEF Spec
=============================================================================
