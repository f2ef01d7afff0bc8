-------------------------------- MODULE P9fs --------------------------------
(***************************************************************************)
(* The VirtIO 9P device, virtio-p9fs-address-range.cpp: the host directory *)
(* it shares, the fids through which the guest names files, and the host   *)
(* descriptors that those fids keep open.                                  *)
(*                                                                         *)
(* A path is the sequence of the names it is made of, a name the sequence  *)
(* of its letters: op_renameat compares paths letter by letter.  The host   *)
(* resolves every path that the device hands to it, symbolic links that     *)
(* the guest has made included.  Contents, attributes and owners of files  *)
(* are not kept.  Each action is one whole request, from the descriptor    *)
(* chain to the answer.                                                    *)
(***************************************************************************)
EXTENDS Naturals, FiniteSets, Sequences, SequencesExt, TLC

CONSTANTS
  Fids,       \* fids the guest uses
  Names,      \* names the guest uses, legal and not
  Walks,      \* sequences of names that one request walks
  Root,       \* m_root_path: absolute, with no "." and no link on it
  Targets,    \* what symbolic links lead to: absolute paths
  NoPath,     \* what a path leads to that the host cannot resolve
  MaxPath,    \* bound: names of a path that the host takes
  MaxLookups, \* bound: names the host looks up before it gives up
  Depth,      \* bound: names of a path below the shared directory
  MaxLetters, \* bound: letters of a name of a fid's path
  MaxNodes,   \* bound: files, directories and links ever made, and names of them
  MaxFd       \* host descriptors the process may have open

ASSUME P9fsAssumption ==
  /\ MaxFd \in Nat /\ Depth \in Nat
  /\ Names \subseteq Seq(STRING) /\ Walks \subseteq Seq(Seq(STRING))
  /\ Root \in Seq(Seq(STRING)) /\ Root # <<>> /\ Targets \subseteq Seq(Seq(STRING))
  /\ NoPath \notin Seq(Seq(STRING)) /\ MaxPath \in Nat /\ MaxLookups \in Nat

VARIABLES
  tree,       \* host file system: path -> file, a record [id, type, to]
  made,       \* files ever made, the last id
  open,       \* host descriptors: descriptor -> file
  fids,       \* m_fids: fid -> [path, fd, dirp], 0 for no descriptor
  lost,       \* history: descriptors of a fid that a walk replaced while open
  last        \* history: the last request and its answer

vars == <<tree, made, open, fids, lost, last>>
host == <<tree, made, open>>

DotDot == <<".", ".">>
Dot == <<".">>

\* The function f, or f with x added, that has the value v at x
With(f, x, v) == [y \in DOMAIN f \union {x} |-> IF y = x THEN v ELSE f[y]]

\* What goes wrong with a request, one thing at most.  In the host: a call "fails"
\* before anything is made, or the one that reads the status of what was made
\* ("stat_fails").  In the buffers: "error" fits an error and not the body of the
\* answer, "none" fits neither, or the used ring cannot take the answer.
Faults == {"nothing", "fails", "none"}
BodyFaults == Faults \union {"error"}
MakeFaults == BodyFaults \union {"stat_fails"}
Bodied == {"lopen", "lcreate", "make", "statfs", "readlink", "getattr", "lock", "getlock",
           "readdir", "version", "attach", "walk", "read", "write"}

\* A file: "dir", "file" or "link", and what a link leads to
Node(n, type) == [id |-> n, type |-> type, to |-> <<>>]
LinkTo(n, target) == [id |-> n, type |-> "link", to |-> target]

\* The shared directory and those above it, numbered from "/" on
Init ==
  /\ tree = [p \in {SubSeq(Root, 1, n) : n \in 0..Len(Root)} |-> Node(Len(p), "dir")]
  /\ made = Len(Root)
  /\ open = <<>> /\ fids = <<>> /\ lost = {}
  /\ last = [op |-> "none", answer |-> "none", paths |-> <<>>]

is_name_legal(name) == name # <<>> /\ "/" \notin Range(name) /\ name \notin {Dot, DotDot}

join_path_name(path, name) == Append(path, name)

\* The only name of a path is kept: remove_path_name never gives "".
remove_path_name(path) == IF Len(path) > 1 THEN Front(path) ELSE path

-----------------------------------------------------------------------------
(* The answers: send_reply, send_ok, send_error.                           *)

Delivered(op, fault) == fault # "none" /\ (fault = "error" => op \notin Bodied)

Answer(op, paths, fault, good) ==
  last' = [op |-> op, paths |-> paths,
           answer |-> IF good /\ Delivered(op, fault) THEN "ok"
                      ELSE IF fault = "none" THEN "none" ELSE "error"]

Refuse(op, fault) == Answer(op, <<>>, fault, FALSE) /\ UNCHANGED <<host, fids, lost>>

Reply(op, fault) == Answer(op, <<>>, fault, TRUE) /\ UNCHANGED <<host, fids, lost>>

-----------------------------------------------------------------------------
(* The host's calls.                                                       *)

IsDir(t, path) == path \in DOMAIN t /\ t[path].type = "dir"
IsLink(t, path) == path \in DOMAIN t /\ t[path].type = "link"

\* One name of a path: at is what was found so far, rest what is to come.  A
\* link puts its target before the rest; a name that is no directory ends it.
LookUp(t, look) ==
  IF look.rest = <<>> THEN look
  ELSE LET here == Append(look.at, Head(look.rest))
       IN  IF IsLink(t, here) THEN [at |-> <<>>, rest |-> t[here].to \o Tail(look.rest)]
           ELSE IF IsDir(t, here) THEN [at |-> here, rest |-> Tail(look.rest)]
           ELSE look
Looked(t, path) ==
  LET look[i \in 0..MaxLookups] ==
        IF i = 0 THEN [at |-> <<>>, rest |-> path] ELSE LookUp(t, look[i - 1])
  IN  look[MaxLookups]

\* Where a path leads when every link on it is followed.  What it leads to need
\* not be there, the directory it would be in must.  No link stands above a path
\* of the tree.
Where(t, path) ==
  LET end == Looked(t, path)
  IN  IF path \in DOMAIN t /\ ~IsLink(t, path) THEN path
      ELSE IF end.rest = <<>> THEN end.at
      ELSE IF Len(end.rest) = 1 /\ LookUp(t, end) = end THEN Append(end.at, Head(end.rest))
      ELSE NoPath

\* The entry that a path names, its last name not followed: lstat, readlink,
\* lchown, unlink, rmdir, link, rename, and the calls that make something.
Entry(t, path) ==
  LET dir == Where(t, Front(path))
  IN  IF path = <<>> THEN path
      ELSE IF Len(path) <= MaxPath /\ IsDir(t, dir) THEN Append(dir, Last(path))
      ELSE NoPath

\* What a path names, its last name followed: open, opendir, statfs, chmod, truncate.
Final(t, path) ==
  LET entry == Entry(t, path)
  IN  IF IsLink(t, entry) THEN Where(t, path) ELSE entry

Below(path) == {p \in DOMAIN tree : IsStrictPrefix(path, p)}
FreeFds == (1..MaxFd) \ DOMAIN open
NewFd == CHOOSE n \in FreeFds : \A m \in FreeFds : n <= m
CanMake(at) == /\ at \notin {NoPath, <<>>} /\ at \notin DOMAIN tree /\ IsDir(tree, Front(at))
               /\ Len(at) <= Len(Root) + Depth /\ made < MaxNodes /\ Cardinality(DOMAIN tree) <= MaxNodes
Without(t, at) == [p \in DOMAIN t \ {at} |-> t[p]]

\* rename(2) of old to new over the tree t
CanRename(t, old, new) ==
  /\ NoPath \notin {old, new} /\ old \in DOMAIN t /\ IsDir(t, Front(new))
  /\ ~IsStrictPrefix(old, new)
  /\ \A p \in DOMAIN t : IsPrefix(old, p) => Len(p) - Len(old) + Len(new) <= Len(Root) + Depth
  /\ new \in DOMAIN t =>
       /\ IsDir(t, old) = IsDir(t, new)
       /\ \A p \in DOMAIN t : ~IsStrictPrefix(new, p)
Moved(p, old, new) == new \o SubSeq(p, Len(old) + 1, Len(p))
RenamedTree(t, old, new) ==
  IF new \in DOMAIN t /\ t[new] = t[old] THEN t   \* two links to one file: nothing is done
  ELSE LET Moving == {p \in DOMAIN t : IsPrefix(old, p)}
           Landing == {Moved(p, old, new) : p \in Moving}
           Staying == (DOMAIN t \ Moving) \ {new}
       IN  [p \in Staying \union Landing |-> IF p \in Landing THEN t[Moved(p, new, old)] ELSE t[p]]

-----------------------------------------------------------------------------
(* Fids and descriptors.                                                   *)

Held(state) == {state.fd, state.dirp} \ {0}
close_fid_state(state) == [d \in DOMAIN open \ Held(state) |-> open[d]]
NewFid(path) == [path |-> path, fd |-> 0, dirp |-> 0]

do_on_device_reset ==
  /\ open' = [d \in DOMAIN open \ UNION {Held(fids[f]) : f \in DOMAIN fids} |-> open[d]]
  /\ fids' = <<>>
  /\ last' = [op |-> "reset", answer |-> "none", paths |-> <<>>]
  /\ UNCHANGED <<tree, made, lost>>

\* A request that cannot be unpacked, or one that the device does not support
Malformed(fault) == Refuse("malformed", fault)

\* The header itself cannot be unpacked
NoHeader == Answer("malformed", <<>>, "none", FALSE) /\ UNCHANGED <<host, fids, lost>>

-----------------------------------------------------------------------------
(* The requests.                                                           *)

\* The flags of an open request as the host's.  O_CREAT is dropped: only
\* op_lcreate adds it, so that no other request makes a file.
p9_open_flags_to_host(flags) == flags \ {"noctty", "async", "creat"}

\* open(2) of a path: what it leads to must be there, or be made, and with
\* O_EXCL only made.  A link is followed, unless it is the last name and
\* O_NOFOLLOW or O_EXCL was given.
CanOpen(path, oflags) ==
  LET entry == Entry(tree, path)
      final == Final(tree, path)
  IN  /\ "nofollow" \in oflags => ~IsLink(tree, entry)
      /\ {"creat", "excl"} \subseteq oflags => entry \notin DOMAIN tree
      /\ \/ final \in DOMAIN tree /\ ("creat" \in oflags => ~IsDir(tree, final))
         \/ "creat" \in oflags /\ CanMake(final)
Opened(at) == IF at \in DOMAIN tree THEN tree ELSE With(tree, at, Node(made + 1, "file"))
MadeBy(at) == IF at \in DOMAIN tree THEN made ELSE made + 1

\* Opens the file, and drops the descriptor unless the answer was given.
LopenRefused(f, flags, fault) ==
  \/ f \notin DOMAIN fids \/ fault = "fails" \/ FreeFds = {} \/ fids[f].fd # 0
  \/ ~CanOpen(fids[f].path, p9_open_flags_to_host(flags))

LopenWith(f, flags, fault, keep) ==
  IF LopenRefused(f, flags, fault) THEN Refuse("lopen", fault)
  ELSE /\ Answer("lopen", <<>>, fault, TRUE)
       /\ LET at == Final(tree, fids[f].path)
          IN  /\ tree' = Opened(at) /\ made' = MadeBy(at)
              /\ open' = IF keep THEN With(open, NewFd, Opened(at)[at]) ELSE open
       /\ fids' = IF Delivered("lopen", fault) THEN [fids EXCEPT ![f].fd = NewFd] ELSE fids
       /\ UNCHANGED lost

Badop_lopen(f, flags, fault) == LopenWith(f, flags, fault, TRUE)
op_lopen(f, flags, fault) == LopenWith(f, flags, fault, Delivered("lopen", fault))

\* Opens, creating it when needed, the file name of the directory of f.  A
\* failure after that closes it and unlinks the name, also when it was there
\* before.  Where the name was a link, what it led to is not removed.
LcreateRefused(f, name, flags, fault) ==
  \/ ~is_name_legal(name) \/ f \notin DOMAIN fids \/ fault = "fails" \/ FreeFds = {} \/ fids[f].fd # 0
  \/ ~CanOpen(join_path_name(fids[f].path, name), p9_open_flags_to_host(flags) \union {"creat"})

op_lcreate(f, name, flags, fault) ==
  IF LcreateRefused(f, name, flags, fault) THEN Refuse("lcreate", fault)
  ELSE /\ LET path == join_path_name(fids[f].path, name)
              entry == Entry(tree, path)
              final == Final(tree, path)
              good == fault # "stat_fails" /\ Delivered("lcreate", fault)
          IN  /\ Answer("lcreate", <<path>>, fault, fault # "stat_fails")
              /\ made' = IF good \/ final # entry THEN MadeBy(final) ELSE made
              /\ tree' = IF good THEN Opened(final) ELSE Without(Opened(final), entry)
              /\ open' = IF good THEN With(open, NewFd, Opened(final)[final]) ELSE open
              /\ fids' = IF good THEN [fids EXCEPT ![f] = [@ EXCEPT !.path = path, !.fd = NewFd]] ELSE fids
       /\ UNCHANGED lost

\* op_symlink, op_mknod and op_mkdir: a new node, removed again when
\* its status cannot be read or the answer cannot be given.
MakeRefused(f, name, fault) ==
  \/ ~is_name_legal(name) \/ f \notin DOMAIN fids \/ fault = "fails"
  \/ ~CanMake(Entry(tree, join_path_name(fids[f].path, name)))

MakeWith(f, name, node, fault, kept) ==
  IF MakeRefused(f, name, fault) THEN Refuse("make", fault)
  ELSE /\ LET path == join_path_name(fids[f].path, name)
          IN  /\ Answer("make", <<path>>, fault, fault # "stat_fails")
              /\ made' = IF kept THEN made + 1 ELSE made
              /\ tree' = IF kept THEN With(tree, Entry(tree, path), node) ELSE tree
       /\ UNCHANGED <<open, fids, lost>>

Badop_mknod(f, name, fault) == MakeWith(f, name, Node(made + 1, "file"), fault, fault # "stat_fails" /\ fault # "none")
op_mknod(f, name, fault) == MakeWith(f, name, Node(made + 1, "file"), fault, fault # "stat_fails" /\ Delivered("make", fault))
op_symlink(f, name, target, fault) ==
  MakeWith(f, name, LinkTo(made + 1, target), fault, fault # "stat_fails" /\ Delivered("make", fault))
op_mkdir(f, name, fault) == MakeWith(f, name, Node(made + 1, "dir"), fault, fault # "stat_fails" /\ Delivered("make", fault))

op_link(d, f, name, fault) ==
  LET from == Entry(tree, fids[f].path)
      to == Entry(tree, join_path_name(fids[d].path, name))
      refused == \/ ~is_name_legal(name) \/ {d, f} \cap DOMAIN fids # {d, f} \/ fault = "fails"
                 \/ from \notin DOMAIN tree \/ IsDir(tree, from) \/ ~CanMake(to)
  IN  IF refused THEN Refuse("link", fault)
      ELSE /\ Answer("link", <<join_path_name(fids[d].path, name)>>, fault, TRUE)
           /\ tree' = IF Delivered("link", fault) THEN With(tree, to, tree[from]) ELSE tree
           /\ UNCHANGED <<made, open, fids, lost>>

\* The removal is not undone when its answer is lost.
op_unlinkat(d, name, removedir, fault) ==
  LET at == Entry(tree, join_path_name(fids[d].path, name))
      refused == \/ ~is_name_legal(name) \/ d \notin DOMAIN fids \/ fault = "fails"
                 \/ at \notin DOMAIN tree \/ IsDir(tree, at) # removedir \/ Below(at) # {}
  IN  IF refused THEN Refuse("unlinkat", fault)
      ELSE /\ Answer("unlinkat", <<join_path_name(fids[d].path, name)>>, fault, TRUE)
           /\ tree' = Without(tree, at)
           /\ UNCHANGED <<made, open, fids, lost>>

\* The letters of old, from a "/" on, after the first k names of path; the last
\* name of old need not end where they do.
Occurs(path, old, k) ==
  /\ k + Len(old) <= Len(path)
  /\ \A i \in 1..Len(old) - 1 : path[k + i] = old[i]
  /\ IsPrefix(Last(old), path[k + Len(old)])

\* path.rfind(oldpath) == 0: old comes first in path, and does not come again.
ComesAgain(path, old) == \E k \in 1..Len(path) : Occurs(path, old, k)
StartsWith(path, old) == Occurs(path, old, 0) /\ ~ComesAgain(path, old)

\* The letters after those of old are kept.
Respelled(path, old, new) ==
  Front(new) \o <<Last(new) \o SubSeq(path[Len(old)], Len(Last(old)) + 1, Len(path[Len(old)]))>>
    \o SubSeq(path, Len(old) + 1, Len(path))

BadFixPaths(old, new) ==
  [f \in DOMAIN fids |-> IF fids[f].path = old THEN [fids[f] EXCEPT !.path = new] ELSE fids[f]]
FixPaths(old, new) ==
  [f \in DOMAIN fids |-> IF StartsWith(fids[f].path, old)
                         THEN [fids[f] EXCEPT !.path = Respelled(@, old, new)] ELSE fids[f]]

\* rename(2) of the paths as the device has them
Renames(t, old, new) == CanRename(t, Entry(t, old), Entry(t, new))
AfterRename(t, old, new) == RenamedTree(t, Entry(t, old), Entry(t, new))

\* Bound: names of a fid's path and letters of a name
Bounded(path) == Len(path) <= MaxPath /\ \A i \in 1..Len(path) : Len(path[i]) <= MaxLetters

\* The rename is undone when the answer is lost; a file it replaced is not
\* brought back.
op_renameat(d, oldname, e, newname, fault) ==
  LET old == join_path_name(fids[d].path, oldname)
      new == join_path_name(fids[e].path, newname)
      refused == \/ ~is_name_legal(oldname) \/ ~is_name_legal(newname) \/ fault = "fails"
                 \/ {d, e} \cap DOMAIN fids # {d, e} \/ ~Renames(tree, old, new)
      renamed == AfterRename(tree, old, new)
  IN  IF refused THEN Refuse("renameat", fault)
      ELSE /\ Answer("renameat", <<new, old>>, fault, TRUE)
           /\ \/ Delivered("renameat", fault) /\ tree' = renamed /\ fids' = FixPaths(old, new)
                 /\ \A f \in DOMAIN fids : Bounded(fids'[f].path)
              \/ ~Delivered("renameat", fault) /\ UNCHANGED fids
                 /\ tree' = IF Renames(renamed, new, old) THEN AfterRename(renamed, new, old) ELSE renamed
           /\ UNCHANGED <<made, open, lost>>

\* lstat of a path, and the file it finds there
Exists(path) == Entry(tree, path) \in DOMAIN tree
FileAt(path) == tree[Entry(tree, path)]

op_attach(f, fault) ==
  IF f \in DOMAIN fids \/ fault = "fails" \/ ~Exists(Root) THEN Refuse("attach", fault)
  ELSE /\ Answer("attach", <<>>, fault, TRUE)
       /\ fids' = IF Delivered("attach", fault) THEN With(fids, f, NewFid(Root)) ELSE fids
       /\ UNCHANGED <<host, lost>>

\* One name of a walk.  A name that cannot be followed is an error when it is
\* the first one, and the end of the walk otherwise.
WalkWith(w, name, stays) ==
  LET next == IF stays THEN w.path
              ELSE IF name = DotDot THEN remove_path_name(w.path) ELSE join_path_name(w.path, name)
  IN  IF w.stop THEN w
      ELSE IF name = <<>> \/ "/" \in Range(name) THEN [w EXCEPT !.stop = TRUE, !.error = TRUE]
      ELSE IF ~Exists(next) THEN [w EXCEPT !.stop = TRUE, !.error = (w.count = 0)]
      ELSE [path |-> next, count |-> w.count + 1, stop |-> FALSE, error |-> FALSE]
BadWalkName(w, name) == WalkWith(w, name, name = Dot)
WalkName(w, name) == WalkWith(w, name, name = Dot \/ (name = DotDot /\ FileAt(w.path) = FileAt(Root)))
WalkStart(path) == [path |-> path, count |-> 0, stop |-> FALSE, error |-> FALSE]
Walk(path, names) ==
  LET w[i \in 0..Len(names)] == IF i = 0 THEN WalkStart(path) ELSE WalkName(w[i - 1], names[i])
  IN  w[Len(names)]

\* The state of newfid is replaced, that of an open fid included when newfid is
\* fid: its descriptors are then held by no fid.
op_walk(f, newfid, names, fault) ==
  LET refused == \/ f \notin DOMAIN fids \/ (newfid # f /\ newfid \in DOMAIN fids)
                 \/ fault = "fails" \/ ~Exists(fids[f].path) \/ ~Exists(Root)
                 \/ Walk(fids[f].path, names).error
  IN  IF refused THEN Refuse("walk", fault)
      ELSE /\ Answer("walk", <<>>, fault, TRUE)
           /\ IF Delivered("walk", fault)
              THEN /\ fids' = With(fids, newfid, NewFid(Walk(fids[f].path, names).path))
                   /\ lost' = lost \union (IF newfid = f THEN Held(fids[f]) ELSE {})
              ELSE UNCHANGED <<fids, lost>>
           /\ UNCHANGED host

\* The directory stream is opened once and stays with the fid, also when the
\* answer fails.  An error of the host while it is read ends the listing.
op_readdir(f, fault) ==
  LET state == fids[f]
      at == Final(tree, state.path)
      refused == \/ f \notin DOMAIN fids
                 \/ state.dirp = 0 /\ (fault = "fails" \/ ~IsDir(tree, at) \/ FreeFds = {})
  IN  IF refused THEN Refuse("readdir", fault)
      ELSE /\ Answer("readdir", <<>>, fault, TRUE)
           /\ IF state.dirp = 0
              THEN open' = With(open, NewFd, tree[at]) /\ fids' = [fids EXCEPT ![f].dirp = NewFd]
              ELSE UNCHANGED <<open, fids>>
           /\ UNCHANGED <<tree, made, lost>>

\* The fid goes also when closing it fails.
op_clunk(f, fault) ==
  IF f \notin DOMAIN fids THEN Refuse("clunk", fault)
  ELSE /\ Answer("clunk", <<>>, fault, fault # "fails")
       /\ open' = close_fid_state(fids[f])
       /\ fids' = [g \in DOMAIN fids \ {f} |-> fids[g]]
       /\ UNCHANGED <<tree, made, lost>>

\* Requests that change neither files nor fids.  The first group takes any
\* fid and uses its descriptor when it has one; the second needs an open fid.
op_version(fault) == Reply("version", fault)

Inspect(op, f, found, fault) ==
  LET refused == f \notin DOMAIN fids \/ fault = "fails" \/ (fids[f].fd = 0 /\ ~found)
  IN  IF refused THEN Refuse(op, fault) ELSE Reply(op, fault)
op_statfs(f, fault) == Inspect("statfs", f, Final(tree, fids[f].path) \in DOMAIN tree, fault)
op_getattr(f, fault) == Inspect("getattr", f, Exists(fids[f].path), fault)
op_readlink(f, fault) ==
  IF f \notin DOMAIN fids \/ fault = "fails" \/ ~IsLink(tree, Entry(tree, fids[f].path))
  THEN Refuse("readlink", fault) ELSE Reply("readlink", fault)
\* Owner, mode, size and times are changed in this order, by descriptor when
\* there is one; the first that fails ends the request and the others stay.
\* Mode and size follow a link.
op_setattr(f, follows, fault) ==
  Inspect("setattr", f, IF follows THEN Final(tree, fids[f].path) \in DOMAIN tree ELSE Exists(fids[f].path), fault)

OnOpenFid(op, f, fault) ==
  LET refused == f \notin DOMAIN fids \/ fault = "fails" \/ fids[f].fd = 0
  IN  IF refused THEN Refuse(op, fault) ELSE Reply(op, fault)
op_fsync(f, fault) == OnOpenFid("fsync", f, fault)
op_read(f, fault) == OnOpenFid("read", f, fault)
op_write(f, fault) == OnOpenFid("write", f, fault)
op_getlock(f, fault) == OnOpenFid("getlock", f, fault)
\* A lock that the host refuses is answered too, with a status.
op_lock(f, fault) == OnOpenFid("lock", f, IF fault = "fails" THEN "nothing" ELSE fault)

do_on_device_queue_available ==
  \/ NoHeader
  \/ \E fault \in Faults, f \in Fids :
       \/ op_clunk(f, fault) \/ op_fsync(f, fault)
       \/ \E follows \in BOOLEAN : op_setattr(f, follows, fault)
       \/ \E name \in Names :
            \/ \E removedir \in BOOLEAN : op_unlinkat(f, name, removedir, fault)
            \/ \E g \in Fids : op_link(f, g, name, fault)
            \/ \E g \in Fids, other \in Names : op_renameat(f, name, g, other, fault)
  \/ \E fault \in BodyFaults :
       \/ op_version(fault) \/ Malformed(fault)
       \/ \E f \in Fids :
            \/ op_attach(f, fault) \/ op_readdir(f, fault) \/ op_readlink(f, fault)
            \/ op_statfs(f, fault) \/ op_getattr(f, fault) \/ op_read(f, fault)
            \/ op_write(f, fault) \/ op_lock(f, fault) \/ op_getlock(f, fault)
            \/ \E flags \in {{}, {"creat", "excl"}, {"nofollow"}} : op_lopen(f, flags, fault)
            \/ \E g \in Fids, names \in Walks : op_walk(f, g, names, fault)
  \/ \E fault \in MakeFaults, f \in Fids, name \in Names :
       \/ \E flags \in {{}, {"excl", "noctty"}} : op_lcreate(f, name, flags, fault)
       \/ \E target \in Targets : op_symlink(f, name, target, fault)
       \/ op_mknod(f, name, fault) \/ op_mkdir(f, name, fault)

Next == do_on_device_queue_available \/ do_on_device_reset

Spec == Init /\ [][Next]_vars

-----------------------------------------------------------------------------
\* A descriptor of the host is open exactly when one fid holds it: no answer
\* that fails, no clunk and no reset leaves one behind, and none is closed under
\* a fid that still uses it.  The descriptors that a walk of an open fid onto
\* itself gives up are the exception (op_walk replaces the state of the fid).
DescriptorsHeld ==
  /\ DOMAIN open = lost \union UNION {Held(fids[f]) : f \in DOMAIN fids}
  /\ \A f, g \in DOMAIN fids : f # g => Held(fids[f]) \cap Held(fids[g]) = {}
  /\ \A f \in DOMAIN fids : fids[f].fd # 0 => fids[f].fd # fids[f].dirp

\* A path that begins with the shared directory's and goes on by legal names
Inside(path) ==
  IsPrefix(Root, path) /\ \A i \in Len(Root) + 1 .. Len(path) : is_name_legal(path[i])

\* No sequence of walks, ".." among them, of renames and of creations gives a fid
\* whose path, as the device keeps it, leaves the shared directory: it begins with
\* that of the directory and goes on by legal names, neither "." nor ".." and with
\* no "/" in them.  Links that the host finds on that path may still lead out.
Confined == \A f \in DOMAIN fids : Inside(fids[f].path)

\* What a fid holds is the guest's to use: descriptors of its own, and a path
\* that goes down from the shared directory.
FidsSound == DescriptorsHeld /\ Confined

\* A step of a request that is not answered with success leaves the files and
\* the fids as they were, whatever it had done when it failed.  What is not
\* undone: a clunk, a removal, the stream that op_readdir keeps, and what stood at
\* the path of a creation or at the new path of a rename, which undoing the
\* request removes.  Two more through links: the file that a creation made at the
\* target of a link stays, and a rename whose paths lead through links may stay.
Undone ==
  last'.answer # "ok" /\ last'.op \notin {"reset", "clunk", "unlinkat"} =>
    LET named == {Entry(tree, p) : p \in Range(last'.paths)}
        byLink == \E p \in Range(last'.paths) : Entry(tree, p) # p
        kept(p) == p \in DOMAIN tree /\ tree'[p] = tree[p]
        byCreation(p) == last'.op = "lcreate" /\ p \notin named /\ \E q \in Range(last'.paths) : p = Final(tree, q)
    IN  /\ last'.op # "readdir" => fids' = fids /\ open' = open
        /\ tree' # tree /\ ~(last'.op = "renameat" /\ byLink) =>
             /\ \A p \in DOMAIN tree' : kept(p) \/ byCreation(p)
             /\ DOMAIN tree \ DOMAIN tree' \subseteq named

\* After a rename every fid at or below the renamed path names the file it named
\* before, unless the letters of the old path come again in its own, which
\* op_renameat takes for a path that does not start with it, or the new path
\* leads through a link.  No other fid moves unless its path begins with the
\* letters of the renamed one, which op_renameat takes for a path below it.
Followed ==
  last'.op = "renameat" /\ last'.answer = "ok" =>
    \A f \in DOMAIN fids :
      LET path == fids[f].path
          moved == fids'[f].path
          new == last'.paths[1]
          old == last'.paths[2]
      IN  /\ IsPrefix(old, path) /\ path \in DOMAIN tree /\ IsDir(tree, Front(new)) /\ ~ComesAgain(path, old) =>
               moved \in DOMAIN tree' /\ tree'[moved] = tree[path]
          /\ ~IsPrefix(old, path) => moved = path \/ Occurs(path, old, 0)

\* Every refused request is undone, but for the exceptions that Undone names.
RefusedUndone == [][Undone]_vars

\* Fids follow the files of every rename, but for the exceptions Followed names.
RenameFollowed == [][Followed]_vars
=============================================================================
