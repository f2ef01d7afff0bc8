----------------------------- MODULE P9fsProofs -----------------------------
(***************************************************************************)
(* Whatever files, names and fids the guest uses and whatever fails in the *)
(* host or in the buffers: a host descriptor is open exactly when one fid  *)
(* holds it, the path kept for a fid goes down from the shared directory,  *)
(* a request that is refused is undone, and fids follow the files that are *)
(* renamed, but for the exceptions that the properties name.               *)
(***************************************************************************)
EXTENDS P9fs, SequenceTheorems, WellFoundedInduction, TLAPS

Name == Seq(STRING)
Path == Seq(Name)
FidState == [path : Path, fd : Nat, dirp : Nat]
AllHeld == UNION {Held(fids[f]) : f \in DOMAIN fids}

\* The descriptors a walk gave up are not held, and 0 is no descriptor.
IInv ==
  /\ \A f \in DOMAIN fids : fids[f] \in FidState
  /\ DOMAIN open \subseteq Nat \ {0}
  /\ lost \cap AllHeld = {}
  /\ DescriptorsHeld
  /\ Confined

-----------------------------------------------------------------------------
(* Paths *)

LEMMA LeastNat ==
  ASSUME NEW T, T \subseteq Nat, T # {}
  PROVE  \E x \in T : \A y \in T : x <= y
<1>1. PICK x \in T : \A y \in T : ~(<<y, x>> \in OpToRel(<, Nat))
  BY NatLessThanWellFounded, WFMin, Zenon
<1>2. \A y \in T : ~(y < x)
  BY <1>1 DEF OpToRel
<1> QED
  BY <1>2

LEMMA RootPath == Root \in Path /\ Len(Root) \in Nat \ {0}
<1>1. Root \in Path /\ Root # <<>>
  BY P9fsAssumption DEF Path, Name
<1> QED
  BY <1>1, EmptySeq DEF Path

\* A prefix, element by element.
LEMMA PrefixElements ==
  ASSUME NEW S, NEW s \in Seq(S), NEW t \in Seq(S)
  PROVE  IsPrefix(s, t) <=> Len(s) <= Len(t) /\ \A i \in 1 .. Len(s) : s[i] = t[i]
<1>1. CASE Len(s) <= Len(t)
  <2>1. SubSeq(s, 1, Len(s)) \in Seq(S) /\ Len(SubSeq(s, 1, Len(s))) = Len(s)
        /\ \A i \in 1 .. Len(s) : SubSeq(s, 1, Len(s))[i] = s[i]
    OBVIOUS
  <2>2. SubSeq(t, 1, Len(s)) \in Seq(S) /\ Len(SubSeq(t, 1, Len(s))) = Len(s)
        /\ \A i \in 1 .. Len(s) : SubSeq(t, 1, Len(s))[i] = t[i]
    BY <1>1
  <2>3. SubSeq(s, 1, Len(s)) = SubSeq(t, 1, Len(s)) <=>
          \A i \in 1 .. Len(s) : SubSeq(s, 1, Len(s))[i] = SubSeq(t, 1, Len(s))[i]
    BY <2>1, <2>2, SeqEqual
  <2> QED
    BY <1>1, <2>1, <2>2, <2>3 DEF IsPrefix
<1>2. CASE ~(Len(s) <= Len(t))
  BY <1>2 DEF IsPrefix
<1> QED
  BY <1>1, <1>2

\* Appending, concatenating and removing the last name of a path below Root.
LEMMA PrefixGrows ==
  ASSUME NEW S, NEW s \in Seq(S), NEW t \in Seq(S), IsPrefix(s, t)
  PROVE  /\ \A x \in S : Append(t, x) \in Seq(S) /\ IsPrefix(s, Append(t, x))
         /\ \A u \in Seq(S) : t \o u \in Seq(S) /\ IsPrefix(s, t \o u)
         /\ s # t => Len(t) > Len(s) /\ Front(t) \in Seq(S) /\ IsPrefix(s, Front(t))
<1>1. Len(s) <= Len(t) /\ \A i \in 1 .. Len(s) : s[i] = t[i]
  BY PrefixElements
<1>2. ASSUME NEW x \in S PROVE Append(t, x) \in Seq(S) /\ IsPrefix(s, Append(t, x))
  <2>1. Append(t, x) \in Seq(S) /\ Len(Append(t, x)) = Len(t) + 1
        /\ \A i \in 1 .. Len(t) : Append(t, x)[i] = t[i]
    OBVIOUS
  <2>2. Len(s) \in Nat /\ Len(t) \in Nat
    OBVIOUS
  <2>3. Len(s) <= Len(Append(t, x)) /\ \A i \in 1 .. Len(s) : s[i] = Append(t, x)[i]
    BY <1>1, <2>1, <2>2
  <2> QED
    BY <2>1, <2>3, PrefixElements
<1>3. ASSUME NEW u \in Seq(S) PROVE t \o u \in Seq(S) /\ IsPrefix(s, t \o u)
  <2>1. t \o u \in Seq(S) /\ Len(t \o u) = Len(t) + Len(u)
        /\ \A i \in 1 .. Len(t) : (t \o u)[i] = t[i]
    OBVIOUS
  <2>2. Len(s) \in Nat /\ Len(t) \in Nat /\ Len(u) \in Nat
    OBVIOUS
  <2>3. Len(s) <= Len(t \o u) /\ \A i \in 1 .. Len(s) : s[i] = (t \o u)[i]
    BY <1>1, <2>1, <2>2
  <2> QED
    BY <2>1, <2>3, PrefixElements
<1>4. ASSUME s # t PROVE Len(t) > Len(s) /\ Front(t) \in Seq(S) /\ IsPrefix(s, Front(t))
  <2>1. Len(t) > Len(s)
    BY <1>1, <1>4, SeqEqual
  <2>2. Front(t) \in Seq(S) /\ Len(Front(t)) = Len(t) - 1 /\ \A i \in 1 .. Len(t) - 1 : Front(t)[i] = t[i]
    <3>1. Len(t) - 1 \in Nat /\ Len(t) - 1 \in 0 .. Len(t)
      BY <2>1
    <3>2. /\ SubSeq(t, 1, Len(t) - 1) \in Seq(S) /\ Len(SubSeq(t, 1, Len(t) - 1)) = Len(t) - 1
          /\ \A i \in 1 .. Len(t) - 1 : SubSeq(t, 1, Len(t) - 1)[i] = t[i]
      <4>1. \A n \in 0 .. Len(t) : /\ SubSeq(t, 1, n) \in Seq(S) /\ Len(SubSeq(t, 1, n)) = n
                                  /\ \A i \in 1 .. n : SubSeq(t, 1, n)[i] = t[i]
        OBVIOUS
      <4> QED
        BY <3>1, <4>1
    <3> QED
      BY <3>2 DEF Front
  <2>3. Len(s) <= Len(t) - 1 /\ Len(s) \in Nat
    BY <2>1
  <2>4. \A i \in 1 .. Len(s) : s[i] = Front(t)[i]
    BY <1>1, <2>2, <2>3
  <2> QED
    BY <2>1, <2>2, <2>3, <2>4, PrefixElements
<1> QED
  BY <1>2, <1>3, <1>4

-----------------------------------------------------------------------------
(* Walks *)

WalkState == [path : Path, count : Nat, stop : BOOLEAN, error : BOOLEAN]

\* Down by a legal name, and up where it is not the shared directory itself.
LEMMA InsideDown ==
  ASSUME NEW path \in Path, Inside(path), NEW name \in Name, is_name_legal(name)
  PROVE  Append(path, name) \in Path /\ Inside(Append(path, name))
<1>1. PICK q \in Path : /\ q = Append(path, name) /\ Len(q) = Len(path) + 1 /\ q[Len(path) + 1] = name
                        /\ \A i \in 1 .. Len(path) : q[i] = path[i]
  <2>1. /\ Append(path, name) \in Seq(Name) /\ Len(Append(path, name)) = Len(path) + 1
        /\ Append(path, name)[Len(path) + 1] = name /\ \A i \in 1 .. Len(path) : Append(path, name)[i] = path[i]
    BY AppendProperties DEF Path
  <2> QED
    BY <2>1 DEF Path
<1>2. IsPrefix(Root, q)
  BY <1>1, RootPath, PrefixGrows DEF Path, Inside
<1>3. ASSUME NEW i \in Len(Root) + 1 .. Len(q) PROVE is_name_legal(q[i])
  <2>1. Len(path) \in Nat /\ Len(Root) \in Nat
    BY RootPath DEF Path
  <2>2. CASE i = Len(path) + 1
    BY <1>1, <2>2
  <2>3. CASE i # Len(path) + 1
    <3>1. i \in 1 .. Len(path) /\ i \in Len(Root) + 1 .. Len(path)
      BY <1>1, <2>1, <2>3
    <3> QED
      BY <1>1, <3>1 DEF Inside
  <2> QED
    BY <2>2, <2>3
<1> QED
  BY <1>1, <1>2, <1>3 DEF Inside

LEMMA InsideUp ==
  ASSUME NEW path \in Path, Inside(path), path # Root
  PROVE  Len(path) > Len(Root) /\ Front(path) \in Path /\ Inside(Front(path))
<1>1. Len(path) > Len(Root) /\ Front(path) \in Path /\ IsPrefix(Root, Front(path))
  BY RootPath, PrefixGrows DEF Path, Inside
<1>2. Len(path) \in Nat /\ Len(Root) \in Nat
  BY RootPath DEF Path
<1>3. PICK q \in Path : q = Front(path) /\ Len(q) = Len(path) - 1 /\ \A i \in 1 .. Len(path) - 1 : q[i] = path[i]
  <2>1. \A n \in 0 .. Len(path) : /\ SubSeq(path, 1, n) \in Path /\ Len(SubSeq(path, 1, n)) = n
                                  /\ \A i \in 1 .. n : SubSeq(path, 1, n)[i] = path[i]
    BY DEF Path
  <2>2. Len(path) - 1 \in 0 .. Len(path)
    BY <1>1, <1>2
  <2> QED
    BY <2>1, <2>2 DEF Front
<1>4. ASSUME NEW i \in Len(Root) + 1 .. Len(q) PROVE is_name_legal(q[i])
  <2>1. i \in 1 .. Len(path) - 1 /\ i \in Len(Root) + 1 .. Len(path)
    BY <1>2, <1>3
  <2> QED
    BY <1>3, <2>1 DEF Inside
<1> QED
  BY <1>1, <1>3, <1>4 DEF Inside

LEMMA InsideRoot == Inside(Root)
<1>1. \A i \in Len(Root) + 1 .. Len(Root) : FALSE
  BY RootPath
<1>2. IsPrefix(Root, Root)
  BY RootPath, PrefixElements DEF Path
<1> QED
  BY <1>1, <1>2 DEF Inside

\* One name does not lead out of the shared directory: ".." at its root stays.
LEMMA WalkNameConfined ==
  ASSUME NEW w \in WalkState, Inside(w.path), NEW name \in Name
  PROVE  WalkName(w, name) \in WalkState /\ Inside(WalkName(w, name).path)
<1> DEFINE stays == name = Dot \/ (name = DotDot /\ FileAt(w.path) = FileAt(Root))
           next == IF stays THEN w.path
                   ELSE IF name = DotDot THEN remove_path_name(w.path) ELSE join_path_name(w.path, name)
           bad == name = <<>> \/ "/" \in Range(name)
<1>1. w.path \in Path /\ Root \in Path /\ w.count \in Nat /\ w.stop \in BOOLEAN /\ w.error \in BOOLEAN
  BY RootPath DEF WalkState
<1>2. ASSUME ~bad PROVE next \in Path /\ Inside(next)
  <2>1. CASE stays
    BY <1>1, <2>1
  <2>2. CASE ~stays /\ name = DotDot
    <3>1. w.path # Root
      BY <2>2
    <3>2. Len(w.path) > Len(Root) /\ Front(w.path) \in Path /\ Inside(Front(w.path))
      BY <1>1, <3>1, InsideUp
    <3>3. remove_path_name(w.path) = Front(w.path)
      <4>1. Len(w.path) \in Nat /\ Len(Root) \in Nat \ {0}
        BY <1>1, RootPath DEF Path
      <4> QED
        BY <3>2, <4>1 DEF remove_path_name
    <3> QED
      BY <2>2, <3>2, <3>3
  <2>3. CASE ~stays /\ name # DotDot
    <3>1. is_name_legal(name)
      BY <1>2, <2>3 DEF is_name_legal
    <3> QED
      BY <1>1, <2>3, <3>1, InsideDown DEF join_path_name
  <2> QED
    BY <2>1, <2>2, <2>3
<1>3. WalkName(w, name) = IF w.stop THEN w
      ELSE IF bad THEN [w EXCEPT !.stop = TRUE, !.error = TRUE]
      ELSE IF ~Exists(next) THEN [w EXCEPT !.stop = TRUE, !.error = (w.count = 0)]
      ELSE [path |-> next, count |-> w.count + 1, stop |-> FALSE, error |-> FALSE]
  BY DEF WalkName, WalkWith
<1> HIDE DEF next, bad
<1>4. \A b \in BOOLEAN : /\ [w EXCEPT !.stop = TRUE, !.error = b] \in WalkState
                         /\ [w EXCEPT !.stop = TRUE, !.error = b].path = w.path
  BY <1>1 DEF WalkState
<1>5. ASSUME ~bad
      PROVE  /\ [path |-> next, count |-> w.count + 1, stop |-> FALSE, error |-> FALSE] \in WalkState
             /\ [path |-> next, count |-> w.count + 1, stop |-> FALSE, error |-> FALSE].path = next
  BY <1>1, <1>2, <1>5 DEF WalkState
<1>6. (w.count = 0) \in BOOLEAN
  OBVIOUS
<1> QED
  BY <1>2, <1>3, <1>4, <1>5, <1>6

\* What the names lead to, one after the other.  There is such a function for
\* every number of names: the one for a name more goes on from it.
IsRun(w, path, names, n) ==
  w = [i \in 0 .. n |-> IF i = 0 THEN WalkStart(path) ELSE WalkName(w[i - 1], names[i])]

LEMMA RunGoesOn ==
  ASSUME NEW path, NEW names, NEW k \in Nat, NEW w, IsRun(w, path, names, k)
  PROVE  \E v : IsRun(v, path, names, k + 1)
<1> DEFINE v == [i \in 0 .. k + 1 |-> IF i = k + 1 THEN WalkName(w[k], names[k + 1]) ELSE w[i]]
<1>1. \A i \in 0 .. k : w[i] = IF i = 0 THEN WalkStart(path) ELSE WalkName(w[i - 1], names[i])
  BY DEF IsRun
<1>2. \A i \in 0 .. k : v[i] = w[i]
  OBVIOUS
<1>3. v[k + 1] = WalkName(v[k], names[k + 1])
  BY <1>2
<1>4. DOMAIN v = 0 .. k + 1 /\ v = [i \in 0 .. k + 1 |-> v[i]]
  OBVIOUS
<1> HIDE DEF v
<1>5. ASSUME NEW i \in 0 .. k + 1
      PROVE  v[i] = IF i = 0 THEN WalkStart(path) ELSE WalkName(v[i - 1], names[i])
  <2>1. CASE i = k + 1
    <3>1. i # 0 /\ i - 1 = k
      BY <2>1
    <3> QED
      BY <1>3, <2>1, <3>1
  <2>2. CASE i \in 1 .. k
    <3>1. i - 1 \in 0 .. k /\ i \in 0 .. k /\ i # 0
      BY <2>2
    <3> QED
      BY <1>1, <1>2, <3>1
  <2>3. CASE i = 0
    BY <1>1, <1>2, <2>3
  <2> QED
    BY <2>1, <2>2, <2>3
<1>6. IsRun(v, path, names, k + 1)
  BY <1>4, <1>5 DEF IsRun
<1> QED
  BY <1>6

LEMMA RunExists ==
  ASSUME NEW path, NEW names, NEW n \in Nat
  PROVE  \E w : IsRun(w, path, names, n)
<1> DEFINE T == {m \in Nat : ~\E w : IsRun(w, path, names, m)}
<1>1. T \subseteq Nat /\ \A m \in Nat : m \notin T => \E w : IsRun(w, path, names, m)
  OBVIOUS
<1>2. 0 \notin T
  <2>1. IsRun([i \in 0 .. 0 |-> WalkStart(path)], path, names, 0)
    BY DEF IsRun
  <2> QED
    BY <2>1
<1>3. \A k \in Nat : k \notin T => k + 1 \notin T
  BY <1>1, RunGoesOn
<1> HIDE DEF T
<1>4. ASSUME NEW m \in T, \A y \in T : m <= y PROVE FALSE
  <2>1. m - 1 \in Nat /\ (m - 1) + 1 = m /\ m - 1 \notin T
    BY <1>1, <1>2, <1>4
  <2> QED
    BY <1>3, <2>1
<1>5. T = {}
  BY <1>1, <1>4, LeastNat
<1> QED
  BY <1>1, <1>5

\* No walk leads out of the shared directory.
LEMMA WalkConfined ==
  ASSUME NEW path \in Path, Inside(path), NEW names \in Path
  PROVE  Walk(path, names) \in WalkState /\ Inside(Walk(path, names).path)
<1> DEFINE w == CHOOSE f : IsRun(f, path, names, Len(names))
           T == {i \in 0 .. Len(names) : ~(w[i] \in WalkState /\ Inside(w[i].path))}
<1>1. Len(names) \in Nat /\ \A i \in 1 .. Len(names) : names[i] \in Name
  BY DEF Path
<1>2. Walk(path, names) = w[Len(names)]
  BY DEF Walk, IsRun
<1>3. IsRun(w, path, names, Len(names))
  BY <1>1, RunExists
<1> HIDE DEF w
<1>4. \A i \in 0 .. Len(names) : w[i] = IF i = 0 THEN WalkStart(path) ELSE WalkName(w[i - 1], names[i])
  BY <1>3 DEF IsRun
<1>5. WalkStart(path) \in WalkState /\ WalkStart(path).path = path
  BY DEF WalkStart, WalkState
<1>6. ASSUME NEW m \in T, \A y \in T : m <= y PROVE FALSE
  <2>1. m # 0 /\ m \in 1 .. Len(names)
    BY <1>1, <1>4, <1>5
  <2>2. m - 1 \in 0 .. Len(names) /\ m - 1 \notin T
    BY <1>1, <1>6, <2>1
  <2>3. w[m - 1] \in WalkState /\ Inside(w[m - 1].path)
    BY <2>2
  <2>4. w[m] = WalkName(w[m - 1], names[m]) /\ names[m] \in Name
    BY <1>1, <1>4, <2>1
  <2>5. w[m] \in WalkState /\ Inside(w[m].path)
    BY <2>3, <2>4, WalkNameConfined
  <2> QED
    BY <2>5
<1>7. T \subseteq Nat
  BY <1>1
<1>8. T = {}
  <2> HIDE DEF T
  <2> QED
    BY <1>6, <1>7, LeastNat
<1> QED
  BY <1>1, <1>2, <1>8


-----------------------------------------------------------------------------
(* Descriptors *)

LEMMA WithElements ==
  ASSUME NEW f, NEW x, NEW v
  PROVE  /\ DOMAIN With(f, x, v) = DOMAIN f \union {x}
         /\ With(f, x, v)[x] = v
         /\ \A y \in DOMAIN f : y # x => With(f, x, v)[y] = f[y]
BY DEF With

LEMMA NewFdFree ==
  ASSUME FreeFds # {}
  PROVE  NewFd \in Nat \ {0} /\ NewFd \notin DOMAIN open
<1>1. FreeFds \subseteq Nat
  BY P9fsAssumption DEF FreeFds
<1>2. \E n \in FreeFds : \A m \in FreeFds : n <= m
  BY <1>1, LeastNat
<1>3. NewFd \in FreeFds
  BY <1>2 DEF NewFd
<1> QED
  BY <1>3, P9fsAssumption DEF FreeFds

\* The fids and descriptors, in any state: what IInv says of them.
Owned(op, fs, ls) ==
  /\ \A f \in DOMAIN fs : fs[f] \in FidState
  /\ DOMAIN op \subseteq Nat \ {0}
  /\ \A f \in DOMAIN fs : Held(fs[f]) \cap ls = {}
  /\ \A d : d \in DOMAIN op <=> d \in ls \/ \E f \in DOMAIN fs : d \in Held(fs[f])
  /\ \A f, g \in DOMAIN fs : f # g => Held(fs[f]) \cap Held(fs[g]) = {}
  /\ \A f \in DOMAIN fs : fs[f].fd # 0 => fs[f].fd # fs[f].dirp
Within(fs) == \A f \in DOMAIN fs : Inside(fs[f].path)

LEMMA IInvMeans == IInv <=> Owned(open, fids, lost) /\ Within(fids)
<1>1. \A d : d \in AllHeld <=> \E f \in DOMAIN fids : d \in Held(fids[f])
  BY DEF AllHeld
<1>2. DOMAIN open = lost \union AllHeld <=>
        \A d : d \in DOMAIN open <=> d \in lost \/ \E f \in DOMAIN fids : d \in Held(fids[f])
  BY <1>1
<1>3. lost \cap AllHeld = {} <=> \A f \in DOMAIN fids : Held(fids[f]) \cap lost = {}
  BY <1>1
<1>4. IInv => Owned(open, fids, lost) /\ Within(fids)
  BY <1>2, <1>3 DEF IInv, Owned, Within, DescriptorsHeld, Confined, AllHeld
<1>5. Owned(open, fids, lost) /\ Within(fids) => IInv
  BY <1>2, <1>3 DEF IInv, Owned, Within, DescriptorsHeld, Confined, AllHeld
<1> QED
  BY <1>4, <1>5

LEMMA IInvMeansNext == IInv' <=> Owned(open', fids', lost') /\ Within(fids')
<1>1. IInv' <=> (Owned(open, fids, lost) /\ Within(fids))'
  BY IInvMeans, PTL
<1>2. Owned(open, fids, lost)' <=> Owned(open', fids', lost')
  BY DEF Owned
<1>3. Within(fids)' <=> Within(fids')
  BY DEF Within
<1> QED
  BY <1>1, <1>2, <1>3

\* A new descriptor goes to one fid.
LEMMA OwnsNew ==
  ASSUME NEW op, NEW fs, NEW ls, Owned(op, fs, ls), NEW f \in DOMAIN fs, NEW gs, NEW st \in FidState,
         NEW n \in Nat \ {0}, n \notin DOMAIN op, NEW x,
         DOMAIN gs = DOMAIN fs, gs[f] = st, \A g \in DOMAIN fs : g # f => gs[g] = fs[g],
         Held(st) = Held(fs[f]) \union {n}, st.fd # 0 => st.fd # st.dirp
  PROVE  Owned(With(op, n, x), gs, ls)
<1>1. DOMAIN With(op, n, x) = DOMAIN op \union {n}
  BY DEF With
<1>2. \A g \in DOMAIN fs : n \notin Held(fs[g])
  BY DEF Owned
<1>3. n \notin ls
  BY DEF Owned
<1>4. \A g \in DOMAIN gs : Held(gs[g]) = IF g = f THEN Held(fs[g]) \union {n} ELSE Held(fs[g])
  OBVIOUS
<1>5. \A g \in DOMAIN gs : gs[g] \in FidState /\ (gs[g].fd # 0 => gs[g].fd # gs[g].dirp)
  BY DEF Owned
<1>6. \A g \in DOMAIN gs : Held(gs[g]) \cap ls = {}
  BY <1>3, <1>4 DEF Owned
<1>7. \A g, h \in DOMAIN gs : g # h => Held(gs[g]) \cap Held(gs[h]) = {}
  BY <1>2, <1>4 DEF Owned
<1>8. \A d : d \in DOMAIN With(op, n, x) <=> d \in ls \/ \E g \in DOMAIN gs : d \in Held(gs[g])
  <2> SUFFICES ASSUME NEW d
               PROVE  d \in DOMAIN op \union {n} <=> d \in ls \/ \E g \in DOMAIN gs : d \in Held(gs[g])
    BY <1>1
  <2>1. d \in DOMAIN op <=> d \in ls \/ \E g \in DOMAIN fs : d \in Held(fs[g])
    BY DEF Owned
  <2>2. (\E g \in DOMAIN gs : d \in Held(gs[g])) <=> d = n \/ \E g \in DOMAIN fs : d \in Held(fs[g])
    BY <1>4
  <2> QED
    BY <2>1, <2>2
<1>9. DOMAIN With(op, n, x) \subseteq Nat \ {0}
  BY <1>1 DEF Owned
<1> QED
  BY <1>5, <1>6, <1>7, <1>8, <1>9 DEF Owned

\* The states of the fids change, what they hold does not.
LEMMA OwnsSame ==
  ASSUME NEW op, NEW fs, NEW ls, Owned(op, fs, ls), NEW gs, DOMAIN gs = DOMAIN fs,
         \A g \in DOMAIN fs : gs[g] \in FidState /\ gs[g].fd = fs[g].fd /\ gs[g].dirp = fs[g].dirp
  PROVE  Owned(op, gs, ls)
<1>1. \A g \in DOMAIN fs : Held(gs[g]) = Held(fs[g])
  BY DEF Held
<1> QED
  BY <1>1 DEF Owned

\* A fid goes, and what it held with it.
LEMMA OwnsLess ==
  ASSUME NEW op, NEW fs, NEW ls, Owned(op, fs, ls), NEW G \in SUBSET DOMAIN fs, NEW D,
         \A d : d \in D <=> \E g \in DOMAIN fs \ G : d \in Held(fs[g])
  PROVE  Owned([d \in DOMAIN op \ D |-> op[d]], [g \in G |-> fs[g]], ls)
<1> DEFINE gs == [g \in G |-> fs[g]]
           pp == [d \in DOMAIN op \ D |-> op[d]]
<1>1. DOMAIN gs = G /\ DOMAIN pp = DOMAIN op \ D /\ \A g \in G : gs[g] = fs[g]
  OBVIOUS
<1> HIDE DEF gs, pp
<1>2. \A d : d \in DOMAIN pp <=> d \in ls \/ \E g \in DOMAIN gs : d \in Held(gs[g])
  <2> SUFFICES ASSUME NEW d
               PROVE  d \in DOMAIN op \ D <=> d \in ls \/ \E g \in G : d \in Held(fs[g])
    BY <1>1
  <2>1. d \in DOMAIN op <=> d \in ls \/ \E g \in DOMAIN fs : d \in Held(fs[g])
    BY DEF Owned
  <2>2. ASSUME NEW g \in G, d \in Held(fs[g]) PROVE d \notin D
    <3>1. \A h \in DOMAIN fs \ G : Held(fs[g]) \cap Held(fs[h]) = {}
      BY DEF Owned
    <3> QED
      BY <2>2, <3>1
  <2>3. d \in ls => d \notin D
    BY DEF Owned
  <2> QED
    BY <2>1, <2>2, <2>3
<1>3. /\ \A f \in DOMAIN gs : gs[f] \in FidState /\ Held(gs[f]) \cap ls = {}
      /\ \A f \in DOMAIN gs : gs[f].fd # 0 => gs[f].fd # gs[f].dirp
      /\ \A f, g \in DOMAIN gs : f # g => Held(gs[f]) \cap Held(gs[g]) = {}
      /\ DOMAIN pp \subseteq Nat \ {0}
  BY <1>1 DEF Owned
<1>4. Owned(pp, gs, ls)
  BY <1>2, <1>3 DEF Owned
<1> QED
  BY <1>4 DEF pp, gs


\* A fid begins anew; what it held until then is given up.
LEMMA OwnsFresh ==
  ASSUME NEW op, NEW fs, NEW ls, Owned(op, fs, ls), NEW x, NEW p \in Path, NEW ms,
         ms = ls \union (IF x \in DOMAIN fs THEN Held(fs[x]) ELSE {})
  PROVE  Owned(op, With(fs, x, NewFid(p)), ms)
<1> DEFINE gs == With(fs, x, NewFid(p))
<1>1. DOMAIN gs = DOMAIN fs \union {x} /\ gs[x] = NewFid(p) /\ \A g \in DOMAIN fs : g # x => gs[g] = fs[g]
  BY DEF With
<1> HIDE DEF gs
<1>2. NewFid(p) \in FidState /\ NewFid(p).fd = 0 /\ NewFid(p).dirp = 0
  BY DEF NewFid, FidState
<1>3. Held(gs[x]) = {}
  BY <1>1, <1>2 DEF Held
<1>4. \A d : d \in DOMAIN op <=> d \in ms \/ \E g \in DOMAIN gs : d \in Held(gs[g])
  <2> SUFFICES ASSUME NEW d
               PROVE  d \in DOMAIN op <=> d \in ms \/ \E g \in DOMAIN gs : d \in Held(gs[g])
    OBVIOUS
  <2>1. d \in DOMAIN op <=> d \in ls \/ \E g \in DOMAIN fs : d \in Held(fs[g])
    BY DEF Owned
  <2>2. (\E g \in DOMAIN gs : d \in Held(gs[g])) <=> \E g \in DOMAIN fs : g # x /\ d \in Held(fs[g])
    BY <1>1, <1>3
  <2> QED
    BY <2>1, <2>2
<1>5. \A g \in DOMAIN gs : gs[g] \in FidState /\ (gs[g].fd # 0 => gs[g].fd # gs[g].dirp)
  BY <1>1, <1>2 DEF Owned
<1>6. \A g \in DOMAIN gs : Held(gs[g]) \cap ms = {}
  BY <1>1, <1>3 DEF Owned
<1>7. \A g, h \in DOMAIN gs : g # h => Held(gs[g]) \cap Held(gs[h]) = {}
  BY <1>1, <1>3 DEF Owned
<1>8. Owned(op, gs, ms)
  BY <1>4, <1>5, <1>6, <1>7 DEF Owned
<1> QED
  BY <1>8 DEF gs

-----------------------------------------------------------------------------
(* The requests that change fids or descriptors. *)

\* A fid of the guest has a path inside the directory and descriptors or 0.
LEMMA FidTypes ==
  ASSUME IInv, NEW f \in DOMAIN fids
  PROVE  /\ fids[f] \in FidState /\ fids[f].path \in Path /\ fids[f].fd \in Nat /\ fids[f].dirp \in Nat
         /\ Inside(fids[f].path)
BY DEF IInv, FidState, Confined

\* The state of one fid as a request leaves it.
LEMMA SetFd ==
  ASSUME NEW st \in FidState, NEW n \in Nat
  PROVE  /\ [st EXCEPT !.fd = n] \in FidState /\ [st EXCEPT !.fd = n].fd = n
         /\ [st EXCEPT !.fd = n].dirp = st.dirp /\ [st EXCEPT !.fd = n].path = st.path
BY DEF FidState

LEMMA SetDirp ==
  ASSUME NEW st \in FidState, NEW n \in Nat
  PROVE  /\ [st EXCEPT !.dirp = n] \in FidState /\ [st EXCEPT !.dirp = n].dirp = n
         /\ [st EXCEPT !.dirp = n].fd = st.fd /\ [st EXCEPT !.dirp = n].path = st.path
BY DEF FidState

LEMMA SetPath ==
  ASSUME NEW st \in FidState, NEW p \in Path
  PROVE  /\ [st EXCEPT !.path = p] \in FidState /\ [st EXCEPT !.path = p].path = p
         /\ [st EXCEPT !.path = p].fd = st.fd /\ [st EXCEPT !.path = p].dirp = st.dirp
BY DEF FidState

LEMMA SameFids ==
  ASSUME IInv, UNCHANGED <<open, fids, lost>>
  PROVE  IInv'
BY DEF IInv, DescriptorsHeld, Confined, AllHeld

\* A request that opens a descriptor for one fid, and may move it down.
LEMMA OneMore ==
  ASSUME IInv, NEW f \in DOMAIN fids, FreeFds # {}, NEW st \in FidState, NEW x,
         open' = With(open, NewFd, x), lost' = lost, fids' = [fids EXCEPT ![f] = st],
         Inside(st.path),
         \/ st.fd = NewFd /\ fids[f].fd = 0 /\ st.dirp = fids[f].dirp
         \/ st.dirp = NewFd /\ fids[f].dirp = 0 /\ st.fd = fids[f].fd
  PROVE  IInv'
<1>1. PICK n \in Nat \ {0} : n = NewFd /\ n \notin DOMAIN open
  BY NewFdFree
<1>2. Owned(open, fids, lost) /\ Within(fids)
  BY IInvMeans
<1>3. DOMAIN fids' = DOMAIN fids /\ fids'[f] = st /\ \A g \in DOMAIN fids : g # f => fids'[g] = fids[g]
  OBVIOUS
<1>4. Held(st) = Held(fids[f]) \union {n}
  BY <1>1 DEF Held
<1>5. fids[f].dirp \in {0} \union DOMAIN open /\ fids[f].fd \in {0} \union DOMAIN open
  BY <1>2 DEF Owned, Held
<1>6. st.fd # 0 => st.fd # st.dirp
  BY <1>1, <1>5
<1>7. Owned(open', fids', lost')
  BY <1>1, <1>2, <1>3, <1>4, <1>6, OwnsNew
<1>8. Within(fids')
  BY <1>2, <1>3 DEF Within
<1> QED
  BY <1>7, <1>8, IInvMeansNext


LEMMA LopenKeeps ==
  ASSUME IInv, NEW f, NEW flags, NEW fault, op_lopen(f, flags, fault)
  PROVE  IInv'
<1>1. CASE LopenRefused(f, flags, fault)
  BY <1>1, SameFids DEF op_lopen, LopenWith, Refuse, host
<1>2. CASE ~LopenRefused(f, flags, fault)
  <2>1. f \in DOMAIN fids /\ FreeFds # {} /\ fids[f].fd = 0 /\ lost' = lost
    BY <1>2 DEF op_lopen, LopenWith, LopenRefused
  <2>2. CASE ~Delivered("lopen", fault)
    BY <1>2, <2>1, <2>2, SameFids DEF op_lopen, LopenWith
  <2>3. CASE Delivered("lopen", fault)
    <3>1. PICK x : open' = With(open, NewFd, x) /\ fids' = [fids EXCEPT ![f] = [fids[f] EXCEPT !.fd = NewFd]]
      BY <1>2, <2>3 DEF op_lopen, LopenWith
    <3>2. NewFd \in Nat
      BY <2>1, NewFdFree
    <3>3. PICK st \in FidState : /\ st = [fids[f] EXCEPT !.fd = NewFd] /\ st.fd = NewFd
                                 /\ st.dirp = fids[f].dirp /\ st.path = fids[f].path
      BY <2>1, <3>2, FidTypes, SetFd
    <3> QED
      BY <2>1, <3>1, <3>3, FidTypes, OneMore
  <2> QED
    BY <2>2, <2>3
<1> QED
  BY <1>1, <1>2

\* The names of a path made longer by a name the guest gave.
LEMMA Joined ==
  ASSUME IInv, NEW f \in DOMAIN fids, NEW name \in Names
  PROVE  /\ join_path_name(fids[f].path, name) \in Path /\ name \in Name
         /\ is_name_legal(name) => Inside(join_path_name(fids[f].path, name))
<1>1. name \in Name
  BY P9fsAssumption DEF Name
<1>2. fids[f].path \in Path /\ Inside(fids[f].path)
  BY FidTypes
<1>3. Append(fids[f].path, name) \in Path
  BY <1>1, <1>2, AppendProperties DEF Path
<1> QED
  BY <1>1, <1>2, <1>3, InsideDown DEF join_path_name

LEMMA LcreateKeeps ==
  ASSUME IInv, NEW f, NEW name \in Names, NEW flags, NEW fault, op_lcreate(f, name, flags, fault)
  PROVE  IInv'
<1>1. CASE LcreateRefused(f, name, flags, fault)
  BY <1>1, SameFids DEF op_lcreate, Refuse, host
<1>2. CASE ~LcreateRefused(f, name, flags, fault)
  <2> DEFINE path == join_path_name(fids[f].path, name)
             final == Final(tree, path)
             good == fault # "stat_fails" /\ Delivered("lcreate", fault)
  <2>1. f \in DOMAIN fids /\ FreeFds # {} /\ fids[f].fd = 0 /\ lost' = lost /\ is_name_legal(name)
    BY <1>2 DEF op_lcreate, LcreateRefused
  <2>2. CASE ~good
    BY <1>2, <2>1, <2>2, SameFids DEF op_lcreate
  <2>3. CASE good
    <3>1. /\ open' = With(open, NewFd, Opened(final)[final])
          /\ fids' = [fids EXCEPT ![f] = [fids[f] EXCEPT !.path = path, !.fd = NewFd]]
      BY <1>2, <2>3 DEF op_lcreate
    <3>2. NewFd \in Nat
      BY <2>1, NewFdFree
    <3>3. PICK p \in Path : p = path /\ Inside(p)
      BY <2>1, Joined
    <3>4. PICK mid \in FidState : /\ mid = [fids[f] EXCEPT !.path = p] /\ mid.path = p
                                  /\ mid.fd = fids[f].fd /\ mid.dirp = fids[f].dirp
      BY <2>1, FidTypes, SetPath
    <3>5. PICK st \in FidState : /\ st = [mid EXCEPT !.fd = NewFd] /\ st.fd = NewFd
                                 /\ st.dirp = mid.dirp /\ st.path = mid.path
      BY <3>2, SetFd
    <3>6. fids' = [fids EXCEPT ![f] = st]
      BY <3>1, <3>3, <3>4, <3>5, Zenon
    <3>7. PICK x : x = Opened(final)[final]
      OBVIOUS
    <3>8. open' = With(open, NewFd, x) /\ lost' = lost /\ f \in DOMAIN fids /\ FreeFds # {}
      BY <2>1, <3>1, <3>7, Zenon
    <3>9. st.fd = NewFd /\ fids[f].fd = 0 /\ st.dirp = fids[f].dirp /\ Inside(st.path)
      BY <2>1, <3>3, <3>4, <3>5
    <3> QED
      BY <3>5, <3>6, <3>8, <3>9, OneMore
  <2> QED
    BY <2>2, <2>3
<1> QED
  BY <1>1, <1>2

LEMMA ReaddirKeeps ==
  ASSUME IInv, NEW f, NEW fault, op_readdir(f, fault)
  PROVE  IInv'
<1>1. CASE UNCHANGED <<open, fids, lost>>
  BY <1>1, SameFids
<1>2. CASE ~UNCHANGED <<open, fids, lost>>
  <2>1. PICK x :
        /\ f \in DOMAIN fids /\ fids[f].dirp = 0 /\ FreeFds # {} /\ lost' = lost
        /\ open' = With(open, NewFd, x) /\ fids' = [fids EXCEPT ![f] = [fids[f] EXCEPT !.dirp = NewFd]]
    BY <1>2 DEF op_readdir, Refuse, host
  <2>2. NewFd \in Nat
    BY <2>1, NewFdFree
  <2>3. PICK st \in FidState : /\ st = [fids[f] EXCEPT !.dirp = NewFd] /\ st.dirp = NewFd
                               /\ st.fd = fids[f].fd /\ st.path = fids[f].path
    BY <2>1, <2>2, FidTypes, SetDirp
  <2> QED
    BY <2>1, <2>3, FidTypes, OneMore
<1> QED
  BY <1>1, <1>2

LEMMA AttachKeeps ==
  ASSUME IInv, NEW f, NEW fault, op_attach(f, fault)
  PROVE  IInv'
<1>1. CASE UNCHANGED <<open, fids, lost>>
  BY <1>1, SameFids
<1>2. CASE ~UNCHANGED <<open, fids, lost>>
  <2>1. f \notin DOMAIN fids /\ open' = open /\ lost' = lost /\ fids' = With(fids, f, NewFid(Root))
    BY <1>2 DEF op_attach, Refuse, host
  <2>2. Owned(open', fids', lost')
    <3>1. lost = lost \union (IF f \in DOMAIN fids THEN Held(fids[f]) ELSE {})
      BY <2>1
    <3>2. Owned(open, fids, lost)
      BY IInvMeans
    <3> QED
      BY <2>1, <3>1, <3>2, RootPath, OwnsFresh
  <2>3. Within(fids')
    <3>1. Inside(Root) /\ NewFid(Root).path = Root
      BY InsideRoot DEF NewFid
    <3>2. Within(fids)
      BY IInvMeans
    <3> QED
      BY <2>1, <3>1, <3>2 DEF Within, With
  <2> QED
    BY <2>2, <2>3, IInvMeansNext
<1> QED
  BY <1>1, <1>2

LEMMA WalkKeeps ==
  ASSUME IInv, NEW f, NEW newfid, NEW names \in Walks, NEW fault, op_walk(f, newfid, names, fault)
  PROVE  IInv'
<1>1. CASE UNCHANGED <<open, fids, lost>>
  BY <1>1, SameFids
<1>2. CASE ~UNCHANGED <<open, fids, lost>>
  <2>1. /\ f \in DOMAIN fids /\ (newfid = f \/ newfid \notin DOMAIN fids) /\ open' = open
        /\ fids' = With(fids, newfid, NewFid(Walk(fids[f].path, names).path))
        /\ lost' = lost \union (IF newfid = f THEN Held(fids[f]) ELSE {})
    BY <1>2 DEF op_walk, Refuse, host
  <2>2. names \in Path
    BY P9fsAssumption DEF Path, Name
  <2>3. PICK p \in Path : p = Walk(fids[f].path, names).path /\ Inside(p)
    BY <2>1, <2>2, FidTypes, WalkConfined DEF WalkState
  <2>4. Owned(open', fids', lost')
    <3>1. lost' = lost \union (IF newfid \in DOMAIN fids THEN Held(fids[newfid]) ELSE {})
      BY <2>1
    <3>2. Owned(open, fids, lost)
      BY IInvMeans
    <3> QED
      BY <2>1, <2>3, <3>1, <3>2, OwnsFresh
  <2>5. Within(fids')
    <3>1. NewFid(p).path = p
      BY DEF NewFid
    <3>2. Within(fids)
      BY IInvMeans
    <3> QED
      BY <2>1, <2>3, <3>1, <3>2 DEF Within, With
  <2> QED
    BY <2>4, <2>5, IInvMeansNext
<1> QED
  BY <1>1, <1>2

LEMMA ClunkKeeps ==
  ASSUME IInv, NEW f, NEW fault, op_clunk(f, fault)
  PROVE  IInv'
<1>1. CASE UNCHANGED <<open, fids, lost>>
  BY <1>1, SameFids
<1>2. CASE ~UNCHANGED <<open, fids, lost>>
  <2>1. /\ f \in DOMAIN fids /\ lost' = lost
        /\ open' = [d \in DOMAIN open \ Held(fids[f]) |-> open[d]]
        /\ fids' = [g \in DOMAIN fids \ {f} |-> fids[g]]
    BY <1>2 DEF op_clunk, Refuse, host, close_fid_state
  <2>2. Owned(open, fids, lost) /\ Within(fids)
    BY IInvMeans
  <2>3. \A d : d \in Held(fids[f]) <=> \E g \in DOMAIN fids \ (DOMAIN fids \ {f}) : d \in Held(fids[g])
    BY <2>1
  <2>4. Owned(open', fids', lost')
    BY <2>1, <2>2, <2>3, OwnsLess
  <2>5. Within(fids')
    BY <2>1, <2>2 DEF Within
  <2> QED
    BY <2>4, <2>5, IInvMeansNext
<1> QED
  BY <1>1, <1>2

LEMMA ResetKeeps ==
  ASSUME IInv, do_on_device_reset
  PROVE  IInv'
<1>1. /\ open' = [d \in DOMAIN open \ AllHeld |-> open[d]] /\ DOMAIN fids' = {} /\ lost' = lost
  BY DEF do_on_device_reset, AllHeld
<1>2. DOMAIN open' = lost /\ DOMAIN open' \subseteq Nat \ {0}
  BY <1>1 DEF IInv, DescriptorsHeld, AllHeld
<1>3. Owned(open', fids', lost') /\ Within(fids')
  BY <1>1, <1>2 DEF Owned, Within
<1> QED
  BY <1>3, IInvMeansNext


\* The two names that lead elsewhere than down.
LEMMA DotNames ==
  /\ Len(Dot) = 1 /\ Dot[1] = "." /\ Len(DotDot) = 2 /\ DotDot[1] = "." /\ DotDot[2] = "."
  /\ \A name \in Name : Len(name) = 1 /\ name[1] = "." => name = Dot
  /\ \A name \in Name : Len(name) = 2 /\ name[1] = "." /\ name[2] = "." => name = DotDot
<1>1. ASSUME NEW S, NEW x \in S
      PROVE  /\ <<x>> \in Seq(S) /\ Len(<<x>>) = 1 /\ <<x>>[1] = x
             /\ <<x, x>> \in Seq(S) /\ Len(<<x, x>>) = 2 /\ <<x, x>>[1] = x /\ <<x, x>>[2] = x
  OBVIOUS
<1>2. ASSUME NEW S, NEW name \in Seq(S), Len(name) = 1 PROVE name = <<name[1]>>
  <2>1. PICK x \in S : x = name[1]
    BY <1>2
  <2>2. <<x>> \in Seq(S) /\ Len(<<x>>) = 1 /\ <<x>>[1] = x
    BY <1>1
  <2> QED
    BY <1>2, <2>1, <2>2, SeqEqual
<1>3. ASSUME NEW S, NEW name \in Seq(S), Len(name) = 2, name[1] = name[2] PROVE name = <<name[1], name[1]>>
  <2>0. 1 \in 1 .. Len(name) /\ 2 \in 1 .. Len(name)
    BY <1>3
  <2>1. PICK x \in S : x = name[1]
    BY <2>0, ElementOfSeq
  <2>2. <<x, x>> \in Seq(S) /\ Len(<<x, x>>) = 2 /\ <<x, x>>[1] = x /\ <<x, x>>[2] = x
    BY <1>1
  <2> QED
    <3>1. \A i \in 1 .. Len(name) : name[i] = <<x, x>>[i]
      <4>1. \A i \in 1 .. Len(name) : i = 1 \/ i = 2
        BY <1>3
      <4> QED
        BY <1>3, <2>1, <2>2, <4>1
    <3>2. name = <<x, x>>
      BY <1>3, <2>2, <3>1, SeqEqual
    <3> QED
      BY <2>1, <3>2
<1>4. Len(Dot) = 1 /\ Dot[1] = "." /\ Len(DotDot) = 2 /\ DotDot[1] = "." /\ DotDot[2] = "."
  BY DEF Dot, DotDot
<1>5. ASSUME NEW name \in Name, Len(name) = 1, name[1] = "." PROVE name = Dot
  BY <1>2, <1>5 DEF Dot, Name
<1>6. ASSUME NEW name \in Name, Len(name) = 2, name[1] = ".", name[2] = "." PROVE name = DotDot
  BY <1>3, <1>6 DEF DotDot, Name
<1> QED
  BY <1>4, <1>5, <1>6

\* Letters after those of a legal name make no name that is not.
LEMMA LegalLonger ==
  ASSUME NEW name \in Name, is_name_legal(name), NEW tail \in Name, "/" \notin Range(tail)
  PROVE  name \o tail \in Name /\ is_name_legal(name \o tail)
<1>1. PICK c \in Name : /\ c = name \o tail /\ Len(c) = Len(name) + Len(tail)
                        /\ \A i \in 1 .. Len(name) + Len(tail) :
                             c[i] = IF i <= Len(name) THEN name[i] ELSE tail[i - Len(name)]
  <2>1. /\ name \o tail \in Seq(STRING) /\ Len(name \o tail) = Len(name) + Len(tail)
        /\ \A i \in 1 .. Len(name) + Len(tail) :
             (name \o tail)[i] = IF i <= Len(name) THEN name[i] ELSE tail[i - Len(name)]
    BY ConcatProperties DEF Name
  <2> QED
    BY <2>1 DEF Name
<1>2. Len(name) \in Nat /\ Len(tail) \in Nat /\ Len(name) > 0 /\ DOMAIN name = 1 .. Len(name)
      /\ DOMAIN tail = 1 .. Len(tail) /\ DOMAIN c = 1 .. Len(name) + Len(tail)
  BY <1>1, EmptySeq DEF Name, is_name_legal
<1>3. ASSUME NEW i \in DOMAIN c PROVE c[i] # "/"
  <2>1. CASE i <= Len(name)
    <3>1. i \in DOMAIN name /\ c[i] = name[i]
      BY <1>1, <1>2, <2>1
    <3> QED
      BY <3>1 DEF is_name_legal, Range
  <2>2. CASE ~(i <= Len(name))
    <3>1. i - Len(name) \in DOMAIN tail /\ c[i] = tail[i - Len(name)]
      BY <1>1, <1>2, <2>2
    <3> QED
      BY <3>1 DEF Range
  <2> QED
    BY <2>1, <2>2
<1>4. "/" \notin Range(c)
  BY <1>3 DEF Range
<1>5. c # <<>>
  BY <1>1, <1>2, EmptySeq DEF Name
<1>6. \A i \in 1 .. Len(name) : c[i] = name[i]
  BY <1>1, <1>2
<1>7. ASSUME c = Dot PROVE FALSE
  <2>1. Len(c) = 1 /\ c[1] = "."
    BY <1>7, DotNames
  <2>2. Len(name) = 1 /\ 1 \in 1 .. Len(name)
    BY <1>1, <1>2, <2>1
  <2>3. name = Dot
    BY <1>6, <2>1, <2>2, DotNames
  <2> QED
    BY <2>3 DEF is_name_legal
<1>8. ASSUME c = DotDot PROVE FALSE
  <2>1. Len(c) = 2 /\ c[1] = "." /\ c[2] = "."
    BY <1>8, DotNames
  <2>2. (Len(name) = 1 /\ 1 \in 1 .. Len(name)) \/ (Len(name) = 2 /\ 1 \in 1 .. Len(name) /\ 2 \in 1 .. Len(name))
    BY <1>1, <1>2, <2>1
  <2>3. name = Dot \/ name = DotDot
    BY <1>6, <2>1, <2>2, DotNames
  <2> QED
    BY <2>3 DEF is_name_legal
<1> QED
  BY <1>1, <1>4, <1>5, <1>7, <1>8 DEF is_name_legal

\* The rest of a path inside, put after another path inside.
LEMMA InsideJoins ==
  ASSUME NEW head \in Path, Inside(head), NEW path \in Path, Inside(path), NEW n \in Nat, n >= Len(Root), n <= Len(path)
  PROVE  /\ head \o SubSeq(path, n + 1, Len(path)) \in Path
         /\ Inside(head \o SubSeq(path, n + 1, Len(path)))
<1> DEFINE b == Len(path)
           h == Len(head)
           rest == SubSeq(path, n + 1, b)
           q == head \o rest
<1>1. b \in Nat /\ h \in Nat /\ Len(Root) \in Nat
  BY RootPath DEF Path
<1>2. rest \in Path /\ Len(rest) = b - n /\ \A i \in 1 .. b - n : rest[i] = path[i + n]
  <2>1. \A i \in n + 1 .. b : path[i] \in Name
    BY <1>1 DEF Path
  <2>2. n + 1 \in Int /\ b \in Int
    BY <1>1
  <2>0. n <= b
    OBVIOUS
  <2> HIDE DEF b
  <2>3. /\ SubSeq(path, n + 1, b) \in Seq(Name)
        /\ Len(SubSeq(path, n + 1, b)) = IF n + 1 <= b THEN b - (n + 1) + 1 ELSE 0
        /\ \A i \in 1 .. b - (n + 1) + 1 : SubSeq(path, n + 1, b)[i] = path[(n + 1) + i - 1]
    BY <2>1, <2>2, SubSeqProperties
  <2>4. \A i \in 1 .. b - n : i \in 1 .. b - (n + 1) + 1 /\ (n + 1) + i - 1 = i + n
    BY <1>1
  <2> QED
    BY <1>1, <2>0, <2>3, <2>4 DEF Path
<1> HIDE DEF rest
<1>3. /\ q \in Path /\ Len(q) = h + (b - n)
      /\ \A i \in 1 .. h + (b - n) : q[i] = IF i <= h THEN head[i] ELSE rest[i - h]
  <2>1. /\ q \in Seq(Name) /\ Len(q) = Len(head) + Len(rest)
        /\ \A i \in 1 .. Len(head) + Len(rest) : q[i] = IF i <= Len(head) THEN head[i] ELSE rest[i - Len(head)]
    BY <1>2, ConcatProperties DEF Path
  <2> QED
    BY <1>2, <2>1 DEF Path
<1>4. IsPrefix(Root, q)
  BY <1>2, RootPath, PrefixGrows DEF Path, Inside
<1> HIDE DEF q
<1>5. ASSUME NEW i \in Len(Root) + 1 .. Len(q) PROVE is_name_legal(q[i])
  <2>1. CASE i <= h
    <3>1. i \in 1 .. h + (b - n) /\ i \in Len(Root) + 1 .. h
      BY <1>1, <1>3, <2>1
    <3>2. q[i] = head[i]
      BY <1>3, <2>1, <3>1
    <3> QED
      BY <3>1, <3>2 DEF Inside
  <2>2. CASE ~(i <= h)
    <3>1. /\ i \in 1 .. h + (b - n) /\ i - h \in 1 .. b - n /\ (i - h) + n \in Len(Root) + 1 .. b
      BY <1>1, <1>3, <2>2
    <3>2. q[i] = rest[i - h]
      BY <1>3, <2>2, <3>1
    <3>3. q[i] = path[(i - h) + n]
      BY <1>2, <3>1, <3>2
    <3> QED
      BY <3>1, <3>3 DEF Inside
  <2> QED
    BY <2>1, <2>2
<1> QED
  BY <1>3, <1>4, <1>5 DEF Inside, q, rest

\* A path that op_renameat respells stays inside.
LEMMA RespelledInside ==
  ASSUME NEW path \in Path, Inside(path), NEW dir \in Path, Inside(dir), NEW name \in Name, is_name_legal(name),
         NEW old \in Path, Len(old) > Len(Root), Occurs(path, old, 0)
  PROVE  /\ Respelled(path, old, Append(dir, name)) \in Path
         /\ Inside(Respelled(path, old, Append(dir, name)))
<1> DEFINE new == Append(dir, name)
           n == Len(old)
           at == path[n]
           tail == SubSeq(at, Len(Last(old)) + 1, Len(at))
           rest == SubSeq(path, n + 1, Len(path))
<1>1. n \in Nat /\ n > Len(Root) /\ Len(path) \in Nat /\ Len(path) >= n /\ Len(Root) \in Nat /\ n \in Len(Root) + 1 .. Len(path)
      /\ n \in 1 .. Len(path)
  <2>1. n \in Nat /\ Len(path) \in Nat /\ Len(Root) \in Nat
    BY RootPath DEF Path
  <2> QED
    BY <2>1 DEF Occurs
<1>2. at \in Name /\ Last(old) \in Name /\ is_name_legal(at)
  BY <1>1 DEF Path, Last, Inside
<1>3. tail \in Name /\ "/" \notin Range(tail)
  <2> DEFINE a == Len(Last(old)) + 1
             b == Len(at)
  <2>1. a \in Nat /\ a > 0 /\ b \in Nat /\ \A i \in 1 .. b : at[i] \in STRING
    BY <1>2 DEF Name
  <2>2. tail = SubSeq(at, a, b)
    OBVIOUS
  <2>3. "/" \notin Range(at) /\ DOMAIN at = 1 .. b
    BY <1>2 DEF is_name_legal, Name
  <2> HIDE DEF a, b, tail, at
  <2>4. /\ tail \in Seq(STRING) /\ Len(tail) = IF a <= b THEN b - a + 1 ELSE 0
        /\ \A i \in 1 .. b - a + 1 : tail[i] = at[a + i - 1]
    <3>1. \A i \in a .. b : at[i] \in STRING
      BY <2>1
    <3> QED
      BY <2>1, <2>2, <3>1, SubSeqProperties
  <2>5. ASSUME NEW i \in DOMAIN tail PROVE tail[i] # "/"
    <3>1. DOMAIN tail = 1 .. Len(tail)
      BY <2>4
    <3>2. i \in 1 .. b - a + 1 /\ a + i - 1 \in 1 .. b
      BY <2>1, <2>4, <3>1
    <3>3. at[a + i - 1] # "/"
      BY <2>3, <3>2 DEF Range
    <3> QED
      BY <2>4, <3>2, <3>3
  <2> QED
    BY <2>4, <2>5 DEF Name, Range
<1>5. Front(new) = dir /\ Last(new) = name
  <2>1. new \in Path /\ Len(new) = Len(dir) + 1 /\ new[Len(dir) + 1] = name /\ \A i \in 1 .. Len(dir) : new[i] = dir[i]
    BY DEF Path
  <2>2. Front(new) \in Path /\ Len(Front(new)) = Len(dir) /\ \A i \in 1 .. Len(dir) : Front(new)[i] = new[i]
    BY <2>1 DEF Path, Front
  <2>3. Front(new) = dir
    BY <2>1, <2>2, SeqEqual DEF Path
  <2>4. Last(new) = name
    BY <2>1 DEF Last, Path
  <2> QED
    BY <2>3, <2>4
<1> HIDE DEF new, at, tail, rest
<1>6. Respelled(path, old, new) = dir \o <<name \o tail>> \o rest
  BY <1>5 DEF Respelled, at, tail, rest
<1>7. name \o tail \in Name /\ is_name_legal(name \o tail)
  BY <1>3, LegalLonger
<1>8. PICK longer \in Name : longer = name \o tail /\ is_name_legal(longer)
  BY <1>7
<1>9. dir \o <<longer>> = Append(dir, longer)
  BY DEF Path
<1>10. PICK head \in Path : head = dir \o <<longer>> /\ Inside(head)
  BY <1>8, <1>9, InsideDown
<1>11. head \o rest \in Path /\ Inside(head \o rest)
  BY <1>1, <1>10, InsideJoins DEF rest
<1> QED
  BY <1>6, <1>8, <1>10, <1>11 DEF new

LEMMA RenameatKeeps ==
  ASSUME IInv, NEW d, NEW oldname \in Names, NEW e, NEW newname \in Names, NEW fault,
         op_renameat(d, oldname, e, newname, fault)
  PROVE  IInv'
<1> DEFINE old == join_path_name(fids[d].path, oldname)
           new == join_path_name(fids[e].path, newname)
<1>1. CASE UNCHANGED <<open, fids, lost>>
  BY <1>1, SameFids
<1>2. CASE ~UNCHANGED <<open, fids, lost>>
  <2>1. /\ d \in DOMAIN fids /\ e \in DOMAIN fids /\ open' = open /\ lost' = lost /\ fids' = FixPaths(old, new)
        /\ is_name_legal(newname)
    BY <1>2 DEF op_renameat, Refuse, host
  <2>2. PICK o \in Path : o = old /\ Len(o) > Len(Root)
    <3>1. PICK q \in Path : q = fids[d].path /\ Inside(q) /\ oldname \in Name
      BY <2>1, FidTypes, Joined
    <3>2. Len(q) >= Len(Root) /\ Len(q) \in Nat /\ Len(Root) \in Nat
      BY <3>1, RootPath, PrefixElements DEF Inside, Path
    <3>3. PICK o \in Path : o = Append(q, oldname) /\ Len(o) = Len(q) + 1
      <4>1. Append(q, oldname) \in Seq(Name) /\ Len(Append(q, oldname)) = Len(q) + 1
        BY <3>1, AppendProperties DEF Path
      <4> QED
        BY <4>1 DEF Path
    <3>4. Len(o) > Len(Root)
      BY <3>2, <3>3
    <3>5. o = old
      BY <3>1, <3>3 DEF join_path_name
    <3> QED
      BY <3>4, <3>5
  <2>3. newname \in Name
    BY <2>1, Joined
  <2>4. ASSUME NEW g \in DOMAIN fids
        PROVE  /\ fids'[g] \in FidState /\ fids'[g].fd = fids[g].fd /\ fids'[g].dirp = fids[g].dirp
               /\ Inside(fids'[g].path)
    <3>1. CASE ~StartsWith(fids[g].path, o)
      BY <2>1, <2>2, <3>1, FidTypes DEF FixPaths
    <3>2. CASE StartsWith(fids[g].path, o)
      <4>1. PICK p \in Path : p = Respelled(fids[g].path, o, new) /\ Inside(p)
        <5>1. PICK dir \in Path : dir = fids[e].path /\ Inside(dir)
          BY <2>1, FidTypes
        <5>2. fids[g].path \in Path /\ Inside(fids[g].path)
          BY FidTypes
        <5> QED
          BY <2>1, <2>2, <2>3, <3>2, <5>1, <5>2, RespelledInside DEF join_path_name, StartsWith
      <4>2. fids'[g] = [fids[g] EXCEPT !.path = p]
        BY <2>1, <2>2, <3>2, <4>1 DEF FixPaths
      <4> QED
        BY <4>1, <4>2, FidTypes, SetPath
    <3> QED
      BY <3>1, <3>2
  <2>5. DOMAIN fids' = DOMAIN fids
    BY <2>1 DEF FixPaths
  <2>6. Owned(open', fids', lost')
    <3>1. Owned(open, fids, lost)
      BY IInvMeans
    <3> QED
      BY <2>1, <2>4, <2>5, <3>1, OwnsSame
  <2>7. Within(fids')
    BY <2>4, <2>5 DEF Within
  <2> QED
    BY <2>6, <2>7, IInvMeansNext
<1> QED
  BY <1>1, <1>2

\* The requests that leave the fids alone.
LEMMA OthersKeep ==
  ASSUME IInv, NEW f, NEW g, NEW name, NEW k, NEW b, NEW fault,
         \/ op_version(fault) \/ Malformed(fault) \/ NoHeader
         \/ Inspect(k, f, b, fault) \/ op_readlink(f, fault) \/ OnOpenFid(k, f, fault) \/ MakeWith(f, name, k, fault, b)
         \/ op_link(f, g, name, fault) \/ op_unlinkat(f, name, b, fault)
  PROVE  IInv'
<1>1. UNCHANGED <<open, fids, lost>>
  BY DEF op_version, Malformed, NoHeader, Inspect, op_readlink, OnOpenFid, MakeWith, op_link, op_unlinkat, Refuse, Reply, host
<1> QED
  BY <1>1, SameFids

-----------------------------------------------------------------------------
(* The induction *)

LEMMA InitIInv == Init => IInv
<1> SUFFICES ASSUME Init PROVE IInv
  OBVIOUS
<1>1. DOMAIN open = {} /\ DOMAIN fids = {} /\ lost = {}
  BY DEF Init
<1> QED
  BY <1>1, IInvMeans DEF Owned, Within

LEMMA NextIInv == IInv /\ [Next]_vars => IInv'
<1> SUFFICES ASSUME IInv, [Next]_vars PROVE IInv'
  OBVIOUS
<1>1. CASE vars' = vars
  BY <1>1, SameFids DEF vars
<1>2. CASE do_on_device_reset
  BY <1>2, ResetKeeps
<1>3. CASE do_on_device_queue_available
  <2>1. \/ NoHeader
        \/ \E fault \in Faults, f \in Fids :
             \/ op_clunk(f, fault) \/ op_fsync(f, fault)
             \/ \E follows \in BOOLEAN : op_setattr(f, follows, fault)
             \/ \E name \in Names :
                  \/ \E removedir \in BOOLEAN : op_unlinkat(f, name, removedir, fault)
                  \/ \E g \in Fids : op_link(f, g, name, fault)
                  \/ \E g \in Fids, other \in Names : op_renameat(f, name, g, other, fault)
        \/ \E fault \in BodyFaults :
             \/ op_version(fault) \/ Malformed(fault)
             \/ \E f \in Fids :
                  \/ op_attach(f, fault) \/ op_readdir(f, fault) \/ op_readlink(f, fault)
                  \/ op_statfs(f, fault) \/ op_getattr(f, fault) \/ op_read(f, fault)
                  \/ op_write(f, fault) \/ op_lock(f, fault) \/ op_getlock(f, fault)
                  \/ \E flags \in {{}, {"creat", "excl"}, {"nofollow"}} : op_lopen(f, flags, fault)
                  \/ \E g \in Fids, names \in Walks : op_walk(f, g, names, fault)
        \/ \E fault \in MakeFaults, f \in Fids, name \in Names :
             \/ \E flags \in {{}, {"excl", "noctty"}} : op_lcreate(f, name, flags, fault)
             \/ \E target \in Targets : op_symlink(f, name, target, fault)
             \/ op_mknod(f, name, fault) \/ op_mkdir(f, name, fault)
    BY <1>3 DEF do_on_device_queue_available
  <2>2. ASSUME NEW fault, op_version(fault) \/ Malformed(fault) \/ NoHeader
        PROVE  IInv'
    BY <2>2, OthersKeep
  <2>3. ASSUME NEW fault, NEW f \in Fids, op_attach(f, fault) \/ op_readdir(f, fault) \/ op_clunk(f, fault)
               \/ \E flags : op_lopen(f, flags, fault)
        PROVE  IInv'
    BY <2>3, AttachKeeps, ReaddirKeeps, ClunkKeeps, LopenKeeps
  <2>4. ASSUME NEW fault, NEW f \in Fids,
               \/ op_statfs(f, fault) \/ op_getattr(f, fault) \/ op_readlink(f, fault)
               \/ \E follows \in BOOLEAN : op_setattr(f, follows, fault)
               \/ op_fsync(f, fault) \/ op_read(f, fault) \/ op_write(f, fault) \/ op_lock(f, fault)
               \/ op_getlock(f, fault)
        PROVE  IInv'
    <3>1. ASSUME NEW k, NEW b, Inspect(k, f, b, fault) PROVE IInv'
      BY <3>1, OthersKeep
    <3>2. ASSUME NEW k, NEW ft, OnOpenFid(k, f, ft) PROVE IInv'
      BY <3>2, OthersKeep
    <3>3. ASSUME op_readlink(f, fault) PROVE IInv'
      BY <3>3, OthersKeep
    <3> QED
      BY <2>4, <3>1, <3>2, <3>3 DEF op_statfs, op_getattr, op_setattr, op_fsync, op_read, op_write,
                                    op_lock, op_getlock
  <2>5. ASSUME NEW fault, NEW f \in Fids, NEW name \in Names,
               \/ \E flags : op_lcreate(f, name, flags, fault)
               \/ \E g \in Fids, other \in Names : op_renameat(f, name, g, other, fault)
        PROVE  IInv'
    BY <2>5, LcreateKeeps, RenameatKeeps
  <2>6. ASSUME NEW fault, NEW f \in Fids, NEW name \in Names,
               \/ \E target \in Targets : op_symlink(f, name, target, fault)
               \/ op_mknod(f, name, fault) \/ op_mkdir(f, name, fault)
               \/ \E removedir \in BOOLEAN : op_unlinkat(f, name, removedir, fault)
               \/ \E g \in Fids : op_link(f, g, name, fault)
        PROVE  IInv'
    <3>1. ASSUME NEW k, NEW b, MakeWith(f, name, k, fault, b) PROVE IInv'
      BY <3>1, OthersKeep
    <3>2. ASSUME NEW b, op_unlinkat(f, name, b, fault) PROVE IInv'
      BY <3>2, OthersKeep
    <3>3. ASSUME NEW g, op_link(f, g, name, fault) PROVE IInv'
      BY <3>3, OthersKeep
    <3> QED
      BY <2>6, <3>1, <3>2, <3>3 DEF op_symlink, op_mknod, op_mkdir
  <2>7. ASSUME NEW fault, NEW f \in Fids, NEW g \in Fids, NEW names \in Walks, op_walk(f, g, names, fault)
        PROVE  IInv'
    BY <2>7, WalkKeeps
  <2> QED
    BY <2>1, <2>2, <2>3, <2>4, <2>5, <2>6, <2>7
<1> QED
  BY <1>1, <1>2, <1>3 DEF Next
-----------------------------------------------------------------------------
(* The host's files *)

File(n) == [id : 0 .. n, type : {"dir", "file", "link"}, to : Path]

\* Every file lies in a directory, and no directory has two paths.
TreeOK(t, n) ==
  /\ n \in Nat /\ DOMAIN t \subseteq Path
  /\ \A p \in DOMAIN t : t[p] \in File(n) /\ Len(p) <= Len(Root) + Depth
  /\ \A p \in DOMAIN t : p # <<>> => Front(p) \in DOMAIN t /\ t[Front(p)].type = "dir"
  /\ \A p, q \in DOMAIN t : t[p] = t[q] /\ t[p].type = "dir" => p = q

TreeInv == TreeOK(tree, made)

\* All that a path is, and its part without the last name.
LEMMA PathFacts ==
  ASSUME NEW p \in Path
  PROVE  /\ Len(p) \in Nat /\ (p # <<>> <=> Len(p) > 0)
         /\ p # <<>> => /\ Front(p) \in Path /\ Len(Front(p)) = Len(p) - 1
                        /\ \A i \in 1 .. Len(p) - 1 : Front(p)[i] = p[i]
<1>1. Len(p) \in Nat /\ (p # <<>> <=> Len(p) > 0)
  BY EmptySeq DEF Path
<1>2. ASSUME p # <<>>
      PROVE  /\ Front(p) \in Path /\ Len(Front(p)) = Len(p) - 1
             /\ \A i \in 1 .. Len(p) - 1 : Front(p)[i] = p[i]
  <2>1. \A n \in 0 .. Len(p) : /\ SubSeq(p, 1, n) \in Path /\ Len(SubSeq(p, 1, n)) = n
                               /\ \A i \in 1 .. n : SubSeq(p, 1, n)[i] = p[i]
    BY DEF Path
  <2>2. Len(p) - 1 \in 0 .. Len(p)
    BY <1>1, <1>2
  <2> QED
    BY <2>1, <2>2 DEF Front
<1> QED
  BY <1>1, <1>2

LEMMA PathEqual ==
  ASSUME NEW p \in Path, NEW q \in Path, Len(p) = Len(q), \A i \in 1 .. Len(p) : p[i] = q[i]
  PROVE  p = q
BY SeqEqual DEF Path

LEMMA PathPrefix ==
  ASSUME NEW p \in Path, NEW q \in Path
  PROVE  IsPrefix(p, q) <=> Len(p) <= Len(q) /\ \A i \in 1 .. Len(p) : p[i] = q[i]
BY PrefixElements DEF Path

LEMMA PrefixFront ==
  ASSUME NEW p \in Path, NEW q \in Path, p # q, IsPrefix(p, q)
  PROVE  q # <<>> /\ Len(p) < Len(q) /\ Front(q) \in Path /\ IsPrefix(p, Front(q))
<1>1. Len(p) < Len(q)
  BY PathPrefix, PathEqual, PathFacts
<1>2. q # <<>>
  BY <1>1, PathFacts
<1>3. IsPrefix(p, Front(q))
  BY PrefixGrows DEF Path
<1> QED
  BY <1>1, <1>2, <1>3, PathFacts

LEMMA FrontPrefix ==
  ASSUME NEW p \in Path, p # <<>>
  PROVE  Front(p) \in Path /\ IsPrefix(Front(p), p) /\ Front(p) # p /\ ~IsPrefix(p, Front(p))
<1>1. PICK q \in Path : /\ q = Front(p) /\ Len(q) = Len(p) - 1
                        /\ \A i \in 1 .. Len(p) - 1 : q[i] = p[i]
  BY PathFacts
<1>2. Len(p) \in Nat /\ Len(q) < Len(p)
  BY <1>1, PathFacts
<1>3. IsPrefix(q, p) /\ ~IsPrefix(p, q) /\ q # p
  BY <1>1, <1>2, PathPrefix
<1> QED
  BY <1>1, <1>3

LEMMA PrefixTransitive ==
  ASSUME NEW p \in Path, NEW q \in Path, NEW r \in Path, IsPrefix(p, q), IsPrefix(q, r)
  PROVE  IsPrefix(p, r)
<1>1. Len(p) <= Len(q) /\ \A i \in 1 .. Len(p) : p[i] = q[i]
  BY PathPrefix
<1>2. Len(q) <= Len(r) /\ \A i \in 1 .. Len(q) : q[i] = r[i]
  BY PathPrefix
<1>3. Len(p) \in Nat /\ Len(q) \in Nat /\ Len(r) \in Nat
  BY PathFacts
<1> QED
  BY <1>1, <1>2, <1>3, PathPrefix

\* What comes before a file is a directory.
LEMMA Above ==
  ASSUME NEW t, NEW n, TreeOK(t, n), NEW p \in Path, NEW q \in DOMAIN t, IsPrefix(p, q)
  PROVE  p \in DOMAIN t /\ (p # q => t[p].type = "dir")
<1> DEFINE Bad(r) == ~(p \in DOMAIN t /\ (p # r => t[p].type = "dir"))
           T == {l \in Nat : \E r \in DOMAIN t : l = Len(r) /\ IsPrefix(p, r) /\ Bad(r)}
<1>1. \A r \in DOMAIN t : r \in Path /\ Len(r) \in Nat
  BY PathFacts DEF TreeOK
<1>2. ASSUME NEW m \in T, \A y \in T : m <= y PROVE FALSE
  <2>1. PICK r \in DOMAIN t : m = Len(r) /\ IsPrefix(p, r) /\ Bad(r)
    OBVIOUS
  <2>2. p # r
    BY <2>1
  <2>3. r # <<>> /\ IsPrefix(p, Front(r)) /\ Front(r) \in DOMAIN t /\ t[Front(r)].type = "dir" /\ Len(Front(r)) = m - 1
    BY <1>1, <2>1, <2>2, PrefixFront, PathFacts DEF TreeOK
  <2>4. Bad(Front(r))
    BY <2>1, <2>3
  <2>5. m - 1 \in T /\ m \in Nat
    BY <1>1, <2>3, <2>4
  <2> QED
    BY <1>2, <2>5
<1>3. T \subseteq Nat
  OBVIOUS
<1>4. T = {}
  <2> HIDE DEF T
  <2> QED
    BY <1>2, <1>3, LeastNat
<1>5. Len(q) \notin T
  BY <1>4
<1> QED
  BY <1>1, <1>5

-----------------------------------------------------------------------------
(* Renaming *)

\* The names of new, then those of p after old.
IsMove(m, p, old, new) ==
  /\ m \in Path /\ Len(m) = Len(new) + Len(p) - Len(old) /\ IsPrefix(new, m)
  /\ \A i \in 1 .. Len(new) : m[i] = new[i]
  /\ \A i \in Len(old) + 1 .. Len(p) : m[i - Len(old) + Len(new)] = p[i]

LEMMA MovedPath ==
  ASSUME NEW p \in Path, NEW old \in Path, NEW new \in Path, IsPrefix(old, p)
  PROVE  IsMove(Moved(p, old, new), p, old, new)
<1> DEFINE a == Len(old)
           b == Len(p)
           c == Len(new)
           s == SubSeq(p, a + 1, b)
           m == new \o s
<1>1. a \in Nat /\ b \in Nat /\ c \in Nat /\ a <= b
  BY PathFacts, PathPrefix
<1>2. s \in Path /\ Len(s) = b - a /\ \A i \in 1 .. b - a : s[i] = p[i + a]
  <2>1. \A i \in a + 1 .. b : p[i] \in Name
    BY <1>1 DEF Path
  <2>2. a + 1 \in Int /\ b \in Int
    BY <1>1
  <2> HIDE DEF a, b
  <2>3. /\ SubSeq(p, a + 1, b) \in Seq(Name)
        /\ Len(SubSeq(p, a + 1, b)) = IF a + 1 <= b THEN b - (a + 1) + 1 ELSE 0
        /\ \A i \in 1 .. b - (a + 1) + 1 : SubSeq(p, a + 1, b)[i] = p[(a + 1) + i - 1]
    BY <2>1, <2>2, SubSeqProperties
  <2>4. \A i \in 1 .. b - a : i \in 1 .. b - (a + 1) + 1 /\ (a + 1) + i - 1 = i + a
    BY <1>1
  <2>5. s \in Path
    BY <2>3 DEF Path
  <2>6. Len(s) = b - a
    BY <1>1, <2>3
  <2>7. ASSUME NEW i \in 1 .. b - a PROVE s[i] = p[i + a]
    BY <2>3, <2>4
  <2> QED
    BY <2>5, <2>6, <2>7
<1>3. m = Moved(p, old, new)
  BY DEF Moved
<1> HIDE DEF s
<1>4. /\ m \in Path /\ Len(m) = c + (b - a)
      /\ \A i \in 1 .. c + (b - a) : m[i] = IF i <= c THEN new[i] ELSE s[i - c]
  <2>1. new \in Seq(Name) /\ s \in Seq(Name)
    BY <1>2 DEF Path
  <2>2. /\ m \in Seq(Name) /\ Len(m) = Len(new) + Len(s)
        /\ \A i \in 1 .. Len(new) + Len(s) : m[i] = IF i <= Len(new) THEN new[i] ELSE s[i - Len(new)]
    BY <2>1, ConcatProperties
  <2> QED
    BY <1>2, <2>2 DEF Path
<1> HIDE DEF a, b, c, m
<1>5. \A i \in 1 .. c : m[i] = new[i]
  BY <1>1, <1>4
<1>6. ASSUME NEW i \in a + 1 .. b PROVE m[i - a + c] = p[i]
  <2>1. i - a + c \in 1 .. c + (b - a) /\ ~(i - a + c <= c) /\ (i - a + c) - c = i - a
        /\ i - a \in 1 .. b - a /\ (i - a) + a = i
    BY <1>1
  <2> QED
    BY <1>2, <1>4, <2>1
<1>7. IsPrefix(new, m)
  <2>1. c <= Len(m)
    BY <1>1, <1>4
  <2> QED
    BY <1>4, <1>5, <2>1, PathPrefix DEF c
<1>8. Len(m) = c + b - a
  BY <1>1, <1>4
<1> QED
  BY <1>3, <1>4, <1>5, <1>6, <1>7, <1>8 DEF IsMove, a, b, c

LEMMA MovedBack ==
  ASSUME NEW p \in Path, NEW old \in Path, NEW new \in Path, IsPrefix(old, p)
  PROVE  Moved(Moved(p, old, new), new, old) = p
<1>1. PICK m : m = Moved(p, old, new) /\ IsMove(m, p, old, new)
  BY MovedPath
<1>2. PICK r : r = Moved(m, new, old) /\ IsMove(r, m, new, old)
  <2>1. m \in Path /\ IsPrefix(new, m)
    BY <1>1 DEF IsMove
  <2> QED
    BY <2>1, MovedPath
<1>3. Len(p) \in Nat /\ Len(old) \in Nat /\ Len(new) \in Nat /\ Len(old) <= Len(p)
      /\ \A i \in 1 .. Len(old) : p[i] = old[i]
  BY PathFacts, PathPrefix
<1>4. Len(r) = Len(p) /\ r \in Path
  BY <1>1, <1>2, <1>3 DEF IsMove
<1>5. ASSUME NEW i \in 1 .. Len(p) PROVE r[i] = p[i]
  <2>1. CASE i <= Len(old)
    BY <1>2, <1>3, <2>1 DEF IsMove
  <2>2. CASE ~(i <= Len(old))
    <3> DEFINE j == i - Len(old) + Len(new)
    <3>1. i \in Len(old) + 1 .. Len(p) /\ j \in Len(new) + 1 .. Len(m) /\ j - Len(new) + Len(old) = i
      BY <1>1, <1>3, <2>2 DEF IsMove
    <3> HIDE DEF j
    <3>2. r[i] = m[j]
      BY <1>2, <3>1 DEF IsMove
    <3>3. m[j] = p[i]
      BY <1>1, <3>1 DEF IsMove, j
    <3> QED
      BY <3>2, <3>3
  <2> QED
    BY <2>1, <2>2
<1>6. r = p
  BY <1>4, <1>5, PathEqual
<1> QED
  BY <1>1, <1>2, <1>6

\* The renamed file itself, and the directory of one below it.
LEMMA MovedSelf ==
  ASSUME NEW old \in Path, NEW new \in Path
  PROVE  IsPrefix(old, old) /\ Moved(old, old, new) = new
<1>1. IsPrefix(old, old)
  BY PathPrefix, PathFacts
<1>2. Moved(old, old, new) = new
  <2>1. Moved(old, old, new) \in Path /\ Len(Moved(old, old, new)) = Len(new) + Len(old) - Len(old)
        /\ \A i \in 1 .. Len(new) : Moved(old, old, new)[i] = new[i]
    BY <1>1, MovedPath DEF IsMove
  <2>2. Len(Moved(old, old, new)) = Len(new)
    BY <2>1, PathFacts
  <2> QED
    BY <2>1, <2>2, PathEqual
<1> QED
  BY <1>1, <1>2

LEMMA MovedFront ==
  ASSUME NEW p \in Path, NEW old \in Path, NEW new \in Path, IsPrefix(old, p), p # old
  PROVE  /\ p # <<>> /\ Front(p) \in Path /\ IsPrefix(old, Front(p)) /\ Moved(p, old, new) # <<>>
         /\ Front(Moved(p, old, new)) = Moved(Front(p), old, new)
<1>1. PICK q \in Path : /\ q = Front(p) /\ IsPrefix(old, q) /\ Len(q) = Len(p) - 1 /\ p # <<>>
                        /\ \A i \in 1 .. Len(p) - 1 : q[i] = p[i]
  BY PrefixFront, PathFacts
<1>2. PICK m : m = Moved(p, old, new) /\ IsMove(m, p, old, new)
  BY MovedPath
<1>3. PICK n : n = Moved(q, old, new) /\ IsMove(n, q, old, new)
  BY <1>1, MovedPath
<1>4. Len(p) \in Nat /\ Len(old) \in Nat /\ Len(new) \in Nat /\ Len(old) < Len(p)
  BY PathFacts, PrefixFront
<1>5. m # <<>> /\ Len(m) > 0
  BY <1>2, <1>4, PathFacts DEF IsMove
<1>6. PICK g \in Path : /\ g = Front(m) /\ Len(g) = Len(m) - 1
                        /\ \A i \in 1 .. Len(m) - 1 : g[i] = m[i]
  BY <1>2, <1>5, PathFacts DEF IsMove
<1>7. Len(g) = Len(n)
  BY <1>1, <1>2, <1>3, <1>4, <1>6 DEF IsMove
<1>8. ASSUME NEW i \in 1 .. Len(g) PROVE g[i] = n[i]
  <2>0. i \in 1 .. Len(m) - 1 /\ i \in Nat
    BY <1>6, PathFacts
  <2>1. CASE i <= Len(new)
    BY <1>2, <1>3, <1>4, <1>6, <2>0, <2>1 DEF IsMove
  <2>2. CASE ~(i <= Len(new))
    <3> DEFINE j == i - Len(new) + Len(old)
    <3>1. j \in Len(old) + 1 .. Len(p) - 1 /\ j - Len(old) + Len(new) = i
      BY <1>2, <1>4, <2>0, <2>2 DEF IsMove
    <3> HIDE DEF j
    <3>2. j \in Len(old) + 1 .. Len(p) /\ j \in Len(old) + 1 .. Len(q) /\ j \in 1 .. Len(p) - 1
      BY <1>1, <1>4, <3>1
    <3>3. m[i] = p[j]
      BY <1>2, <3>1, <3>2 DEF IsMove
    <3>4. n[i] = q[j]
      BY <1>3, <3>1, <3>2 DEF IsMove
    <3> QED
      BY <1>1, <1>6, <2>0, <3>2, <3>3, <3>4
  <2> QED
    BY <2>1, <2>2
<1>9. g = n
  BY <1>3, <1>7, <1>8, PathEqual DEF IsMove
<1> QED
  BY <1>1, <1>2, <1>3, <1>5, <1>6, <1>9 DEF IsMove

\* rename(2), where it does something: the files at and below old are at and
\* below new, where there were none but new itself, and the others stay.
Renamed(t, u, old, new) ==
  /\ ~IsPrefix(old, new) /\ ~IsPrefix(new, old)
  /\ \A p \in DOMAIN t : IsPrefix(new, p) => p = new
  /\ \A p : p \in DOMAIN u <=> \/ p \in DOMAIN t /\ ~IsPrefix(old, p) /\ p # new
                               \/ \E q \in DOMAIN t : IsPrefix(old, q) /\ p = Moved(q, old, new)
  /\ \A p \in DOMAIN t : ~IsPrefix(old, p) /\ p # new => u[p] = t[p]
  /\ \A q \in DOMAIN t : IsPrefix(old, q) => u[Moved(q, old, new)] = t[q]

\* Two links to one file: rename(2) does nothing.
SameFile(t, old, new) == new \in DOMAIN t /\ t[new] = t[old]

LEMMA RenamedMeans ==
  ASSUME NEW t, NEW n, TreeOK(t, n), NEW old \in Path, NEW new \in Path,
         CanRename(t, old, new), ~SameFile(t, old, new)
  PROVE  Renamed(t, RenamedTree(t, old, new), old, new)
<1> DEFINE Moving == {p \in DOMAIN t : IsPrefix(old, p)}
           Landing == {Moved(p, old, new) : p \in Moving}
           Staying == (DOMAIN t \ Moving) \ {new}
           u == [p \in Staying \union Landing |-> IF p \in Landing THEN t[Moved(p, new, old)] ELSE t[p]]
<1>1. u = RenamedTree(t, old, new)
  BY DEF RenamedTree, SameFile
<1>2. DOMAIN t \subseteq Path
  BY DEF TreeOK
<1>3. old \in DOMAIN t /\ ~IsStrictPrefix(old, new)
      /\ (new \in DOMAIN t => \A p \in DOMAIN t : ~IsStrictPrefix(new, p))
  BY DEF CanRename
<1>4. old # new
  BY <1>3 DEF SameFile
<1>5. ~IsPrefix(old, new)
  BY <1>3, <1>4 DEF IsStrictPrefix
<1>6. ASSUME NEW p \in DOMAIN t, IsPrefix(new, p) PROVE p = new
  <2>1. new \in DOMAIN t
    BY <1>6, Above
  <2> QED
    BY <1>3, <1>6, <2>1 DEF IsStrictPrefix
<1>7. ~IsPrefix(new, old)
  BY <1>3, <1>4, <1>6
<1>8. ASSUME NEW q \in Moving
      PROVE  /\ Moved(q, old, new) \in Landing /\ IsPrefix(new, Moved(q, old, new))
             /\ Moved(Moved(q, old, new), new, old) = q
  BY <1>2, MovedPath, MovedBack DEF IsMove
<1>9. ASSUME NEW p \in Landing PROVE \E q \in Moving : p = Moved(q, old, new)
  OBVIOUS
<1>10. ASSUME NEW p \in Staying PROVE p \notin Landing
  BY <1>6, <1>8, <1>9
<1>11. \A p : p \in Moving <=> p \in DOMAIN t /\ IsPrefix(old, p)
  OBVIOUS
<1>12. \A p : p \in Staying <=> p \in DOMAIN t /\ ~IsPrefix(old, p) /\ p # new
  OBVIOUS
<1>13. /\ DOMAIN u = Staying \union Landing
       /\ \A p \in Staying \union Landing : u[p] = IF p \in Landing THEN t[Moved(p, new, old)] ELSE t[p]
  OBVIOUS
<1> HIDE DEF Moving, Landing, Staying, u
<1>14. \A p \in Staying : u[p] = t[p]
  BY <1>10, <1>13
<1>15. \A q \in Moving : u[Moved(q, old, new)] = t[q]
  BY <1>8, <1>13
<1>16. \A p : p \in DOMAIN u <=> p \in Staying \/ \E q \in Moving : p = Moved(q, old, new)
  BY <1>8, <1>9, <1>13
<1>17. Renamed(t, u, old, new)
  BY <1>5, <1>6, <1>7, <1>11, <1>12, <1>14, <1>15, <1>16 DEF Renamed
<1> QED
  BY <1>1, <1>17

\* A rename keeps the shape of the tree.
LEMMA RenameKeepsTree ==
  ASSUME NEW t, TreeOK(t, made), NEW old \in Path, NEW new \in Path, new # <<>>,
         CanRename(t, old, new), NEW u, Renamed(t, u, old, new)
  PROVE  TreeOK(u, made)
<1>1. DOMAIN t \subseteq Path /\ made \in Nat
  BY DEF TreeOK
<1> DEFINE Stays(p) == p \in DOMAIN t /\ ~IsPrefix(old, p) /\ p # new
           Lands(p, q) == q \in DOMAIN t /\ IsPrefix(old, q) /\ p = Moved(q, old, new)
<1>2. \A p \in DOMAIN u : Stays(p) \/ \E q : Lands(p, q)
  BY DEF Renamed
<1>3. ASSUME NEW p, Stays(p) PROVE p \in DOMAIN u /\ u[p] = t[p] /\ p \in Path /\ ~IsPrefix(new, p)
  BY <1>1, <1>3 DEF Renamed
<1>4. ASSUME NEW p, NEW q, Lands(p, q)
      PROVE  /\ p \in DOMAIN u /\ u[p] = t[q] /\ p \in Path /\ q \in Path /\ IsPrefix(new, p)
             /\ Moved(p, new, old) = q /\ Len(p) = Len(new) + Len(q) - Len(old)
  BY <1>1, <1>4, MovedPath, MovedBack DEF Renamed, IsMove
<1>5. ASSUME NEW p \in DOMAIN u
      PROVE  p \in Path /\ u[p] \in File(made) /\ Len(p) <= Len(Root) + Depth
  <2>1. CASE Stays(p)
    BY <1>3, <2>1 DEF TreeOK
  <2>2. ASSUME NEW q, Lands(p, q) PROVE p \in Path /\ u[p] \in File(made) /\ Len(p) <= Len(Root) + Depth
    <3>1. Len(q) - Len(old) + Len(new) <= Len(Root) + Depth
      BY <2>2 DEF CanRename
    <3>2. Len(q) \in Nat /\ Len(old) \in Nat /\ Len(new) \in Nat
      BY <1>4, <2>2, PathFacts
    <3>3. Len(p) = Len(q) - Len(old) + Len(new)
      BY <1>4, <2>2, <3>2
    <3> QED
      BY <1>4, <2>2, <3>1, <3>3 DEF TreeOK
  <2> QED
    BY <1>2, <2>1, <2>2
<1>6. ASSUME NEW p \in DOMAIN u, p # <<>> PROVE Front(p) \in DOMAIN u /\ u[Front(p)].type = "dir"
  <2>1. CASE Stays(p)
    <3>1. Front(p) \in DOMAIN t /\ t[Front(p)].type = "dir" /\ Front(p) \in Path /\ p \in Path
      BY <1>1, <1>6, <2>1, PathFacts DEF TreeOK
    <3>2. IsPrefix(Front(p), p) /\ Front(p) # p
      BY <1>6, <3>1, FrontPrefix
    <3>3. ~IsPrefix(old, Front(p))
      BY <2>1, <3>1, <3>2, PrefixTransitive
    <3>4. Front(p) # new
      BY <1>3, <2>1, <3>2
    <3> QED
      BY <1>3, <3>1, <3>3, <3>4
  <2>2. ASSUME NEW q, Lands(p, q), q # old PROVE Front(p) \in DOMAIN u /\ u[Front(p)].type = "dir"
    <3>1. q # <<>> /\ IsPrefix(old, Front(q)) /\ Front(p) = Moved(Front(q), old, new)
      BY <1>4, <2>2, MovedFront
    <3>2. Front(q) \in DOMAIN t /\ t[Front(q)].type = "dir"
      BY <2>2, <3>1 DEF TreeOK
    <3>3. Lands(Front(p), Front(q))
      BY <3>1, <3>2
    <3> QED
      BY <1>4, <3>2, <3>3
  <2>3. CASE Lands(p, old)
    <3>1. p = new
      BY <2>3, MovedSelf
    <3>2. Front(new) \in DOMAIN t /\ t[Front(new)].type = "dir"
      BY DEF CanRename, IsDir
    <3>3. IsPrefix(Front(new), new) /\ Front(new) # new /\ Front(new) \in Path
      BY FrontPrefix
    <3>4. ~IsPrefix(old, Front(new))
      BY <3>3, PrefixTransitive DEF Renamed
    <3>5. Stays(Front(new))
      BY <3>2, <3>3, <3>4
    <3> QED
      BY <1>3, <3>1, <3>2, <3>5
  <2> QED
    BY <1>2, <2>1, <2>2, <2>3
<1>7. ASSUME NEW p \in DOMAIN u, NEW r \in DOMAIN u, u[p] = u[r], u[p].type = "dir" PROVE p = r
  <2>1. PICK x \in DOMAIN t : u[p] = t[x] /\ ((p = x /\ Stays(p)) \/ Lands(p, x))
    BY <1>2, <1>3, <1>4
  <2>2. PICK y \in DOMAIN t : u[r] = t[y] /\ ((r = y /\ Stays(r)) \/ Lands(r, y))
    BY <1>2, <1>3, <1>4
  <2>3. x = y
    BY <1>7, <2>1, <2>2 DEF TreeOK
  <2> QED
    BY <2>1, <2>2, <2>3
<1> QED
  BY <1>1, <1>5, <1>6, <1>7 DEF TreeOK

\* A rename that did something can be undone, and undoing it leaves every file
\* where it was, but for the one that stood at new.
LEMMA RenameUndone ==
  ASSUME NEW t, TreeOK(t, made), NEW old \in Path, NEW new \in Path, old # <<>>, new # <<>>,
         CanRename(t, old, new), NEW u, Renamed(t, u, old, new)
  PROVE  /\ CanRename(u, new, old)
         /\ \A p \in DOMAIN RenamedTree(u, new, old) : p \in DOMAIN t /\ RenamedTree(u, new, old)[p] = t[p]
         /\ \A p \in DOMAIN t : p # new => p \in DOMAIN RenamedTree(u, new, old)
         /\ TreeOK(RenamedTree(u, new, old), made)
<1> DEFINE Stays(p) == p \in DOMAIN t /\ ~IsPrefix(old, p) /\ p # new
           Lands(p, q) == q \in DOMAIN t /\ IsPrefix(old, q) /\ p = Moved(q, old, new)
<1>1. DOMAIN t \subseteq Path /\ TreeOK(u, made)
  BY RenameKeepsTree DEF TreeOK
<1>2. \A p \in DOMAIN u : Stays(p) \/ \E q : Lands(p, q)
  BY DEF Renamed
<1>3. ASSUME NEW p, Stays(p) PROVE p \in DOMAIN u /\ u[p] = t[p] /\ p \in Path /\ ~IsPrefix(new, p)
  BY <1>1, <1>3 DEF Renamed
<1>4. ASSUME NEW p, NEW q, Lands(p, q)
      PROVE  /\ p \in DOMAIN u /\ u[p] = t[q] /\ p \in Path /\ q \in Path /\ IsPrefix(new, p)
             /\ Moved(p, new, old) = q /\ Len(p) = Len(new) + Len(q) - Len(old)
  BY <1>1, <1>4, MovedPath, MovedBack DEF Renamed, IsMove
<1>5. ~IsPrefix(new, old) /\ ~IsPrefix(old, new) /\ old \in DOMAIN t /\ IsPrefix(old, old)
  BY MovedSelf DEF Renamed, CanRename
<1>6. old \notin DOMAIN u
  BY <1>2, <1>4, <1>5
<1>12. NoPath \notin {old, new}
  BY DEF CanRename
<1>7. CanRename(u, new, old)
  <2>1. new \in DOMAIN u
    BY <1>4, <1>5, MovedSelf
  <2>2. Front(old) \in DOMAIN u /\ u[Front(old)].type = "dir"
    <3>1. Front(old) \in DOMAIN t /\ t[Front(old)].type = "dir"
      BY <1>5 DEF TreeOK
    <3>2. Stays(Front(old))
      BY <1>5, <3>1, FrontPrefix
    <3> QED
      BY <1>3, <3>1, <3>2
  <2>3. ASSUME NEW p \in DOMAIN u, IsPrefix(new, p)
        PROVE  Len(p) - Len(new) + Len(old) <= Len(Root) + Depth
    <3>1. PICK q : Lands(p, q)
      BY <1>2, <1>3, <2>3
    <3>2. Len(q) \in Nat /\ Len(old) \in Nat /\ Len(new) \in Nat /\ Len(q) <= Len(Root) + Depth
      BY <1>4, <3>1, PathFacts DEF TreeOK
    <3>3. Len(p) - Len(new) + Len(old) = Len(q)
      BY <1>4, <3>1, <3>2
    <3> QED
      BY <3>2, <3>3
  <2> QED
    BY <1>5, <1>6, <1>12, <2>1, <2>2, <2>3 DEF CanRename, IsStrictPrefix, IsDir
<1> DEFINE v == RenamedTree(u, new, old)
<1>8. Renamed(u, v, new, old)
  BY <1>1, <1>6, <1>7, RenamedMeans DEF SameFile
<1>9. TreeOK(v, made)
  BY <1>1, <1>7, <1>8, RenameKeepsTree
<1> HIDE DEF v
<1>10. ASSUME NEW p \in DOMAIN v PROVE p \in DOMAIN t /\ v[p] = t[p]
  <2>1. CASE p \in DOMAIN u /\ ~IsPrefix(new, p) /\ p # old
    <3>1. Stays(p)
      BY <1>2, <1>4, <2>1
    <3>2. v[p] = u[p]
      BY <1>8, <2>1 DEF Renamed
    <3> QED
      BY <1>3, <3>1, <3>2
  <2>2. ASSUME NEW r \in DOMAIN u, IsPrefix(new, r), p = Moved(r, new, old)
        PROVE  p \in DOMAIN t /\ v[p] = t[p]
    <3>1. PICK q : Lands(r, q)
      BY <1>2, <1>3, <2>2
    <3>2. p = q /\ u[r] = t[q] /\ q \in DOMAIN t
      BY <1>4, <2>2, <3>1
    <3>3. v[p] = u[r]
      BY <1>8, <2>2 DEF Renamed
    <3> QED
      BY <3>2, <3>3
  <2> QED
    BY <1>8, <2>1, <2>2 DEF Renamed
<1>11. ASSUME NEW p \in DOMAIN t, p # new PROVE p \in DOMAIN v
  <2>1. CASE ~IsPrefix(old, p)
    <3>1. p \in DOMAIN u /\ ~IsPrefix(new, p) /\ p # old
      BY <1>3, <1>5, <1>11, <2>1
    <3> QED
      BY <1>8, <3>1 DEF Renamed
  <2>2. CASE IsPrefix(old, p)
    <3>1. PICK r : r = Moved(p, old, new) /\ Lands(r, p)
      BY <2>2
    <3>2. r \in DOMAIN u /\ IsPrefix(new, r) /\ p = Moved(r, new, old)
      BY <1>4, <3>1
    <3> QED
      BY <1>8, <3>2 DEF Renamed
  <2> QED
    BY <2>1, <2>2
<1> QED
  BY <1>7, <1>9, <1>10, <1>11 DEF v

\* Two links to one file: nothing is done, and undone.
LEMMA SameFileRename ==
  ASSUME NEW t, NEW old, NEW new, old \in DOMAIN t, SameFile(t, old, new)
  PROVE  RenamedTree(t, old, new) = t /\ RenamedTree(t, new, old) = t
BY DEF RenamedTree, SameFile

\* A fid at or below the renamed path is spelled as the file is moved.
LEMMA RespelledBelow ==
  ASSUME NEW path \in Path, NEW old \in Path, old # <<>>, NEW new \in Path, new # <<>>, IsPrefix(old, path)
  PROVE  Occurs(path, old, 0) /\ Respelled(path, old, new) = Moved(path, old, new)
<1> DEFINE n == Len(old)
           at == path[n]
           rest == SubSeq(path, n + 1, Len(path))
<1>1. n \in Nat /\ n > 0 /\ n <= Len(path) /\ Len(path) \in Nat /\ \A i \in 1 .. n : path[i] = old[i]
  BY PathFacts, PathPrefix
<1>2. at = Last(old) /\ at \in Name
  BY <1>1 DEF Last, Path
<1>3. Occurs(path, old, 0)
  <2>1. IsPrefix(Last(old), at)
    BY <1>2, PrefixElements DEF Name
  <2>2. 0 + n = n /\ \A i \in 1 .. n - 1 : 0 + i = i /\ i \in 1 .. n
    BY <1>1
  <2> QED
    BY <1>1, <2>1, <2>2 DEF Occurs
<1>4. SubSeq(at, Len(Last(old)) + 1, Len(at)) = <<>>
  <2>1. Len(at) \in Nat /\ Len(Last(old)) = Len(at)
    BY <1>2 DEF Name
  <2> HIDE DEF at
  <2>2. Len(at) + 1 \in Int /\ Len(at) \in Int /\ Len(at) < Len(at) + 1
    BY <2>1
  <2> QED
    BY <2>1, <2>2, SubSeqEmpty
<1>5. Last(new) \in Name /\ Last(new) \o <<>> = Last(new)
  <2>1. Last(new) \in Name
    BY PathFacts DEF Last, Path
  <2> QED
    BY <2>1, ConcatEmptySeq DEF Name
<1>6. Front(new) \o <<Last(new)>> = new
  <2>1. PICK g \in Path : /\ g = Front(new) /\ Len(g) = Len(new) - 1 /\ Len(new) \in Nat /\ Len(new) > 0
                          /\ \A i \in 1 .. Len(new) - 1 : g[i] = new[i]
    BY PathFacts
  <2>2. <<Last(new)>> \in Path /\ Len(<<Last(new)>>) = 1 /\ <<Last(new)>>[1] = Last(new)
    BY <1>5 DEF Path
  <2>3. PICK l \in Path : l = <<Last(new)>> /\ Len(l) = 1 /\ l[1] = new[Len(new)]
    BY <2>2 DEF Last
  <2>4. PICK c \in Path : /\ c = g \o l /\ Len(c) = Len(g) + Len(l)
                          /\ \A i \in 1 .. Len(g) + Len(l) : c[i] = IF i <= Len(g) THEN g[i] ELSE l[i - Len(g)]
    <3>1. g \in Seq(Name) /\ l \in Seq(Name)
      BY DEF Path
    <3>2. /\ g \o l \in Seq(Name) /\ Len(g \o l) = Len(g) + Len(l)
          /\ \A i \in 1 .. Len(g) + Len(l) : (g \o l)[i] = IF i <= Len(g) THEN g[i] ELSE l[i - Len(g)]
      BY <3>1, ConcatProperties
    <3> QED
      BY <3>2 DEF Path
  <2>5. ASSUME NEW i \in 1 .. Len(new) PROVE c[i] = new[i]
    BY <2>1, <2>3, <2>4
  <2>6. Len(c) = Len(new) /\ \A i \in 1 .. Len(c) : c[i] = new[i]
    BY <2>1, <2>3, <2>4, <2>5
  <2>7. c = new
    BY <2>6, PathEqual
  <2> QED
    BY <2>1, <2>3, <2>4, <2>7
<1>7. Respelled(path, old, new) = new \o rest
  BY <1>4, <1>5, <1>6 DEF Respelled
<1> QED
  BY <1>3, <1>7 DEF Moved

-----------------------------------------------------------------------------
(* Paths as the host resolves them *)

LookState == [at : Path, rest : Path]

\* One name, and all of them: what is found is a path.
LEMMA LookUpTypes ==
  ASSUME NEW t, NEW n, TreeOK(t, n), NEW look \in LookState
  PROVE  LookUp(t, look) \in LookState
<1>1. look.at \in Path /\ look.rest \in Path
  BY DEF LookState
<1>2. CASE look.rest = <<>>
  BY <1>2 DEF LookUp
<1>3. CASE look.rest # <<>>
  <2>1. Head(look.rest) \in Name /\ Tail(look.rest) \in Path
    BY <1>1, <1>3 DEF Path
  <2>0. \A p \in Path, x \in Name : Append(p, x) \in Path
    BY AppendProperties DEF Path
  <2>2. PICK here \in Path : here = Append(look.at, Head(look.rest))
    BY <1>1, <2>0, <2>1
  <2>3. <<>> \in Path
    BY DEF Path
  <2>4. ASSUME IsLink(t, here) PROVE t[here].to \o Tail(look.rest) \in Path
    <3>1. t[here].to \in Path
      BY <2>4 DEF TreeOK, IsLink, File
    <3> QED
      BY <2>1, <3>1 DEF Path
  <2>5. LookUp(t, look) = IF IsLink(t, here) THEN [at |-> <<>>, rest |-> t[here].to \o Tail(look.rest)]
                          ELSE IF IsDir(t, here) THEN [at |-> here, rest |-> Tail(look.rest)]
                          ELSE look
    BY <1>3, <2>2 DEF LookUp
  <2> QED
    BY <1>1, <2>1, <2>3, <2>4, <2>5 DEF LookState
<1> QED
  BY <1>2, <1>3

IsLook(w, t, path, n) ==
  w = [i \in 0 .. n |-> IF i = 0 THEN [at |-> <<>>, rest |-> path] ELSE LookUp(t, w[i - 1])]

LEMMA LookGoesOn ==
  ASSUME NEW t, NEW path, NEW k \in Nat, NEW w, IsLook(w, t, path, k)
  PROVE  \E v : IsLook(v, t, path, k + 1)
<1> DEFINE start == [at |-> <<>>, rest |-> path]
           v == [i \in 0 .. k + 1 |-> IF i = k + 1 THEN LookUp(t, w[k]) ELSE w[i]]
<1>1. \A i \in 0 .. k : w[i] = IF i = 0 THEN start ELSE LookUp(t, w[i - 1])
  BY DEF IsLook
<1>2. \A i \in 0 .. k : v[i] = w[i]
  OBVIOUS
<1>3. v[k + 1] = LookUp(t, v[k])
  BY <1>2
<1>4. DOMAIN v = 0 .. k + 1 /\ v = [i \in 0 .. k + 1 |-> v[i]]
  OBVIOUS
<1> HIDE DEF v
<1>5. ASSUME NEW i \in 0 .. k + 1
      PROVE  v[i] = IF i = 0 THEN start ELSE LookUp(t, v[i - 1])
  <2>1. CASE i = k + 1
    <3>1. i # 0 /\ i - 1 = k
      BY <2>1
    <3> QED
      BY <1>3, <2>1, <3>1
  <2>2. CASE i \in 1 .. k
    <3>1. i - 1 \in 0 .. k /\ i \in 0 .. k /\ i # 0
      BY <2>2
    <3> QED
      BY <1>1, <1>2, <3>1
  <2>3. CASE i = 0
    BY <1>1, <1>2, <2>3
  <2> QED
    BY <2>1, <2>2, <2>3
<1>6. IsLook(v, t, path, k + 1)
  BY <1>4, <1>5 DEF IsLook
<1> QED
  BY <1>6

LEMMA LookExists ==
  ASSUME NEW t, NEW path, NEW n \in Nat
  PROVE  \E w : IsLook(w, t, path, n)
<1> DEFINE T == {m \in Nat : ~\E w : IsLook(w, t, path, m)}
<1>1. T \subseteq Nat /\ \A m \in Nat : m \notin T => \E w : IsLook(w, t, path, m)
  OBVIOUS
<1>2. 0 \notin T
  <2>1. IsLook([i \in 0 .. 0 |-> [at |-> <<>>, rest |-> path]], t, path, 0)
    BY DEF IsLook
  <2> QED
    BY <2>1
<1>3. \A k \in Nat : k \notin T => k + 1 \notin T
  BY <1>1, LookGoesOn
<1> HIDE DEF T
<1>4. ASSUME NEW m \in T, \A y \in T : m <= y PROVE FALSE
  <2>1. m - 1 \in Nat /\ (m - 1) + 1 = m /\ m - 1 \notin T
    BY <1>1, <1>2, <1>4
  <2> QED
    BY <1>3, <2>1
<1>5. T = {}
  BY <1>1, <1>4, LeastNat
<1> QED
  BY <1>1, <1>5

LEMMA LookedTypes ==
  ASSUME NEW t, NEW n, TreeOK(t, n), NEW path \in Path
  PROVE  Looked(t, path) \in LookState
<1> DEFINE w == CHOOSE f : IsLook(f, t, path, MaxLookups)
           T == {i \in 0 .. MaxLookups : w[i] \notin LookState}
<1>1. MaxLookups \in Nat
  BY P9fsAssumption
<1>2. Looked(t, path) = w[MaxLookups]
  BY DEF Looked, IsLook
<1>3. IsLook(w, t, path, MaxLookups)
  BY <1>1, LookExists
<1> HIDE DEF w
<1>4. \A i \in 0 .. MaxLookups : w[i] = IF i = 0 THEN [at |-> <<>>, rest |-> path] ELSE LookUp(t, w[i - 1])
  BY <1>3 DEF IsLook
<1>5. [at |-> <<>>, rest |-> path] \in LookState
  BY DEF LookState, Path
<1>6. ASSUME NEW m \in T, \A y \in T : m <= y PROVE FALSE
  <2>1. m # 0 /\ m \in 1 .. MaxLookups
    BY <1>1, <1>4, <1>5
  <2>2. m - 1 \in 0 .. MaxLookups /\ m - 1 \notin T
    BY <1>1, <1>6, <2>1
  <2>3. w[m - 1] \in LookState
    BY <2>2
  <2>4. w[m] = LookUp(t, w[m - 1])
    BY <1>1, <1>4, <2>1
  <2>5. w[m] \in LookState
    BY <2>3, <2>4, LookUpTypes
  <2> QED
    BY <2>5
<1>7. T \subseteq Nat
  BY <1>1
<1>8. T = {}
  <2> HIDE DEF T
  <2> QED
    BY <1>6, <1>7, LeastNat
<1> QED
  BY <1>1, <1>2, <1>8

LEMMA WhereTypes ==
  ASSUME NEW t, NEW n, TreeOK(t, n), NEW path \in Path
  PROVE  Where(t, path) # NoPath => Where(t, path) \in Path
<1>1. PICK end \in LookState : end = Looked(t, path)
  BY LookedTypes
<1>2. end.at \in Path /\ end.rest \in Path
  BY DEF LookState
<1>3. ASSUME Len(end.rest) = 1 PROVE Append(end.at, Head(end.rest)) \in Path
  <2>1. Head(end.rest) \in Name
    BY <1>2, <1>3, EmptySeq DEF Path
  <2> QED
    BY <1>2, <2>1 DEF Path
<1>4. \/ Where(t, path) \in {path, end.at, NoPath}
      \/ Len(end.rest) = 1 /\ Where(t, path) = Append(end.at, Head(end.rest))
  BY <1>1 DEF Where
<1> QED
  BY <1>2, <1>3, <1>4

LEMMA Rejoined ==
  ASSUME NEW path \in Path, path # <<>>
  PROVE  Last(path) \in Name /\ Append(Front(path), Last(path)) = path
<1>1. PICK g \in Path : /\ g = Front(path) /\ Len(g) = Len(path) - 1 /\ Len(path) \in Nat /\ Len(path) > 0
                        /\ \A i \in 1 .. Len(path) - 1 : g[i] = path[i]
  BY PathFacts
<1>2. PICK l \in Name : l = Last(path) /\ l = path[Len(path)]
  BY <1>1 DEF Last, Path
<1>3. PICK c \in Path : /\ c = Append(g, l) /\ Len(c) = Len(g) + 1 /\ c[Len(g) + 1] = l
                        /\ \A i \in 1 .. Len(g) : c[i] = g[i]
  <2>1. /\ Append(g, l) \in Seq(Name) /\ Len(Append(g, l)) = Len(g) + 1 /\ Append(g, l)[Len(g) + 1] = l
        /\ \A i \in 1 .. Len(g) : Append(g, l)[i] = g[i]
    BY AppendProperties DEF Path
  <2> QED
    BY <2>1 DEF Path
<1>4. Len(c) = Len(path)
  BY <1>1, <1>3
<1>5. ASSUME NEW i \in 1 .. Len(c) PROVE c[i] = path[i]
  <2>1. CASE i = Len(path)
    BY <1>1, <1>2, <1>3, <2>1
  <2>2. CASE i # Len(path)
    <3>1. i \in 1 .. Len(path) - 1 /\ i \in 1 .. Len(g)
      BY <1>1, <1>4, <2>2
    <3> QED
      BY <1>1, <1>3, <3>1
  <2> QED
    BY <2>1, <2>2
<1>6. c = path
  BY <1>4, <1>5, PathEqual
<1> QED
  BY <1>1, <1>2, <1>3, <1>6

\* The entry of a path is a path again, and lies in a directory.
LEMMA EntryTypes ==
  ASSUME NEW t, NEW n, TreeOK(t, n), NEW path \in Path, path # <<>>, Entry(t, path) # NoPath
  PROVE  Entry(t, path) \in Path /\ Entry(t, path) # <<>> /\ Len(path) <= MaxPath
<1>1. PICK dir \in Path : Entry(t, path) = Append(dir, Last(path)) /\ Len(path) <= MaxPath
  <2>1. DOMAIN t \subseteq Path
    BY DEF TreeOK
  <2> QED
    BY <2>1 DEF Entry, IsDir
<1>2. Last(path) \in Name
  BY Rejoined
<1>3. ASSUME NEW x \in Name PROVE Append(dir, x) \in Path /\ Append(dir, x) # <<>>
  BY AppendProperties DEF Path
<1> QED
  BY <1>1, <1>2, <1>3

\* A path in a directory of the tree names itself.
LEMMA EntrySelf ==
  ASSUME NEW t, NEW path \in Path, path # <<>>, IsDir(t, Front(path)), Len(path) <= MaxPath
  PROVE  Entry(t, path) = path
<1>1. Where(t, Front(path)) = Front(path)
  BY DEF Where, IsDir, IsLink
<1> QED
  BY <1>1, Rejoined DEF Entry

\* Where a last name that is a link leads.
LEMMA FinalTypes ==
  ASSUME NEW t, NEW n, TreeOK(t, n), NEW path \in Path, path # <<>>, Final(t, path) # NoPath
  PROVE  Final(t, path) \in Path /\ (Final(t, path) # Entry(t, path) => IsLink(t, Entry(t, path)))
BY WhereTypes, EntryTypes DEF Final

\* rename(2) of paths as the device has them.
LEMMA AfterRenameOK ==
  ASSUME NEW t, TreeOK(t, made), NEW old \in Path, old # <<>>, NEW new \in Path, new # <<>>, Renames(t, old, new)
  PROVE  TreeOK(AfterRename(t, old, new), made)
<1>1. Entry(t, old) # NoPath /\ Entry(t, new) # NoPath
  BY DEF Renames, CanRename
<1>2. PICK o \in Path : o = Entry(t, old)
  BY <1>1, EntryTypes
<1>3. PICK m \in Path : m = Entry(t, new) /\ m # <<>>
  BY <1>1, EntryTypes
<1>4. CanRename(t, o, m) /\ o \in DOMAIN t /\ AfterRename(t, old, new) = RenamedTree(t, o, m)
  BY <1>2, <1>3 DEF Renames, AfterRename, CanRename
<1>5. CASE SameFile(t, o, m)
  BY <1>4, <1>5, SameFileRename
<1>6. CASE ~SameFile(t, o, m)
  <2>1. Renamed(t, RenamedTree(t, o, m), o, m)
    BY <1>4, <1>6, RenamedMeans
  <2> QED
    BY <1>3, <1>4, <2>1, RenameKeepsTree
<1> QED
  BY <1>5, <1>6

-----------------------------------------------------------------------------
(* The requests, again: what they do to the files. *)

Right == TreeInv' /\ Undone /\ Followed

\* Requests that leave the files alone, and the fids too unless they succeed.
LEMMA FilesAlone ==
  ASSUME TreeInv, UNCHANGED <<tree, made>>, last'.op # "renameat" \/ last'.answer # "ok",
         \/ UNCHANGED <<fids, open>> \/ last'.answer = "ok" \/ last'.op \in {"reset", "clunk", "unlinkat", "readdir"}
  PROVE  Right
BY DEF Right, TreeInv, Undone, Followed

LEMMA LastAnswer ==
  ASSUME NEW op, NEW paths, NEW fault, NEW good, Answer(op, paths, fault, good)
  PROVE  /\ last'.op = op /\ last'.paths = paths
         /\ last'.answer = "ok" <=> good /\ Delivered(op, fault)
BY DEF Answer

LEMMA RefuseRight ==
  ASSUME TreeInv, NEW op, NEW fault, Refuse(op, fault)
  PROVE  Right
<1>1. Answer(op, <<>>, fault, FALSE) /\ UNCHANGED <<tree, made, fids, open>>
  BY DEF Refuse, host
<1>2. last'.answer # "ok"
  BY <1>1, LastAnswer
<1> QED
  BY <1>1, <1>2, FilesAlone

LEMMA ReplyRight ==
  ASSUME TreeInv, NEW op, op # "renameat", NEW fault, Reply(op, fault)
  PROVE  Right
<1>1. Answer(op, <<>>, fault, TRUE) /\ UNCHANGED <<tree, made, fids, open>>
  BY DEF Reply, host
<1>2. last'.op # "renameat"
  BY <1>1, LastAnswer
<1> QED
  BY <1>1, <1>2, FilesAlone

\* The requests that make or remove no file.
LEMMA FidRequestsRight ==
  ASSUME TreeInv, NEW f, NEW g, NEW names, NEW fault,
         op_attach(f, fault) \/ op_readdir(f, fault) \/ op_clunk(f, fault) \/ op_walk(f, g, names, fault)
  PROVE  Right
<1>1. CASE op_attach(f, fault)
  <2>1. CASE Refuse("attach", fault)
    BY <2>1, RefuseRight
  <2>2. CASE ~Refuse("attach", fault)
    <3>1. Answer("attach", <<>>, fault, TRUE) /\ UNCHANGED <<tree, made, open>> /\ (~Delivered("attach", fault) => fids' = fids)
      BY <1>1, <2>2 DEF op_attach, host
    <3> QED
      BY <3>1, LastAnswer, FilesAlone
  <2> QED
    BY <2>1, <2>2
<1>2. CASE op_readdir(f, fault)
  <2>1. CASE Refuse("readdir", fault)
    BY <2>1, RefuseRight
  <2>2. CASE ~Refuse("readdir", fault)
    <3>1. Answer("readdir", <<>>, fault, TRUE) /\ UNCHANGED <<tree, made>>
      BY <1>2, <2>2 DEF op_readdir
    <3> QED
      BY <3>1, LastAnswer, FilesAlone
  <2> QED
    BY <2>1, <2>2
<1>3. CASE op_clunk(f, fault)
  <2>1. CASE Refuse("clunk", fault)
    BY <2>1, RefuseRight
  <2>2. CASE ~Refuse("clunk", fault)
    <3>1. Answer("clunk", <<>>, fault, fault # "fails") /\ UNCHANGED <<tree, made>>
      BY <1>3, <2>2 DEF op_clunk
    <3> QED
      BY <3>1, LastAnswer, FilesAlone
  <2> QED
    BY <2>1, <2>2
<1>4. CASE op_walk(f, g, names, fault)
  <2>1. CASE Refuse("walk", fault)
    BY <2>1, RefuseRight
  <2>2. CASE ~Refuse("walk", fault)
    <3>1. Answer("walk", <<>>, fault, TRUE) /\ UNCHANGED <<tree, made, open>> /\ (~Delivered("walk", fault) => fids' = fids)
      BY <1>4, <2>2 DEF op_walk, host
    <3> QED
      BY <3>1, LastAnswer, FilesAlone
  <2> QED
    BY <2>1, <2>2
<1> QED
  BY <1>1, <1>2, <1>3, <1>4

\* Without O_CREAT, op_lopen makes no file.
LEMMA LopenRight ==
  ASSUME TreeInv, NEW f, NEW flags, NEW fault, op_lopen(f, flags, fault)
  PROVE  Right
<1>1. CASE LopenRefused(f, flags, fault)
  BY <1>1, RefuseRight DEF op_lopen, LopenWith
<1>2. CASE ~LopenRefused(f, flags, fault)
  <2>1. Final(tree, fids[f].path) \in DOMAIN tree
    BY <1>2 DEF LopenRefused, CanOpen, p9_open_flags_to_host
  <2>2. Answer("lopen", <<>>, fault, TRUE) /\ UNCHANGED <<tree, made>>
        /\ (~Delivered("lopen", fault) => fids' = fids /\ open' = open)
    BY <1>2, <2>1 DEF op_lopen, LopenWith, Opened, MadeBy
  <2> QED
    BY <2>2, LastAnswer, FilesAlone
<1> QED
  BY <1>1, <1>2

\* A new path in a directory, to a new file or to one that is no directory.
LEMMA TreeGrows ==
  ASSUME NEW t, NEW n, TreeOK(t, n), NEW m \in Nat, n <= m,
         NEW path \in Path, path # <<>>, path \notin DOMAIN t, Len(path) <= Len(Root) + Depth,
         IsDir(t, Front(path)),
         NEW x \in File(m), x.type = "dir" => \A p \in DOMAIN t : t[p] # x
  PROVE  TreeOK(With(t, path, x), m)
<1> DEFINE u == With(t, path, x)
<1>1. DOMAIN u = DOMAIN t \union {path} /\ u[path] = x /\ \A p \in DOMAIN t : u[p] = t[p]
  BY DEF With
<1> HIDE DEF u
<1>2. \A p \in DOMAIN t : t[p] \in File(m)
  <2>1. 0 .. n \subseteq 0 .. m
    BY DEF TreeOK
  <2>2. File(n) \subseteq File(m)
    BY <2>1 DEF File
  <2> QED
    BY <2>2 DEF TreeOK
<1>3. DOMAIN u \subseteq Path
  BY <1>1 DEF TreeOK
<1>4. \A p \in DOMAIN u : u[p] \in File(m) /\ Len(p) <= Len(Root) + Depth
  BY <1>1, <1>2 DEF TreeOK
<1>5. ASSUME NEW p \in DOMAIN u, p # <<>> PROVE Front(p) \in DOMAIN u /\ u[Front(p)].type = "dir"
  <2>1. Front(p) \in DOMAIN t /\ t[Front(p)].type = "dir"
    BY <1>1, <1>5 DEF TreeOK, IsDir
  <2> QED
    BY <1>1, <2>1
<1>6. ASSUME NEW p \in DOMAIN u, NEW q \in DOMAIN u, u[p] = u[q], u[p].type = "dir" PROVE p = q
  <2>1. CASE p \in DOMAIN t /\ q \in DOMAIN t
    BY <1>1, <1>6, <2>1 DEF TreeOK
  <2>2. CASE p = path \/ q = path
    BY <1>1, <1>6, <2>2
  <2> QED
    BY <1>1, <2>1, <2>2
<1>7. TreeOK(u, m)
  BY <1>3, <1>4, <1>5, <1>6 DEF TreeOK
<1> QED
  BY <1>7 DEF u

\* A path goes that nothing is below of.
LEMMA TreeShrinks ==
  ASSUME NEW t, NEW n, TreeOK(t, n), NEW path, \A p \in DOMAIN t : p # <<>> => Front(p) # path
  PROVE  TreeOK(Without(t, path), n)
<1> DEFINE u == Without(t, path)
<1>1. DOMAIN u = DOMAIN t \ {path} /\ \A p \in DOMAIN u : u[p] = t[p]
  BY DEF Without
<1> HIDE DEF u
<1>2. TreeOK(u, n)
  BY <1>1 DEF TreeOK
<1> QED
  BY <1>2 DEF u

\* What is made where CanMake says so.
LEMMA MakesNode ==
  ASSUME TreeInv, NEW path \in Path, CanMake(path), NEW x \in File(made + 1), x.id = made + 1
  PROVE  TreeOK(With(tree, path, x), made + 1)
<1>1. made \in Nat /\ made + 1 \in Nat /\ made <= made + 1
  BY DEF TreeInv, TreeOK
<1>2. /\ path # <<>> /\ path \notin DOMAIN tree /\ Len(path) <= Len(Root) + Depth /\ IsDir(tree, Front(path))
  BY DEF CanMake
<1>3. ASSUME NEW p \in DOMAIN tree PROVE tree[p] # x
  <2>1. tree[p].id \in 0 .. made
    BY DEF TreeInv, TreeOK, File
  <2>2. made + 1 \notin 0 .. made
    BY <1>1
  <2> QED
    BY <2>1, <2>2
<1> QED
  BY <1>1, <1>2, <1>3, TreeGrows DEF TreeInv

\* A path the guest made longer by a name.
LEMMA JoinedPath ==
  ASSUME IInv, NEW f \in DOMAIN fids, NEW name \in Names
  PROVE  join_path_name(fids[f].path, name) \in Path /\ join_path_name(fids[f].path, name) # <<>>
<1>1. ASSUME NEW p \in Path, NEW x \in Name
      PROVE  Append(p, x) \in Path /\ Append(p, x) # <<>>
  BY AppendProperties DEF Path
<1>2. fids[f].path \in Path /\ name \in Name
  BY FidTypes, Joined
<1> QED
  BY <1>1, <1>2 DEF join_path_name

LEMMA MakeRight ==
  ASSUME IInv, TreeInv, NEW f, NEW name \in Names, NEW x \in File(made + 1), x.id = made + 1, NEW fault, NEW kept,
         kept = (fault # "stat_fails" /\ Delivered("make", fault)), MakeWith(f, name, x, fault, kept)
  PROVE  Right
<1>1. CASE MakeRefused(f, name, fault)
  BY <1>1, RefuseRight DEF MakeWith
<1>2. CASE ~MakeRefused(f, name, fault)
  <2> DEFINE p0 == join_path_name(fids[f].path, name)
  <2>1. f \in DOMAIN fids /\ CanMake(Entry(tree, p0))
    BY <1>2 DEF MakeRefused
  <2>2. PICK path \in Path : path = p0 /\ path # <<>>
    BY <2>1, JoinedPath
  <2>3. PICK at \in Path : at = Entry(tree, path) /\ CanMake(at)
    <3>1. Entry(tree, path) # NoPath
      BY <2>1, <2>2 DEF CanMake
    <3> QED
      BY <2>1, <2>2, <3>1, EntryTypes DEF TreeInv
  <2>4. /\ Answer("make", <<path>>, fault, fault # "stat_fails") /\ UNCHANGED <<open, fids>>
        /\ made' = IF kept THEN made + 1 ELSE made
        /\ tree' = IF kept THEN With(tree, at, x) ELSE tree
    BY <1>2, <2>2, <2>3 DEF MakeWith
  <2>5. last'.op = "make" /\ (last'.answer = "ok" <=> kept)
    BY <2>4, LastAnswer
  <2>6. CASE ~kept
    BY <2>4, <2>5, <2>6, FilesAlone
  <2>7. CASE kept
    <3>1. TreeInv'
      <4>1. TreeOK(tree', made')
        BY <2>3, <2>4, <2>7, MakesNode
      <4> QED
        BY <4>1 DEF TreeInv
    <3> QED
      BY <2>5, <2>7, <3>1 DEF Right, Undone, Followed
  <2> QED
    BY <2>6, <2>7
<1> QED
  BY <1>1, <1>2

LEMMA LinkRight ==
  ASSUME IInv, TreeInv, NEW d, NEW f, NEW name \in Names, NEW fault, op_link(d, f, name, fault)
  PROVE  Right
<1>1. CASE Refuse("link", fault)
  BY <1>1, RefuseRight
<1>2. CASE ~Refuse("link", fault)
  <2> DEFINE p0 == join_path_name(fids[d].path, name)
             from == Entry(tree, fids[f].path)
  <2>1. /\ d \in DOMAIN fids /\ CanMake(Entry(tree, p0)) /\ from \in DOMAIN tree /\ ~IsDir(tree, from)
        /\ Answer("link", <<p0>>, fault, TRUE) /\ UNCHANGED <<made, open, fids>>
        /\ tree' = IF Delivered("link", fault) THEN With(tree, Entry(tree, p0), tree[from]) ELSE tree
    BY <1>2 DEF op_link
  <2> HIDE DEF from
  <2>2. PICK path \in Path : path = p0 /\ path # <<>>
    BY <2>1, JoinedPath
  <2>3. PICK at \in Path : at = Entry(tree, path) /\ CanMake(at)
    <3>1. Entry(tree, path) # NoPath
      BY <2>1, <2>2 DEF CanMake
    <3> QED
      BY <2>1, <2>2, <3>1, EntryTypes DEF TreeInv
  <2>4. last'.op = "link" /\ (last'.answer = "ok" <=> Delivered("link", fault))
    BY <2>1, LastAnswer
  <2>5. CASE ~Delivered("link", fault)
    BY <2>1, <2>4, <2>5, FilesAlone
  <2>6. CASE Delivered("link", fault)
    <3>1. PICK x \in File(made) : x = tree[from] /\ x.type # "dir"
      BY <2>1 DEF TreeInv, TreeOK, IsDir
    <3>2. /\ at # <<>> /\ at \notin DOMAIN tree /\ Len(at) <= Len(Root) + Depth /\ IsDir(tree, Front(at))
      BY <2>3 DEF CanMake
    <3>3. made \in Nat /\ made <= made
      BY DEF TreeInv, TreeOK
    <3>4. TreeOK(With(tree, at, x), made)
      BY <3>1, <3>2, <3>3, TreeGrows DEF TreeInv
    <3>5. TreeInv'
      BY <2>1, <2>2, <2>3, <2>6, <3>1, <3>4 DEF TreeInv
    <3> QED
      BY <2>4, <2>6, <3>5 DEF Right, Undone, Followed
  <2> QED
    BY <2>5, <2>6
<1> QED
  BY <1>1, <1>2

LEMMA UnlinkatRight ==
  ASSUME IInv, TreeInv, NEW d, NEW name, NEW removedir, NEW fault, op_unlinkat(d, name, removedir, fault)
  PROVE  Right
<1>1. CASE Refuse("unlinkat", fault)
  BY <1>1, RefuseRight
<1>2. CASE ~Refuse("unlinkat", fault)
  <2>1. PICK at, paths : /\ at \in DOMAIN tree /\ Below(at) = {} /\ Answer("unlinkat", paths, fault, TRUE)
                         /\ tree' = Without(tree, at) /\ made' = made
    BY <1>2 DEF op_unlinkat
  <2>2. ASSUME NEW p \in DOMAIN tree, p # <<>> PROVE Front(p) # at
    <3>1. p \in Path
      BY DEF TreeInv, TreeOK
    <3>2. IsPrefix(Front(p), p) /\ Front(p) # p
      BY <2>2, <3>1, FrontPrefix
    <3> QED
      BY <2>1, <3>2 DEF Below, IsStrictPrefix
  <2>3. TreeOK(tree', made')
    BY <2>1, <2>2, TreeShrinks DEF TreeInv
  <2>4. last'.op = "unlinkat"
    BY <2>1, LastAnswer
  <2> QED
    BY <2>3, <2>4 DEF Right, TreeInv, Undone, Followed
<1> QED
  BY <1>1, <1>2

LEMMA OpenedOK ==
  ASSUME TreeInv, NEW at \in Path, at \notin DOMAIN tree => CanMake(at)
  PROVE  TreeOK(Opened(at), MadeBy(at))
<1>1. CASE at \in DOMAIN tree
  BY <1>1 DEF TreeInv, Opened, MadeBy
<1>2. CASE at \notin DOMAIN tree
  <2>1. Node(made + 1, "file") \in File(made + 1) /\ Node(made + 1, "file").id = made + 1
    <3>1. made + 1 \in 0 .. made + 1
      BY DEF TreeInv, TreeOK
    <3>2. <<>> \in Path
      BY DEF Path
    <3> QED
      BY <3>1, <3>2 DEF Node, File
  <2>2. TreeOK(With(tree, at, Node(made + 1, "file")), made + 1)
    BY <1>2, <2>1, MakesNode
  <2> QED
    BY <1>2, <2>2 DEF Opened, MadeBy
<1> QED
  BY <1>1, <1>2

\* A failure removes the entry, which is no directory, also when it was there.
\* What a link led to stays.
LEMMA LcreateRight ==
  ASSUME IInv, TreeInv, NEW f, NEW name \in Names, NEW flags, NEW fault, op_lcreate(f, name, flags, fault)
  PROVE  Right
<1>1. CASE LcreateRefused(f, name, flags, fault)
  BY <1>1, RefuseRight DEF op_lcreate
<1>2. CASE ~LcreateRefused(f, name, flags, fault)
  <2> DEFINE p0 == join_path_name(fids[f].path, name)
             good == fault # "stat_fails" /\ Delivered("lcreate", fault)
  <2>1. f \in DOMAIN fids /\ CanOpen(p0, p9_open_flags_to_host(flags) \union {"creat"})
    BY <1>2 DEF LcreateRefused
  <2>2. PICK path \in Path : path = p0 /\ path # <<>>
    BY <2>1, JoinedPath
  <2> DEFINE entry == Entry(tree, path)
             final == Final(tree, path)
  <2>3. \/ final \in DOMAIN tree /\ ~IsDir(tree, final)
        \/ final \notin DOMAIN tree /\ CanMake(final)
    BY <2>1, <2>2 DEF CanOpen, CanMake
  <2>4. final \in Path /\ (final # entry => IsLink(tree, entry))
    <3>1. final # NoPath
      <4>1. DOMAIN tree \subseteq Path /\ NoPath \notin Path
        BY P9fsAssumption DEF TreeInv, TreeOK, Path, Name
      <4> QED
        BY <2>3, <4>1 DEF CanMake
    <3> QED
      BY <2>2, <3>1, FinalTypes DEF TreeInv
  <2>5. ~IsDir(tree, entry)
    BY <2>3, <2>4 DEF IsDir, IsLink
  <2>6. TreeOK(Opened(final), MadeBy(final))
    BY <2>3, <2>4, OpenedOK
  <2>7. /\ Answer("lcreate", <<path>>, fault, fault # "stat_fails")
        /\ made' = IF good \/ final # entry THEN MadeBy(final) ELSE made
        /\ tree' = IF good THEN Opened(final) ELSE Without(Opened(final), entry)
        /\ ~good => UNCHANGED <<open, fids>>
    BY <1>2, <2>2 DEF op_lcreate
  <2>8. last'.op = "lcreate" /\ last'.paths = <<path>> /\ (last'.answer = "ok" <=> good)
    BY <2>7, LastAnswer
  <2>9. /\ DOMAIN Opened(final) = DOMAIN tree \union {final}
        /\ \A p \in DOMAIN tree : Opened(final)[p] = tree[p]
        /\ final \notin DOMAIN tree => Opened(final)[final] = Node(made + 1, "file")
    BY DEF Opened, With
  <2> HIDE DEF good, entry, final
  <2>10. CASE good
    BY <2>6, <2>7, <2>8, <2>10 DEF Right, TreeInv, Undone, Followed
  <2>11. CASE ~good
    <3>1. TreeOK(tree', made')
      <4>1. CASE final = entry
        <5>1. DOMAIN Without(Opened(entry), entry) = DOMAIN Without(tree, entry)
              /\ \A p \in DOMAIN Without(tree, entry) : Without(Opened(entry), entry)[p] = Without(tree, entry)[p]
          BY <2>9, <4>1 DEF Without
        <5>2. Without(Opened(entry), entry) = Without(tree, entry)
          BY <2>9, <4>1 DEF Without
        <5>3. ASSUME NEW p \in DOMAIN tree, p # <<>> PROVE Front(p) # entry
          BY <2>5, <5>3 DEF TreeInv, TreeOK, IsDir
        <5>4. TreeOK(Without(tree, entry), made)
          BY <5>3, TreeShrinks DEF TreeInv
        <5> QED
          BY <2>7, <2>11, <4>1, <5>2, <5>4
      <4>2. CASE final # entry
        <5>1. entry \in DOMAIN tree /\ tree[entry].type = "link"
          BY <2>4, <4>2 DEF IsLink
        <5>2. Opened(final)[entry].type = "link"
          BY <2>9, <5>1
        <5>3. ASSUME NEW p \in DOMAIN Opened(final), p # <<>> PROVE Front(p) # entry
          <6>1. Opened(final)[Front(p)].type = "dir"
            BY <2>6, <5>3 DEF TreeOK
          <6> QED
            BY <5>2, <6>1
        <5>4. TreeOK(Without(Opened(final), entry), MadeBy(final))
          BY <2>6, <5>3, TreeShrinks
        <5> QED
          BY <2>7, <2>11, <4>2, <5>4
      <4> QED
        BY <4>1, <4>2
    <3>2. /\ DOMAIN tree' = (DOMAIN tree \union {final}) \ {entry}
          /\ \A p \in DOMAIN tree' : p \in DOMAIN tree => tree'[p] = tree[p]
      BY <2>7, <2>9, <2>11 DEF Without
    <3>3. Range(last'.paths) = {path}
      <4>1. Range(<<path>>) = {path}
        BY DEF Range
      <4> QED
        BY <2>8, <4>1
    <3>4. {Entry(tree, p) : p \in Range(last'.paths)} = {entry} /\ \E q \in Range(last'.paths) : final = Final(tree, q)
      BY <3>3 DEF entry, final
    <3>5. Undone
      BY <2>7, <2>8, <2>11, <3>2, <3>4 DEF Undone
    <3> QED
      BY <2>8, <2>11, <3>1, <3>5 DEF Right, TreeInv, Followed
  <2> QED
    BY <2>10, <2>11
<1> QED
  BY <1>1, <1>2

\* Undone by a second rename, where no link leads elsewhere.
LEMMA RenameTakenBack ==
  ASSUME TreeInv, NEW old \in Path, old # <<>>, NEW new \in Path, new # <<>>, Renames(tree, old, new),
         Entry(tree, old) = old, Entry(tree, new) = new, NEW v,
         v = IF Renames(AfterRename(tree, old, new), new, old)
             THEN AfterRename(AfterRename(tree, old, new), new, old) ELSE AfterRename(tree, old, new)
  PROVE  /\ \A p \in DOMAIN v : p \in DOMAIN tree /\ v[p] = tree[p]
         /\ \A p \in DOMAIN tree : p # new => p \in DOMAIN v
<1> DEFINE u == RenamedTree(tree, old, new)
<1>1. TreeOK(tree, made) /\ CanRename(tree, old, new) /\ old \in DOMAIN tree /\ AfterRename(tree, old, new) = u
  BY DEF TreeInv, Renames, CanRename, AfterRename
<1>2. Len(old) <= MaxPath /\ Len(new) <= MaxPath
  <2>1. Entry(tree, old) # NoPath /\ Entry(tree, new) # NoPath
    BY DEF Renames, CanRename
  <2> QED
    BY <1>1, <2>1, EntryTypes
<1>3. CASE SameFile(tree, old, new)
  <2>1. u = tree /\ RenamedTree(tree, new, old) = tree
    BY <1>1, <1>3, SameFileRename
  <2>2. v = tree
    BY <1>1, <2>1 DEF AfterRename
  <2> QED
    BY <2>2
<1>4. CASE ~SameFile(tree, old, new)
  <2>1. Renamed(tree, u, old, new)
    BY <1>1, <1>4, RenamedMeans
  <2> HIDE DEF u
  <2>2. /\ CanRename(u, new, old)
        /\ \A p \in DOMAIN RenamedTree(u, new, old) : p \in DOMAIN tree /\ RenamedTree(u, new, old)[p] = tree[p]
        /\ \A p \in DOMAIN tree : p # new => p \in DOMAIN RenamedTree(u, new, old)
    BY <1>1, <2>1, RenameUndone
  <2>3. IsDir(u, Front(old)) /\ new \in DOMAIN u
    BY <2>2 DEF CanRename
  <2>4. IsDir(u, Front(new))
    <3>1. TreeOK(u, made)
      BY <1>1, <2>1, RenameKeepsTree
    <3> QED
      BY <2>3, <3>1 DEF TreeOK, IsDir
  <2>5. Entry(u, old) = old /\ Entry(u, new) = new
    BY <1>2, <2>3, <2>4, EntrySelf
  <2>6. v = RenamedTree(u, new, old)
    BY <1>1, <2>2, <2>5 DEF Renames, AfterRename
  <2> QED
    BY <2>2, <2>6
<1> QED
  BY <1>3, <1>4

\* A fid at or below the renamed path moves with its file.
LEMMA MovesAlong ==
  ASSUME TreeInv, NEW old \in Path, old # <<>>, NEW new \in Path, new # <<>>, Renames(tree, old, new),
         IsDir(tree, Front(new)), NEW path \in DOMAIN tree, IsPrefix(old, path)
  PROVE  /\ Moved(path, old, new) \in DOMAIN AfterRename(tree, old, new)
         /\ AfterRename(tree, old, new)[Moved(path, old, new)] = tree[path]
<1> DEFINE u == RenamedTree(tree, old, new)
<1>1. TreeOK(tree, made) /\ path \in Path
  BY DEF TreeInv, TreeOK
<1>2. old \in DOMAIN tree /\ (old # path => tree[old].type = "dir")
  BY <1>1, Above
<1>3. Len(old) <= MaxPath /\ Len(new) <= MaxPath
  <2>1. Entry(tree, old) # NoPath /\ Entry(tree, new) # NoPath
    BY DEF Renames, CanRename
  <2> QED
    BY <1>1, <2>1, EntryTypes
<1>4. Entry(tree, old) = old /\ Entry(tree, new) = new
  <2>1. IsDir(tree, Front(old))
    BY <1>1, <1>2 DEF TreeOK, IsDir
  <2> QED
    BY <1>3, <2>1, EntrySelf
<1>5. CanRename(tree, old, new) /\ AfterRename(tree, old, new) = u
  BY <1>4 DEF Renames, AfterRename
<1>6. CASE SameFile(tree, old, new)
  <2>1. u = tree
    BY <1>2, <1>6, SameFileRename
  <2>2. CASE old = path
    <3>1. Moved(path, old, new) = new
      BY <2>2, MovedSelf
    <3> QED
      BY <1>5, <1>6, <2>1, <2>2, <3>1 DEF SameFile
  <2>3. CASE old # path
    <3>1. new = old
      BY <1>1, <1>2, <1>6, <2>3 DEF SameFile, TreeOK
    <3>2. Moved(path, old, old) = path
      <4>1. IsMove(Moved(path, old, old), path, old, old)
        BY <1>1, MovedPath
      <4>2. PICK m \in Path : m = Moved(path, old, old) /\ IsMove(m, path, old, old)
        BY <4>1 DEF IsMove
      <4>3. Len(old) \in Nat /\ Len(path) \in Nat /\ Len(m) = Len(path) /\ \A i \in 1 .. Len(old) : path[i] = old[i]
        BY <1>1, <4>2, PathFacts, PathPrefix DEF IsMove
      <4>4. ASSUME NEW i \in 1 .. Len(m) PROVE m[i] = path[i]
        <5>1. CASE i <= Len(old)
          BY <4>2, <4>3, <5>1 DEF IsMove
        <5>2. CASE ~(i <= Len(old))
          <6>1. i \in Len(old) + 1 .. Len(path) /\ i - Len(old) + Len(old) = i
            BY <4>3, <5>2
          <6> QED
            BY <4>2, <6>1 DEF IsMove
        <5> QED
          BY <5>1, <5>2
      <4> QED
        BY <1>1, <4>2, <4>3, <4>4, PathEqual
    <3> QED
      BY <1>5, <2>1, <3>1, <3>2
  <2> QED
    BY <2>2, <2>3
<1>7. CASE ~SameFile(tree, old, new)
  <2>1. Renamed(tree, u, old, new)
    BY <1>1, <1>5, <1>7, RenamedMeans
  <2> HIDE DEF u
  <2>2. Moved(path, old, new) \in DOMAIN u /\ u[Moved(path, old, new)] = tree[path]
    BY <2>1 DEF Renamed
  <2> QED
    BY <1>5, <2>2
<1> QED
  BY <1>6, <1>7

\* The rename, undone when its answer is lost.
LEMMA RenameatRight ==
  ASSUME IInv, TreeInv, NEW d, NEW oldname \in Names, NEW e, NEW newname \in Names, NEW fault,
         op_renameat(d, oldname, e, newname, fault)
  PROVE  Right
<1> DEFINE o0 == join_path_name(fids[d].path, oldname)
           n0 == join_path_name(fids[e].path, newname)
<1>1. CASE Refuse("renameat", fault)
  BY <1>1, RefuseRight
<1>2. CASE ~Refuse("renameat", fault)
  <2>1. /\ d \in DOMAIN fids /\ e \in DOMAIN fids /\ Renames(tree, o0, n0)
        /\ Answer("renameat", <<n0, o0>>, fault, TRUE) /\ UNCHANGED <<made, open>>
        /\ \/ Delivered("renameat", fault) /\ tree' = AfterRename(tree, o0, n0) /\ fids' = FixPaths(o0, n0)
           \/ /\ ~Delivered("renameat", fault) /\ UNCHANGED fids
              /\ tree' = IF Renames(AfterRename(tree, o0, n0), n0, o0)
                         THEN AfterRename(AfterRename(tree, o0, n0), n0, o0) ELSE AfterRename(tree, o0, n0)
    BY <1>2 DEF op_renameat
  <2>2. PICK old \in Path : old = o0 /\ old # <<>>
    BY <2>1, JoinedPath
  <2>3. PICK new \in Path : new = n0 /\ new # <<>>
    BY <2>1, JoinedPath
  <2> DEFINE u == AfterRename(tree, old, new)
  <2>4. /\ last'.op = "renameat" /\ last'.paths = <<new, old>>
        /\ last'.answer = "ok" <=> Delivered("renameat", fault)
    BY <2>1, <2>2, <2>3, LastAnswer
  <2>5. last'.paths[1] = new /\ last'.paths[2] = old /\ new \in Range(last'.paths) /\ old \in Range(last'.paths)
    <3>1. <<new, old>>[1] = new /\ <<new, old>>[2] = old /\ new \in Range(<<new, old>>) /\ old \in Range(<<new, old>>)
      BY DEF Range
    <3> QED
      BY <2>4, <3>1
  <2>6. TreeOK(tree, made) /\ Renames(tree, old, new) /\ made' = made /\ TreeOK(u, made)
    BY <2>1, <2>2, <2>3, AfterRenameOK DEF TreeInv
  <2> HIDE DEF o0, n0, u
  <2>7. CASE ~Delivered("renameat", fault)
    <3>1. tree' = IF Renames(u, new, old) THEN AfterRename(u, new, old) ELSE u
      BY <2>1, <2>2, <2>3, <2>7 DEF u
    <3>2. TreeOK(tree', made')
      <4>1. CASE Renames(u, new, old)
        BY <2>2, <2>3, <2>6, <3>1, <4>1, AfterRenameOK
      <4>2. CASE ~Renames(u, new, old)
        BY <2>6, <3>1, <4>2
      <4> QED
        BY <4>1, <4>2
    <3>3. ASSUME Entry(tree, old) = old, Entry(tree, new) = new
          PROVE  /\ \A p \in DOMAIN tree' : p \in DOMAIN tree /\ tree'[p] = tree[p]
                 /\ DOMAIN tree \ DOMAIN tree' \subseteq {new}
      <4>1. /\ \A p \in DOMAIN tree' : p \in DOMAIN tree /\ tree'[p] = tree[p]
            /\ \A p \in DOMAIN tree : p # new => p \in DOMAIN tree'
        BY <2>2, <2>3, <2>6, <3>1, <3>3, RenameTakenBack DEF u
      <4> QED
        BY <4>1
    <3>4. UNCHANGED <<fids, open>>
      BY <2>1, <2>7
    <3>5. (\A p \in Range(last'.paths) : Entry(tree, p) = p) =>
            Entry(tree, old) = old /\ Entry(tree, new) = new /\ new \in {Entry(tree, p) : p \in Range(last'.paths)}
      BY <2>5
    <3>6. Undone
      BY <3>3, <3>4, <3>5, <2>4 DEF Undone
    <3> QED
      BY <2>4, <2>7, <3>2, <3>6 DEF Right, TreeInv, Followed
  <2>8. CASE Delivered("renameat", fault)
    <3>1. tree' = u /\ fids' = FixPaths(old, new)
      BY <2>1, <2>2, <2>3, <2>8 DEF u
    <3>2. ASSUME NEW f \in DOMAIN fids
          PROVE  /\ IsPrefix(old, fids[f].path) /\ fids[f].path \in DOMAIN tree /\ IsDir(tree, Front(new))
                      /\ ~ComesAgain(fids[f].path, old) =>
                    fids'[f].path \in DOMAIN tree' /\ tree'[fids'[f].path] = tree[fids[f].path]
                 /\ ~IsPrefix(old, fids[f].path) => fids'[f].path = fids[f].path \/ Occurs(fids[f].path, old, 0)
      <4>1. PICK path \in Path : path = fids[f].path /\ fids[f] \in FidState
        BY FidTypes
      <4>2. fids'[f] = IF StartsWith(path, old) THEN [fids[f] EXCEPT !.path = Respelled(path, old, new)] ELSE fids[f]
        BY <3>1, <4>1 DEF FixPaths
      <4>3. fids'[f].path = path \/ Occurs(path, old, 0)
        BY <4>1, <4>2 DEF StartsWith
      <4>4. ASSUME IsPrefix(old, path), path \in DOMAIN tree, IsDir(tree, Front(new)), ~ComesAgain(path, old)
            PROVE  fids'[f].path \in DOMAIN tree' /\ tree'[fids'[f].path] = tree[path]
        <5>1. StartsWith(path, old) /\ Respelled(path, old, new) = Moved(path, old, new)
          BY <2>2, <2>3, <4>4, RespelledBelow DEF StartsWith
        <5>2. fids'[f].path = Moved(path, old, new)
          BY <4>1, <4>2, <5>1 DEF FidState
        <5>3. Moved(path, old, new) \in DOMAIN u /\ u[Moved(path, old, new)] = tree[path]
          BY <2>2, <2>3, <2>6, <4>4, MovesAlong DEF u
        <5> QED
          BY <3>1, <5>2, <5>3
      <4> QED
        BY <4>1, <4>3, <4>4
    <3>3. Followed
      BY <2>5, <3>2 DEF Followed
    <3> QED
      BY <2>4, <2>6, <2>8, <3>1, <3>3 DEF Right, TreeInv, Undone
  <2> QED
    BY <2>7, <2>8
<1> QED
  BY <1>1, <1>2

LEMMA InitTree == Init => TreeInv
<1> SUFFICES ASSUME Init PROVE TreeInv
  OBVIOUS
<1> DEFINE To(n) == SubSeq(Root, 1, n)
<1>1. Root \in Path /\ Len(Root) \in Nat /\ Depth \in Nat
  BY RootPath, P9fsAssumption
<1>2. ASSUME NEW n \in 0 .. Len(Root)
      PROVE  To(n) \in Path /\ Len(To(n)) = n /\ \A i \in 1 .. n : To(n)[i] = Root[i]
  BY <1>1 DEF Path
<1>3. tree = [p \in {To(n) : n \in 0 .. Len(Root)} |-> Node(Len(p), "dir")] /\ made = Len(Root)
  BY DEF Init
<1> HIDE DEF To
<1>4. ASSUME NEW n \in 0 .. Len(Root) PROVE To(n) \in DOMAIN tree /\ tree[To(n)] = Node(n, "dir")
  BY <1>2, <1>3
<1>5. ASSUME NEW p \in DOMAIN tree PROVE \E n \in 0 .. Len(Root) : p = To(n)
  BY <1>3
<1>6. ASSUME NEW n \in 0 .. Len(Root)
      PROVE  /\ Node(n, "dir") \in File(made) /\ n <= Len(Root) + Depth
             /\ Node(n, "dir").type = "dir" /\ Node(n, "dir").id = n
  <2>1. <<>> \in Path
    BY DEF Path
  <2>2. n <= Len(Root) + Depth
    BY <1>1
  <2> QED
    BY <1>3, <2>1, <2>2 DEF Node, File
<1>7. ASSUME NEW n \in 0 .. Len(Root), To(n) # <<>> PROVE n - 1 \in 0 .. Len(Root) /\ Front(To(n)) = To(n - 1)
  <2>1. PICK p \in Path : p = To(n) /\ Len(p) = n /\ \A i \in 1 .. n : p[i] = Root[i]
    BY <1>2
  <2>2. PICK g \in Path : g = Front(p) /\ Len(g) = n - 1 /\ \A i \in 1 .. n - 1 : g[i] = p[i]
    BY <1>7, <2>1, PathFacts
  <2>3. n > 0
    BY <1>7, <2>1, PathFacts
  <2>4. n - 1 \in 0 .. Len(Root)
    BY <1>1, <2>3
  <2>5. PICK q \in Path : q = To(n - 1) /\ Len(q) = n - 1 /\ \A i \in 1 .. n - 1 : q[i] = Root[i]
    BY <1>2, <2>4
  <2>6. \A i \in 1 .. n - 1 : g[i] = q[i]
    <3>1. \A i \in 1 .. n - 1 : i \in 1 .. n
      OBVIOUS
    <3> QED
      BY <2>1, <2>2, <2>5, <3>1
  <2>7. g = q
    BY <2>2, <2>5, <2>6, PathEqual
  <2> QED
    BY <2>1, <2>2, <2>4, <2>5, <2>7
<1>8. made \in Nat /\ DOMAIN tree \subseteq Path
  BY <1>1, <1>2, <1>3, <1>5
<1>9. ASSUME NEW p \in DOMAIN tree PROVE tree[p] \in File(made) /\ Len(p) <= Len(Root) + Depth
  BY <1>2, <1>4, <1>5, <1>6
<1>10. ASSUME NEW p \in DOMAIN tree, p # <<>> PROVE Front(p) \in DOMAIN tree /\ tree[Front(p)].type = "dir"
  <2>1. PICK n \in 0 .. Len(Root) : p = To(n)
    BY <1>5
  <2>2. n - 1 \in 0 .. Len(Root) /\ Front(p) = To(n - 1)
    BY <1>7, <1>10, <2>1
  <2> QED
    BY <1>4, <1>6, <2>2
<1>11. ASSUME NEW p \in DOMAIN tree, NEW q \in DOMAIN tree, tree[p] = tree[q] PROVE p = q
  <2>1. PICK n \in 0 .. Len(Root) : p = To(n)
    BY <1>5
  <2>2. PICK m \in 0 .. Len(Root) : q = To(m)
    BY <1>5
  <2>3. n = m
    BY <1>4, <1>6, <1>11, <2>1, <2>2
  <2> QED
    BY <2>1, <2>2, <2>3
<1> QED
  BY <1>8, <1>9, <1>10, <1>11 DEF TreeInv, TreeOK

LEMMA StepRight ==
  ASSUME IInv, TreeInv, Next
  PROVE  Right
<1>1. CASE do_on_device_reset
  <2>1. last'.op = "reset" /\ UNCHANGED <<tree, made>>
    BY <1>1 DEF do_on_device_reset
  <2> QED
    BY <2>1, FilesAlone
<1>2. CASE do_on_device_queue_available
  <2>1. \/ NoHeader
        \/ \E fault \in Faults, f \in Fids :
             \/ op_clunk(f, fault) \/ op_fsync(f, fault)
             \/ \E follows \in BOOLEAN : op_setattr(f, follows, fault)
             \/ \E name \in Names :
                  \/ \E removedir \in BOOLEAN : op_unlinkat(f, name, removedir, fault)
                  \/ \E g \in Fids : op_link(f, g, name, fault)
                  \/ \E g \in Fids, other \in Names : op_renameat(f, name, g, other, fault)
        \/ \E fault \in BodyFaults :
             \/ op_version(fault) \/ Malformed(fault)
             \/ \E f \in Fids :
                  \/ op_attach(f, fault) \/ op_readdir(f, fault) \/ op_readlink(f, fault)
                  \/ op_statfs(f, fault) \/ op_getattr(f, fault) \/ op_read(f, fault)
                  \/ op_write(f, fault) \/ op_lock(f, fault) \/ op_getlock(f, fault)
                  \/ \E flags \in {{}, {"creat", "excl"}, {"nofollow"}} : op_lopen(f, flags, fault)
                  \/ \E g \in Fids, names \in Walks : op_walk(f, g, names, fault)
        \/ \E fault \in MakeFaults, f \in Fids, name \in Names :
             \/ \E flags \in {{}, {"excl", "noctty"}} : op_lcreate(f, name, flags, fault)
             \/ \E target \in Targets : op_symlink(f, name, target, fault)
             \/ op_mknod(f, name, fault) \/ op_mkdir(f, name, fault)
    BY <1>2 DEF do_on_device_queue_available
  <2>2. ASSUME NEW fault, op_version(fault) \/ Malformed(fault) \/ NoHeader
        PROVE  Right
    <3>1. NoHeader => Refuse("malformed", "none")
      BY DEF NoHeader, Refuse
    <3>2. op_version(fault) => Reply("version", fault)
      BY DEF op_version
    <3>3. Malformed(fault) => Refuse("malformed", fault)
      BY DEF Malformed
    <3> QED
      BY <2>2, <3>1, <3>2, <3>3, RefuseRight, ReplyRight
  <2>3. ASSUME NEW fault, NEW f \in Fids, op_attach(f, fault) \/ op_readdir(f, fault) \/ op_clunk(f, fault)
               \/ \E flags : op_lopen(f, flags, fault)
        PROVE  Right
    BY <2>3, FidRequestsRight, LopenRight
  <2>4. ASSUME NEW fault, NEW f \in Fids,
               \/ op_statfs(f, fault) \/ op_getattr(f, fault) \/ op_readlink(f, fault)
               \/ \E follows \in BOOLEAN : op_setattr(f, follows, fault)
               \/ op_fsync(f, fault) \/ op_read(f, fault) \/ op_write(f, fault) \/ op_lock(f, fault)
               \/ op_getlock(f, fault)
        PROVE  Right
    <3>1. ASSUME NEW k, k # "renameat", NEW b, Inspect(k, f, b, fault) PROVE Right
      <4>1. Refuse(k, fault) \/ Reply(k, fault)
        BY <3>1 DEF Inspect
      <4> QED
        BY <3>1, <4>1, RefuseRight, ReplyRight
    <3>2. ASSUME NEW k, k # "renameat", NEW ft, OnOpenFid(k, f, ft) PROVE Right
      <4>1. Refuse(k, ft) \/ Reply(k, ft)
        BY <3>2 DEF OnOpenFid
      <4> QED
        BY <3>2, <4>1, RefuseRight, ReplyRight
    <3>3. ASSUME op_readlink(f, fault) PROVE Right
      BY <3>3, RefuseRight, ReplyRight DEF op_readlink
    <3> QED
      BY <2>4, <3>1, <3>2, <3>3 DEF op_statfs, op_getattr, op_setattr, op_fsync, op_read, op_write,
                                    op_lock, op_getlock
  <2>5. ASSUME NEW fault, NEW f \in Fids, NEW name \in Names,
               \/ \E flags : op_lcreate(f, name, flags, fault)
               \/ \E g \in Fids, other \in Names : op_renameat(f, name, g, other, fault)
        PROVE  Right
    BY <2>5, LcreateRight, RenameatRight
  <2>6. ASSUME NEW fault, NEW f \in Fids, NEW name \in Names,
               \/ \E target \in Targets : op_symlink(f, name, target, fault)
               \/ op_mknod(f, name, fault) \/ op_mkdir(f, name, fault)
        PROVE  Right
    <3>1. made + 1 \in 0 .. made + 1 /\ <<>> \in Path /\ Targets \subseteq Path
      BY P9fsAssumption DEF TreeInv, TreeOK, Path, Name
    <3>2. PICK x \in File(made + 1) :
            x.id = made + 1 /\ MakeWith(f, name, x, fault, fault # "stat_fails" /\ Delivered("make", fault))
      <4>1. /\ Node(made + 1, "file") \in File(made + 1) /\ Node(made + 1, "file").id = made + 1
            /\ Node(made + 1, "dir") \in File(made + 1) /\ Node(made + 1, "dir").id = made + 1
        BY <3>1 DEF Node, File
      <4>2. \A target \in Targets : LinkTo(made + 1, target) \in File(made + 1) /\ LinkTo(made + 1, target).id = made + 1
        BY <3>1 DEF LinkTo, File
      <4> QED
        BY <2>6, <4>1, <4>2 DEF op_symlink, op_mknod, op_mkdir
    <3> QED
      BY <3>2, MakeRight
  <2>7. ASSUME NEW fault, NEW f \in Fids, NEW name \in Names,
               \/ \E removedir \in BOOLEAN : op_unlinkat(f, name, removedir, fault)
               \/ \E g \in Fids : op_link(f, g, name, fault)
        PROVE  Right
    BY <2>7, UnlinkatRight, LinkRight
  <2>8. ASSUME NEW fault, NEW f \in Fids, NEW g \in Fids, NEW names \in Walks, op_walk(f, g, names, fault)
        PROVE  Right
    BY <2>8, FidRequestsRight
  <2> QED
    BY <2>1, <2>2, <2>3, <2>4, <2>5, <2>6, <2>7, <2>8
<1> QED
  BY <1>1, <1>2 DEF Next

LEMMA NextRight == IInv /\ TreeInv /\ [Next]_vars => TreeInv' /\ [Undone]_vars /\ [Followed]_vars
<1> SUFFICES ASSUME IInv, TreeInv, [Next]_vars PROVE TreeInv' /\ [Undone]_vars /\ [Followed]_vars
  OBVIOUS
<1>1. CASE Next
  BY <1>1, StepRight DEF Right
<1>2. CASE vars' = vars
  <2>1. tree' = tree /\ made' = made
    BY <1>2 DEF vars
  <2> QED
    BY <1>2, <2>1 DEF TreeInv
<1> QED
  BY <1>1, <1>2

LEMMA FilesInvariant == Spec => [](IInv /\ TreeInv)
<1>1. Init => IInv /\ TreeInv
  BY InitIInv, InitTree
<1>2. (IInv /\ TreeInv) /\ [Next]_vars => (IInv /\ TreeInv)'
  BY NextIInv, NextRight
<1> QED
  BY <1>1, <1>2, PTL DEF Spec

\* Whatever the guest asks and whatever fails, every open host descriptor has
\* one fid that holds it, apart from those a walk onto an open fid gave up, and
\* the path that virtio-p9fs-address-range.cpp keeps for a fid begins with that
\* of the shared directory and goes on by legal names (op_walk, op_lcreate,
\* op_renameat).  That is what the text of the path says: a link that the guest
\* has made may still lead the host out of the directory.
THEOREM FidsAreSound == Spec => []FidsSound
<1>1. IInv => FidsSound
  BY DEF IInv, FidsSound
<1> QED
  BY <1>1, InitIInv, NextIInv, PTL DEF Spec

\* A request that is not answered with success, whatever failed and wherever,
\* leaves files and fids as they were, but for the exceptions RefusedUndone
\* names: what op_lcreate, op_mknod, op_symlink, op_mkdir, op_link and
\* op_renameat take back with unlink, rmdir and rename is what they had done.
\* With links followed as the host follows them, that leaves two cases: a file
\* that op_lcreate made at the target of a link, and a rename through a link.
THEOREM RefusalsAreUndone == Spec => RefusedUndone
<1>1. (IInv /\ TreeInv) /\ [Next]_vars => [Undone]_vars
  BY NextRight
<1>2. Spec => [][Undone]_vars
  BY <1>1, FilesInvariant, PTL DEF Spec
<1> QED
  BY <1>2 DEF RefusedUndone

\* After a rename to a path whose directory is in the tree, every fid at or below
\* the renamed path in which the letters of that path do not come again names the
\* file it named before, and a fid that moves otherwise begins with its letters
\* (path.rfind(oldpath) == 0 in op_renameat), however deep the directory.
THEOREM FidsFollowRenames == Spec => RenameFollowed
<1>1. (IInv /\ TreeInv) /\ [Next]_vars => [Followed]_vars
  BY NextRight
<1>2. Spec => [][Followed]_vars
  BY <1>1, FilesInvariant, PTL DEF Spec
<1> QED
  BY <1>2 DEF RenameFollowed
=============================================================================
