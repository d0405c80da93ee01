--------------------------- MODULE Webhooks_proofs ---------------------------
(***************************************************************************)
(* Proofs about the webhooks, for every profile, docker option, kind of    *)
(* object and order of writes: mutating twice is mutating once, the unit   *)
(* comes with its script, the profile is followed, and what others put     *)
(* into an object is kept.                                                 *)
(***************************************************************************)
EXTENDS Webhooks, TLAPS, FiniteSetTheorems, WellFoundedInduction

-----------------------------------------------------------------------------
(* The loop of appendUniqueFile.                                           *)

\* A set of natural numbers that is not empty has a least member.
LEMMA Least ==
  ASSUME NEW S, S \subseteq Nat, S # {}
  PROVE  \E x \in S : \A y \in S : x <= y
<1>1. PICK x \in S : \A y \in S : <<y, x>> \notin OpToRel(<, Nat)
  BY NatLessThanWellFounded, WFMin, Zenon
<1>2. \A y \in S : ~(y < x)
  BY <1>1, Zenon DEF OpToRel
<1> QED BY <1>2

\* g is what the loop has kept of the first files, up to n of them.
Loop(files, path, g, n) ==
  g = [k \in 0..n |-> IF k = 0 THEN <<>>
                      ELSE IF files[k].path # path THEN Append(g[k - 1], files[k])
                      ELSE g[k - 1]]

Kept(files, path) == CHOOSE g : Loop(files, path, g, Len(files))

\* What it has kept at its end.
Others(files, path) == Kept(files, path)[Len(files)]

LEMMA AppendUnique ==
  \A files, file : appendUniqueFile(files, file) = Append(Others(files, file.path), file)
BY DEF appendUniqueFile, Others, Kept, Loop

\* The loop ends, whatever the files are.
LEMMA LoopEnds ==
  ASSUME NEW files, NEW path, NEW n \in Nat
  PROVE  \E g : Loop(files, path, g, n)
<1> DEFINE S == {m \in Nat : ~ \E g : Loop(files, path, g, m)}
<1>1. ASSUME S # {} PROVE FALSE
  <2>1. PICK m \in S : \A y \in S : m <= y
    BY <1>1, Least
  <2>2. CASE m = 0
    <3>1. Loop(files, path, [k \in 0..0 |-> <<>>], 0)
      BY DEF Loop
    <3> QED BY <2>1, <2>2, <3>1
  <2>3. CASE m # 0
    <3>1. m - 1 \in Nat /\ m - 1 \notin S
      BY <2>1, <2>3
    <3>2. PICK g : Loop(files, path, g, m - 1)
      BY <3>1
    <3> DEFINE h == [k \in 0..m |->
                       IF k = m THEN IF files[m].path # path THEN Append(g[m - 1], files[m])
                                     ELSE g[m - 1]
                       ELSE g[k]]
    <3>3. \A k \in 0..m : k # 0 => h[k - 1] = g[k - 1]
      BY <2>1
    <3>4. Loop(files, path, h, m)
      <4>1. \A k \in 0..(m - 1) : g[k] = IF k = 0 THEN <<>>
                      ELSE IF files[k].path # path THEN Append(g[k - 1], files[k])
                      ELSE g[k - 1]
        BY <3>2 DEF Loop
      <4>2. \A k \in 0..m : h[k] = IF k = 0 THEN <<>>
                      ELSE IF files[k].path # path THEN Append(h[k - 1], files[k])
                      ELSE h[k - 1]
        <5> TAKE k \in 0..m
        <5>1. CASE k = m
          BY <2>3, <3>3, <5>1
        <5>2. CASE k # m
          <6>1. k \in 0..(m - 1) /\ h[k] = g[k]
            BY <2>1, <5>2
          <6> HIDE DEF h
          <6> QED BY <3>3, <4>1, <6>1
        <5> QED BY <5>1, <5>2
      <4>3. h = [k \in 0..m |-> h[k]]
        OBVIOUS
      <4> HIDE DEF h
      <4> QED BY <4>2, <4>3 DEF Loop
    <3> QED BY <2>1, <3>4
  <2> QED BY <2>2, <2>3
<1> QED BY <1>1

\* What it does for each file.
LEMMA LoopStep ==
  ASSUME NEW F, NEW files \in Seq(F), NEW path
  PROVE  /\ Kept(files, path)[0] = <<>>
         /\ \A k \in 1..Len(files) :
              Kept(files, path)[k] = IF files[k].path # path
                                     THEN Append(Kept(files, path)[k - 1], files[k])
                                     ELSE Kept(files, path)[k - 1]
<1>1. PICK g : g = Kept(files, path)
  OBVIOUS
<1>2. Loop(files, path, g, Len(files))
  <2>1. Len(files) \in Nat
    OBVIOUS
  <2> QED BY <1>1, <2>1, LoopEnds DEF Kept
<1>3. \A k \in 0..Len(files) :
        g[k] = IF k = 0 THEN <<>>
               ELSE IF files[k].path # path THEN Append(g[k - 1], files[k])
               ELSE g[k - 1]
  BY <1>2 DEF Loop
<1> QED BY <1>1, <1>3

\* Two lists that begin alike are treated alike so far.
LEMMA LoopAlike ==
  ASSUME NEW F, NEW s \in Seq(F), NEW t \in Seq(F), NEW path,
         NEW n \in Nat, n <= Len(s), n <= Len(t), \A i \in 1..n : s[i] = t[i]
  PROVE  Kept(s, path)[n] = Kept(t, path)[n]
<1> DEFINE S == {m \in 0..n : Kept(s, path)[m] # Kept(t, path)[m]}
<1>1. ASSUME S # {} PROVE FALSE
  <2>1. PICK m \in S : \A y \in S : m <= y
    <3>1. S \subseteq Nat
      OBVIOUS
    <3> HIDE DEF S
    <3> QED BY <1>1, <3>1, Least
  <2>2. m # 0
    BY <2>1, LoopStep
  <2>3. m - 1 \in 0..n /\ m - 1 \notin S /\ m \in 1..n
    BY <2>1, <2>2
  <2>4. Kept(s, path)[m - 1] = Kept(t, path)[m - 1]
    BY <2>3
  <2>5. m \in 1..Len(s) /\ m \in 1..Len(t) /\ s[m] = t[m]
    BY <2>3
  <2>6. Kept(s, path)[m] = Kept(t, path)[m]
    BY <2>4, <2>5, LoopStep
  <2> QED BY <2>1, <2>6
<1> QED BY <1>1

\* No two files have the same path.
Distinct(files) == \A i, j \in 1..Len(files) : files[i].path = files[j].path => i = j

\* A sequence and one more element.
LEMMA OneMore ==
  ASSUME NEW F, NEW s \in Seq(F), NEW f \in F
  PROVE  Append(s, f) \in Seq(F)
OBVIOUS

\* Its elements.
LEMMA Elements ==
  ASSUME NEW F, NEW s \in Seq(F)
  PROVE  /\ ToSet(s) = {s[i] : i \in 1..Len(s)}
         /\ Paths(s) = {s[i].path : i \in 1..Len(s)}
<1>1. DOMAIN s = 1..Len(s)
  OBVIOUS
<1> QED BY <1>1 DEF ToSet, Paths

\* The elements of a sequence and one more.
LEMMA ElementsAppend ==
  ASSUME NEW F, NEW s \in Seq(F), NEW f \in F
  PROVE  /\ ToSet(Append(s, f)) = ToSet(s) \cup {f}
         /\ Paths(Append(s, f)) = Paths(s) \cup {f.path}
<1>1. PICK u \in Seq(F) : u = Append(s, f)
  BY OneMore
<1>2. PICK n \in Nat : n = Len(s)
  OBVIOUS
<1>3. Len(u) = n + 1 /\ u[n + 1] = f /\ \A i \in 1..n : u[i] = s[i]
  BY <1>1, <1>2
<1>4. /\ ToSet(u) = {u[i] : i \in 1..(n + 1)} /\ ToSet(s) = {s[i] : i \in 1..n}
      /\ Paths(u) = {u[i].path : i \in 1..(n + 1)} /\ Paths(s) = {s[i].path : i \in 1..n}
  BY <1>2, <1>3, Elements
<1>5. 1..(n + 1) = 1..n \cup {n + 1}
  OBVIOUS
<1>6. \A x : x \in ToSet(u) <=> x \in ToSet(s) \/ x = f
  BY <1>3, <1>4, <1>5
<1>7. \A x : x \in Paths(u) <=> x \in Paths(s) \/ x = f.path
  BY <1>3, <1>4, <1>5
<1> QED BY <1>1, <1>6, <1>7

LEMMA ElementsEmpty == ToSet(<<>>) = {} /\ Paths(<<>>) = {} /\ Distinct(<<>>)
<1>1. DOMAIN <<>> = {} /\ Len(<<>>) = 0
  OBVIOUS
<1> QED BY <1>1 DEF ToSet, Paths, Distinct

\* One more file.
LEMMA OthersAppend ==
  ASSUME NEW F, NEW s \in Seq(F), NEW f \in F, NEW path
  PROVE  /\ f.path # path => Others(Append(s, f), path) = Append(Others(s, path), f)
         /\ f.path = path => Others(Append(s, f), path) = Others(s, path)
<1>1. PICK t \in Seq(F) : t = Append(s, f)
  BY OneMore
<1>2. PICK n \in Nat : n = Len(s)
  OBVIOUS
<1>3. Len(t) = n + 1 /\ t[n + 1] = f /\ \A i \in 1..n : s[i] = t[i]
  BY <1>1, <1>2
<1>4. Kept(s, path)[n] = Kept(t, path)[n]
  BY <1>2, <1>3, LoopAlike
<1>5. Kept(t, path)[n + 1] = IF f.path # path THEN Append(Kept(t, path)[n], f)
                             ELSE Kept(t, path)[n]
  <2>1. n + 1 \in 1..Len(t) /\ (n + 1) - 1 = n
    BY <1>3
  <2> QED BY <1>3, <2>1, LoopStep
<1> QED BY <1>1, <1>2, <1>3, <1>4, <1>5 DEF Others

\* What is kept are the others.
LEMMA OthersAre ==
  ASSUME NEW F, NEW files \in Seq(F), NEW path
  PROVE  LET r == Others(files, path) IN
         /\ r \in Seq(F)
         /\ ToSet(r) = {f \in ToSet(files) : f.path # path}
         /\ path \notin Paths(files) => r = files
         /\ Distinct(files) => Distinct(r)
<1> DEFINE Good(s) == LET r == Others(s, path) IN
                      /\ r \in Seq(F)
                      /\ ToSet(r) = {f \in ToSet(s) : f.path # path}
                      /\ path \notin Paths(s) => r = s
                      /\ Distinct(s) => Distinct(r)
           S == {m \in Nat : \E s \in Seq(F) : Len(s) = m /\ ~Good(s)}
<1>1. ASSUME S # {} PROVE FALSE
  <2> HIDE DEF Good
  <2>1. PICK m \in S : \A y \in S : m <= y
    BY <1>1, Least
  <2>2. PICK s \in Seq(F) : Len(s) = m /\ ~Good(s)
    BY <2>1
  <2>3. m # 0
    <3>1. m = 0 => s = <<>>
      BY <2>2
    <3>2. Others(<<>>, path) = <<>>
      <4>1. <<>> \in Seq(F) /\ Len(<<>>) = 0
        OBVIOUS
      <4> QED BY <4>1, LoopStep DEF Others
    <3>3. <<>> \in Seq(F)
      OBVIOUS
    <3>4. Good(<<>>)
      BY <3>2, <3>3, ElementsEmpty DEF Good
    <3> QED BY <2>2, <3>1, <3>4
  <2>4. PICK t \in Seq(F), f \in F : s = Append(t, f) /\ Len(t) = m - 1
    <3>1. SubSeq(s, 1, m - 1) \in Seq(F) /\ s[m] \in F
      BY <2>1, <2>2, <2>3
    <3>2. Len(SubSeq(s, 1, m - 1)) = m - 1 /\ s = Append(SubSeq(s, 1, m - 1), s[m])
      BY <2>1, <2>2, <2>3
    <3> QED BY <3>1, <3>2
  <2>5. Good(t)
    <3>1. m - 1 \in Nat /\ m - 1 \notin S
      BY <2>1, <2>3
    <3> QED BY <2>4, <3>1
  <2>6. Good(s)
    <3>1. PICK r \in Seq(F) : r = Others(t, path)
      BY <2>5 DEF Good
    <3>2. ToSet(r) = {x \in ToSet(t) : x.path # path}
      BY <2>5, <3>1 DEF Good
    <3>3. path \notin Paths(t) => r = t
      BY <2>5, <3>1 DEF Good
    <3>4. Distinct(t) => Distinct(r)
      BY <2>5, <3>1 DEF Good
    <3>5. PICK n \in Nat : n = Len(t)
      OBVIOUS
    <3>6. Len(s) = n + 1 /\ s[n + 1] = f /\ \A i \in 1..n : s[i] = t[i]
      BY <2>4, <3>5
    <3>7. ToSet(s) = ToSet(t) \cup {f}
      BY <2>4, ElementsAppend
    <3>8. Paths(s) = Paths(t) \cup {f.path}
      BY <2>4, ElementsAppend
    <3>9. Distinct(s) => Distinct(t) /\ \A x \in ToSet(t) : x.path # f.path
      <4> SUFFICES ASSUME Distinct(s) PROVE Distinct(t) /\ \A x \in ToSet(t) : x.path # f.path
        OBVIOUS
      <4>1. \A i \in 1..n : i \in 1..Len(s) /\ i # n + 1 /\ n + 1 \in 1..Len(s)
        BY <3>6
      <4>2. Distinct(t)
        BY <3>5, <3>6, <4>1 DEF Distinct
      <4>3. \A x \in ToSet(t) : x.path # f.path
        BY <3>5, <3>6, <4>1, Elements DEF Distinct
      <4> QED BY <4>2, <4>3
    <3>10. CASE f.path = path
      <4>1. Others(s, path) = r
        BY <2>4, <3>1, <3>10, OthersAppend
      <4> QED BY <3>2, <3>4, <3>7, <3>8, <3>9, <3>10, <4>1 DEF Good
    <3>11. CASE f.path # path
      <4>1. Others(s, path) = Append(r, f)
        BY <2>4, <3>1, <3>11, OthersAppend
      <4>2. PICK u \in Seq(F) : u = Append(r, f)
        BY OneMore
      <4>3. PICK l \in Nat : l = Len(r)
        OBVIOUS
      <4>4. Len(u) = l + 1 /\ u[l + 1] = f /\ \A i \in 1..l : u[i] = r[i]
        BY <4>2, <4>3
      <4>5. ToSet(u) = ToSet(r) \cup {f}
        BY <4>2, ElementsAppend
      <4>6. ToSet(u) = {x \in ToSet(s) : x.path # path}
        BY <3>2, <3>7, <3>11, <4>5
      <4>7. path \notin Paths(s) => u = s
        BY <2>4, <3>3, <3>8, <4>2
      <4>8. Distinct(s) => Distinct(u)
        <5> SUFFICES ASSUME Distinct(s) PROVE Distinct(u)
          OBVIOUS
        <5>1. Distinct(r)
          BY <3>4, <3>9
        <5>2. \A i \in 1..l : r[i] \in ToSet(t)
          BY <3>2, <4>3, Elements
        <5>3. \A i \in 1..l : u[i].path # f.path
          BY <3>9, <4>4, <5>2
        <5>4. \A i, j \in 1..l : u[i].path = u[j].path => i = j
          BY <4>3, <4>4, <5>1 DEF Distinct
        <5>5. \A i, j \in 1..(l + 1) : u[i].path = u[j].path => i = j
          <6>1. 1..(l + 1) = 1..l \cup {l + 1}
            OBVIOUS
          <6> QED BY <4>4, <5>3, <5>4, <6>1
        <5> QED BY <4>4, <5>5 DEF Distinct
      <4> QED BY <4>1, <4>2, <4>6, <4>7, <4>8 DEF Good
    <3> QED BY <3>10, <3>11
  <2> QED BY <2>2, <2>6
<1>2. Len(files) \in Nat
  OBVIOUS
<1>3. Good(files)
  BY <1>1, <1>2
<1> QED BY <1>3

-----------------------------------------------------------------------------
(* Files and units of an operating system config.                          *)

\* What appendUniqueFile returns.
LEMMA UniqueFile ==
  ASSUME NEW F, NEW files \in Seq(F), NEW file \in F
  PROVE  LET r == appendUniqueFile(files, file) IN
         /\ r \in Seq(F)
         /\ ToSet(r) = {f \in ToSet(files) : f.path # file.path} \cup {file}
         /\ Paths(r) = Paths(files) \cup {file.path}
         /\ Distinct(files) => Distinct(r)
<1>1. PICK o \in Seq(F) : o = Others(files, file.path)
  BY OthersAre
<1>2. ToSet(o) = {f \in ToSet(files) : f.path # file.path} /\ (Distinct(files) => Distinct(o))
  BY <1>1, OthersAre
<1>3. PICK r \in Seq(F) : r = Append(o, file)
  BY OneMore
<1>4. appendUniqueFile(files, file) = r
  BY <1>1, <1>3, AppendUnique
<1>5. ToSet(r) = ToSet(o) \cup {file} /\ Paths(r) = Paths(o) \cup {file.path}
  BY <1>3, ElementsAppend
<1>6. Paths(o) = {f.path : f \in ToSet(o)} /\ Paths(files) = {f.path : f \in ToSet(files)}
  BY Elements
<1>7. Paths(r) = Paths(files) \cup {file.path}
  BY <1>2, <1>5, <1>6
<1>8. ASSUME Distinct(o) PROVE Distinct(r)
  <2>1. PICK n \in Nat : n = Len(o)
    OBVIOUS
  <2>2. Len(r) = n + 1 /\ r[n + 1] = file /\ \A i \in 1..n : r[i] = o[i]
    BY <1>3, <2>1
  <2>3. \A i \in 1..n : r[i].path # file.path
    <3>1. \A i \in 1..n : o[i] \in ToSet(o)
      BY <2>1, Elements
    <3> QED BY <1>2, <2>2, <3>1
  <2>4. \A i, j \in 1..n : r[i].path = r[j].path => i = j
    BY <1>8, <2>1, <2>2 DEF Distinct
  <2>5. \A i, j \in 1..(n + 1) : r[i].path = r[j].path => i = j
    <3>1. 1..(n + 1) = 1..n \cup {n + 1}
      OBVIOUS
    <3> QED BY <2>2, <2>3, <2>4, <3>1
  <2> QED BY <2>2, <2>5 DEF Distinct
<1> QED BY <1>2, <1>4, <1>5, <1>7, <1>8

\* A path that was left out is not there.
LEMMA LeftOut ==
  ASSUME NEW F, NEW files \in Seq(F), NEW path
  PROVE  path \notin Paths(Others(files, path))
<1>1. PICK o \in Seq(F) : o = Others(files, path)
  BY OthersAre
<1>2. ToSet(o) = {f \in ToSet(files) : f.path # path}
  BY <1>1, OthersAre
<1>3. Paths(o) = {f.path : f \in ToSet(o)}
  BY Elements
<1> QED BY <1>1, <1>2, <1>3

\* Doing it twice is doing it once, the order of files included.
LEMMA OneFileTwice ==
  ASSUME NEW F, NEW files \in Seq(F), NEW f \in F
  PROVE  LET r == appendUniqueFile(files, f) IN appendUniqueFile(r, f) = r
<1>1. PICK o \in Seq(F) : o = Others(files, f.path)
  BY OthersAre
<1>2. Others(o, f.path) = o
  BY <1>1, LeftOut, OthersAre
<1>3. Others(Append(o, f), f.path) = o
  BY <1>2, OthersAppend
<1> QED BY <1>1, <1>3, AppendUnique

\* And so it is with two files.
LEMMA TwoFilesTwice ==
  ASSUME NEW F, NEW files \in Seq(F), NEW f \in F, NEW g \in F, f.path # g.path
  PROVE  LET r == appendUniqueFile(appendUniqueFile(files, f), g) IN
         appendUniqueFile(appendUniqueFile(r, f), g) = r
<1>1. PICK o \in Seq(F) : o = Others(files, f.path)
  BY OthersAre
<1>2. PICK q \in Seq(F) : q = Others(o, g.path)
  BY OthersAre
<1>3. f.path \notin Paths(q) /\ g.path \notin Paths(q)
  <2>1. f.path \notin Paths(o) /\ g.path \notin Paths(q)
    BY <1>1, <1>2, LeftOut
  <2>2. ToSet(q) \subseteq ToSet(o)
    BY <1>2, OthersAre
  <2>3. Paths(q) = {x.path : x \in ToSet(q)} /\ Paths(o) = {x.path : x \in ToSet(o)}
    BY Elements
  <2> QED BY <2>1, <2>2, <2>3
<1>4. Others(q, f.path) = q /\ Others(q, g.path) = q
  BY <1>3, OthersAre
<1>5. PICK qf \in Seq(F) : qf = Append(q, f)
  BY OneMore
<1>6. PICK qg \in Seq(F) : qg = Append(q, g)
  BY OneMore
<1>7. appendUniqueFile(appendUniqueFile(files, f), g) = Append(qf, g)
  <2>1. appendUniqueFile(files, f) = Append(o, f)
    BY <1>1, AppendUnique
  <2>2. Others(Append(o, f), g.path) = qf
    BY <1>2, <1>5, OthersAppend
  <2> QED BY <2>1, <2>2, AppendUnique
<1>8. appendUniqueFile(Append(qf, g), f) = Append(qg, f)
  <2>1. Others(qf, f.path) = q
    BY <1>4, <1>5, OthersAppend
  <2>2. Others(Append(qf, g), f.path) = qg
    BY <1>6, <2>1, OthersAppend
  <2> QED BY <2>2, AppendUnique
<1>9. appendUniqueFile(Append(qg, f), g) = Append(qf, g)
  <2>1. Others(qg, g.path) = q
    BY <1>4, <1>6, OthersAppend
  <2>2. Others(Append(qg, f), g.path) = qf
    BY <1>5, <2>1, OthersAppend
  <2> QED BY <2>2, AppendUnique
<1> QED BY <1>7, <1>8, <1>9

PathSet == {"kubelet-config", "other", "http-proxy.conf", "merge-docker-json.sh"}
ProxyData == {{c} : c \in ProxyConf}
FileSet == [path : PathSet, data : (SUBSET Registries) \cup ProxyData]
UnitSet == {"kubelet.service", "merge-docker-json.service"}

LEMMA FilesAreFiles ==
  /\ BaseFile \in FileSet /\ OtherFile \in FileSet
  /\ \A c \in ProxyConf : HTTPProxy(c) \in FileSet
  /\ \A r \in SUBSET Registries : MergeScript(r) \in FileSet
  /\ \A c, r : HTTPProxy(c).path = "http-proxy.conf" /\ MergeScript(r).path = "merge-docker-json.sh"
<1>1. \A p \in PathSet, d \in SUBSET Registries : [path |-> p, data |-> d] \in FileSet
  BY DEF FileSet
<1>2. \A p \in PathSet, d \in ProxyData : [path |-> p, data |-> d] \in FileSet
  BY DEF FileSet
<1>3. BaseFile \in FileSet /\ OtherFile \in FileSet
  BY <1>1 DEF BaseFile, OtherFile, PathSet
<1>4. \A c \in ProxyConf : HTTPProxy(c) \in FileSet
  <2> TAKE c \in ProxyConf
  <2>1. {c} \in ProxyData
    BY DEF ProxyData
  <2>2. PICK d \in ProxyData : d = {c}
    BY <2>1
  <2>3. HTTPProxy(c) = [path |-> "http-proxy.conf", data |-> d]
    BY <2>2 DEF HTTPProxy
  <2> QED BY <1>2, <2>3 DEF PathSet
<1>5. \A r \in SUBSET Registries : MergeScript(r) \in FileSet
  BY <1>1 DEF MergeScript, PathSet
<1>6. \A c, r : HTTPProxy(c).path = "http-proxy.conf" /\ MergeScript(r).path = "merge-docker-json.sh"
  BY DEF HTTPProxy, MergeScript
<1> QED BY <1>3, <1>4, <1>5, <1>6

\* The docker options of a profile, as files.
WantedOf(p) ==
  (IF p.proxy = "nil" THEN {} ELSE {HTTPProxy(p.proxy)})
  \cup (IF p.registries = {} THEN {} ELSE {MergeScript(p.registries)})

\* What EnsureAdditionalFiles does.
LEMMA AdditionalFiles ==
  ASSUME NEW p \in Profiles, NEW files \in Seq(FileSet)
  PROVE  LET r == EnsureAdditionalFiles(files, p) IN
         /\ r \in Seq(FileSet)
         /\ Distinct(files) => Distinct(r)
         /\ WantedOf(p) \subseteq ToSet(r)
         /\ {f \in ToSet(files) : f.path \notin {"http-proxy.conf", "merge-docker-json.sh"}}
               \subseteq ToSet(r)
         /\ "merge-docker-json.sh" \in Paths(r)
              <=> \/ p.registries # {}
                  \/ "merge-docker-json.sh" \in Paths(files)
         /\ EnsureAdditionalFiles(r, p) = r
<1> DEFINE f == HTTPProxy(p.proxy)
           g == MergeScript(p.registries)
<1>1. p.proxy # "nil" => f \in FileSet
  BY FilesAreFiles DEF Profiles
<1>2. p.registries \in SUBSET Registries /\ g \in FileSet
  BY FilesAreFiles DEF Profiles
<1>3. f.path = "http-proxy.conf" /\ g.path = "merge-docker-json.sh"
  BY FilesAreFiles
<1>4. \A s : EnsureAdditionalFiles(s, p)
               = LET a == IF p.proxy = "nil" THEN s ELSE appendUniqueFile(s, f)
                 IN  IF p.registries = {} THEN a ELSE appendUniqueFile(a, g)
  BY DEF EnsureAdditionalFiles, addDockerHTTPProxyFile, addMergeDockerJSONFile
<1>5. WantedOf(p) = (IF p.proxy = "nil" THEN {} ELSE {f})
                    \cup (IF p.registries = {} THEN {} ELSE {g})
  BY DEF WantedOf
<1> HIDE DEF f, g
<1>6. CASE p.proxy = "nil" /\ p.registries = {}
  <2>1. EnsureAdditionalFiles(files, p) = files /\ WantedOf(p) = {}
    BY <1>4, <1>5, <1>6
  <2> QED BY <1>6, <2>1
<1>7. CASE p.proxy # "nil" /\ p.registries = {}
  <2>1. PICK r : r = appendUniqueFile(files, f)
    OBVIOUS
  <2>2. EnsureAdditionalFiles(files, p) = r /\ WantedOf(p) = {f}
    BY <1>4, <1>5, <1>7, <2>1
  <2>3. EnsureAdditionalFiles(r, p) = r
    <3>1. appendUniqueFile(r, f) = r
      BY <1>1, <1>7, <2>1, OneFileTwice
    <3> QED BY <1>4, <1>7, <3>1
  <2>4. /\ r \in Seq(FileSet) /\ (Distinct(files) => Distinct(r))
        /\ ToSet(r) = {x \in ToSet(files) : x.path # f.path} \cup {f}
        /\ Paths(r) = Paths(files) \cup {f.path}
    BY <1>1, <1>7, <2>1, UniqueFile
  <2> QED BY <1>3, <1>7, <2>2, <2>3, <2>4
<1>8. CASE p.proxy = "nil" /\ p.registries # {}
  <2>1. PICK r : r = appendUniqueFile(files, g)
    OBVIOUS
  <2>2. EnsureAdditionalFiles(files, p) = r /\ WantedOf(p) = {g}
    BY <1>4, <1>5, <1>8, <2>1
  <2>3. EnsureAdditionalFiles(r, p) = r
    <3>1. appendUniqueFile(r, g) = r
      BY <1>2, <2>1, OneFileTwice
    <3> QED BY <1>4, <1>8, <3>1
  <2>4. /\ r \in Seq(FileSet) /\ (Distinct(files) => Distinct(r))
        /\ ToSet(r) = {x \in ToSet(files) : x.path # g.path} \cup {g}
        /\ Paths(r) = Paths(files) \cup {g.path}
    BY <1>2, <2>1, UniqueFile
  <2> QED BY <1>3, <1>8, <2>2, <2>3, <2>4
<1>9. CASE p.proxy # "nil" /\ p.registries # {}
  <2>1. PICK a : a = appendUniqueFile(files, f)
    OBVIOUS
  <2>2. PICK r : r = appendUniqueFile(a, g)
    OBVIOUS
  <2>3. EnsureAdditionalFiles(files, p) = r /\ WantedOf(p) = {f, g}
    BY <1>4, <1>5, <1>9, <2>1, <2>2
  <2>4. EnsureAdditionalFiles(r, p) = r
    <3>1. appendUniqueFile(appendUniqueFile(r, f), g) = r
      BY <1>1, <1>2, <1>3, <1>9, <2>1, <2>2, TwoFilesTwice
    <3> QED BY <1>4, <1>9, <3>1
  <2>5. /\ a \in Seq(FileSet) /\ (Distinct(files) => Distinct(a))
        /\ ToSet(a) = {x \in ToSet(files) : x.path # f.path} \cup {f}
        /\ Paths(a) = Paths(files) \cup {f.path}
    BY <1>1, <1>9, <2>1, UniqueFile
  <2>6. /\ r \in Seq(FileSet) /\ (Distinct(a) => Distinct(r))
        /\ ToSet(r) = {x \in ToSet(a) : x.path # g.path} \cup {g}
        /\ Paths(r) = Paths(a) \cup {g.path}
    BY <1>2, <2>2, <2>5, UniqueFile
  <2> QED BY <1>3, <1>9, <2>3, <2>4, <2>5, <2>6
<1> QED BY <1>6, <1>7, <1>8, <1>9

\* What EnsureAdditionalUnits does.
LEMMA AdditionalUnits ==
  ASSUME NEW p \in Profiles, NEW units \in Seq(UnitSet)
  PROVE  LET r == EnsureAdditionalUnits(units, p)
             unit == "merge-docker-json.service"
         IN
         /\ r \in Seq(UnitSet)
         /\ ToSet(r) = IF p.registries = {} THEN ToSet(units) ELSE ToSet(units) \cup {unit}
         /\ IsInjective(units) => IsInjective(r)
         /\ EnsureAdditionalUnits(r, p) = r
<1> DEFINE unit == "merge-docker-json.service"
<1>1. CASE p.registries = {} \/ unit \in ToSet(units)
  <2>1. EnsureAdditionalUnits(units, p) = units
    BY <1>1 DEF EnsureAdditionalUnits, AppendUniqueUnit
  <2> QED BY <1>1, <2>1
<1>2. CASE p.registries # {} /\ unit \notin ToSet(units)
  <2>1. EnsureAdditionalUnits(units, p) = Append(units, unit)
    BY <1>2 DEF EnsureAdditionalUnits, AppendUniqueUnit
  <2>2. PICK r \in Seq(UnitSet) : r = Append(units, unit)
    <3>1. unit \in UnitSet
      BY DEF UnitSet
    <3> HIDE DEF unit
    <3> QED BY <3>1, OneMore
  <2>3. ToSet(r) = ToSet(units) \cup {unit}
    BY <2>2, ElementsAppend
  <2>4. EnsureAdditionalUnits(r, p) = r
    BY <1>2, <2>3 DEF EnsureAdditionalUnits, AppendUniqueUnit
  <2>5. ASSUME IsInjective(units) PROVE IsInjective(r)
    <3>1. PICK n \in Nat : n = Len(units)
      OBVIOUS
    <3>2. DOMAIN units = 1..n /\ DOMAIN r = 1..n \cup {n + 1}
      BY <2>2, <3>1
    <3>3. r[n + 1] = unit /\ \A i \in 1..n : r[i] = units[i] /\ units[i] # unit
      <4>1. \A i \in 1..n : units[i] \in ToSet(units)
        BY <3>1, Elements
      <4> QED BY <1>2, <2>2, <3>1, <4>1
    <3> QED BY <2>5, <3>2, <3>3 DEF IsInjective
  <2> QED BY <1>2, <2>1, <2>2, <2>3, <2>4, <2>5
<1> QED BY <1>1, <1>2

-----------------------------------------------------------------------------
(* Command lines.                                                          *)

IsCommand(c) == c = [f \in DOMAIN c |-> c[f]]

\* The API server's command line: mutated twice, it stays, and it keeps what is
\* neither the plugin nor the gate that is removed.
LEMMA APIServerArgs ==
  ASSUME NEW c, IsCommand(c)
  PROVE  LET d == ensureKubeAPIServerCommandLineArgs(c) IN
         /\ IsCommand(d)
         /\ ensureKubeAPIServerCommandLineArgs(d) = d
         /\ \A f \in DOMAIN c : f \in DOMAIN d /\ c[f] \cap {"Other"} \subseteq d[f]
<1> DEFINE gone == {"CSINodeInfo=false", "CSIDriverRegistry=false"}
           plugin == "PersistentVolumeLabel"
           Value(x, f) == IF f = "disable"
                          THEN {plugin} \cup IF f \in DOMAIN x THEN x[f] ELSE {}
                          ELSE IF f = "enable" THEN x[f] \ {plugin}
                          ELSE IF f = "gates" THEN (x[f] \ {"CSINodeInfo=false"}) \ {"CSIDriverRegistry=false"}
                          ELSE x[f]
<1>1. ASSUME NEW x
      PROVE  /\ DOMAIN ensureKubeAPIServerCommandLineArgs(x) = DOMAIN x \cup {"disable"}
             /\ \A f \in DOMAIN x \cup {"disable"} :
                  ensureKubeAPIServerCommandLineArgs(x)[f] = Value(x, f)
             /\ IsCommand(ensureKubeAPIServerCommandLineArgs(x))
  <2> DEFINE a == EnsureNotContains(x, "enable", plugin)
             b == EnsureContains(a, "disable", plugin)
             g == EnsureNotContains(b, "gates", "CSINodeInfo=false")
             h == EnsureNotContains(g, "gates", "CSIDriverRegistry=false")
  <2>1. /\ DOMAIN a = DOMAIN x
        /\ \A f \in DOMAIN x : a[f] = IF f = "enable" THEN x[f] \ {plugin} ELSE x[f]
    BY DEF EnsureNotContains
  <2>2. /\ DOMAIN b = DOMAIN a \cup {"disable"}
        /\ \A f \in DOMAIN b : b[f] = IF f # "disable" THEN a[f]
                                      ELSE {plugin} \cup IF f \in DOMAIN a THEN a[f] ELSE {}
    <3> HIDE DEF a
    <3> QED BY DEF EnsureContains
  <2>3. /\ DOMAIN g = DOMAIN b
        /\ \A f \in DOMAIN b : g[f] = IF f = "gates" THEN b[f] \ {"CSINodeInfo=false"} ELSE b[f]
    <3> HIDE DEF b
    <3> QED BY DEF EnsureNotContains
  <2>4. /\ DOMAIN h = DOMAIN g
        /\ \A f \in DOMAIN g : h[f] = IF f = "gates" THEN g[f] \ {"CSIDriverRegistry=false"} ELSE g[f]
        /\ h = [f \in DOMAIN g |-> h[f]]
    <3> HIDE DEF g
    <3> QED BY DEF EnsureNotContains
  <2>5. ensureKubeAPIServerCommandLineArgs(x) = h
    BY DEF ensureKubeAPIServerCommandLineArgs
  <2> HIDE DEF a, b, g, h
  <2>6. \A f \in DOMAIN x \cup {"disable"} : h[f] = Value(x, f)
    BY <2>1, <2>2, <2>3, <2>4
  <2> QED BY <2>1, <2>2, <2>3, <2>4, <2>5, <2>6 DEF IsCommand
<1>2. PICK d : d = ensureKubeAPIServerCommandLineArgs(c)
  OBVIOUS
<1>3. PICK e : e = ensureKubeAPIServerCommandLineArgs(d)
  OBVIOUS
<1>4. /\ DOMAIN d = DOMAIN c \cup {"disable"} /\ IsCommand(d)
      /\ \A f \in DOMAIN d : d[f] = Value(c, f)
  BY <1>1, <1>2
<1>5. /\ DOMAIN e = DOMAIN d \cup {"disable"} /\ IsCommand(e)
      /\ \A f \in DOMAIN d \cup {"disable"} : e[f] = Value(d, f)
  BY <1>1, <1>3
<1>6. DOMAIN e = DOMAIN d /\ \A f \in DOMAIN d : e[f] = d[f]
  <2>1. DOMAIN e = DOMAIN d
    BY <1>4, <1>5
  <2>2. ASSUME NEW f \in DOMAIN d PROVE e[f] = d[f]
    <3>1. e[f] = Value(d, f) /\ d[f] = Value(c, f)
      BY <1>4, <1>5
    <3>2. CASE f = "disable"
      <4>1. PICK v : d[f] = {plugin} \cup v
        BY <3>1, <3>2
      <4> QED BY <3>1, <3>2, <4>1
    <3>3. CASE f = "enable"
      BY <3>1, <3>3
    <3>4. CASE f = "gates"
      BY <3>1, <3>4
    <3>5. CASE f \notin {"disable", "enable", "gates"}
      BY <3>1, <3>5
    <3> QED BY <3>2, <3>3, <3>4, <3>5
  <2> QED BY <2>1, <2>2
<1>7. e = d
  BY <1>4, <1>5, <1>6 DEF IsCommand
<1>8. ASSUME NEW f \in DOMAIN c PROVE f \in DOMAIN d /\ c[f] \cap {"Other"} \subseteq d[f]
  <2>1. f \in DOMAIN d /\ d[f] = Value(c, f)
    BY <1>4
  <2>2. "Other" # plugin /\ "Other" \notin gone
    OBVIOUS
  <2> QED BY <2>1, <2>2
<1> QED BY <1>2, <1>3, <1>4, <1>7, <1>8

\* The metrics server's command line.
LEMMA MetricsServerArgs ==
  ASSUME NEW c, IsCommand(c)
  PROVE  LET d == EnsureIs(c, "addresses", "InternalIP") IN
         IsCommand(d) /\ EnsureIs(d, "addresses", "InternalIP") = d
<1> DEFINE d == EnsureIs(c, "addresses", "InternalIP")
           e == EnsureIs(d, "addresses", "InternalIP")
<1>1. /\ DOMAIN d = DOMAIN c \cup {"addresses"} /\ d["addresses"] = {"InternalIP"}
      /\ d = [f \in DOMAIN d |-> d[f]]
  BY DEF EnsureIs
<1>2. /\ e = [f \in DOMAIN d \cup {"addresses"} |-> IF f = "addresses" THEN {"InternalIP"} ELSE d[f]]
  <2> HIDE DEF d
  <2> QED BY DEF EnsureIs
<1> HIDE DEF d, e
<1>3. e = d
  BY <1>1, <1>2
<1> QED BY <1>1, <1>3 DEF IsCommand, d, e

-----------------------------------------------------------------------------
(* Objects.                                                                *)

Script == "merge-docker-json.sh"
Unit   == "merge-docker-json.service"

OSConfig(o) ==
  /\ o = [deleting |-> o.deleting, purpose |-> o.purpose, kubelet |-> o.kubelet,
          gates |-> o.gates, files |-> o.files, units |-> o.units]
  /\ DOMAIN o.kubelet = {"cloudProvider", "setsHostname"}
  /\ o.kubelet = [f \in DOMAIN o.kubelet |-> o.kubelet[f]]
  /\ o.files \in Seq(FileSet) /\ Distinct(o.files)
  /\ o.units \in Seq(UnitSet) /\ IsInjective(o.units)
  /\ Unit \in ToSet(o.units) <=> Script \in Paths(o.files)

APIServer(o) ==
  /\ o = [deleting |-> o.deleting, named |-> o.named, labels |-> o.labels,
          command |-> o.command]
  /\ IsCommand(o.command)

MetricsServer(o) ==
  /\ o = [deleting |-> o.deleting, named |-> o.named, command |-> o.command]
  /\ IsCommand(o.command)

Special == {"osc", "kube-apiserver", "kcm", "mcm", "mcm-vpa", "metrics-server"}

\* An object of kind k as the owner, the webhooks and the API server leave it.
Shape(k, o) ==
  /\ k = "osc" => OSConfig(o)
  /\ k = "kube-apiserver" => APIServer(o)
  /\ k = "kcm" => o = [deleting |-> o.deleting, labels |-> o.labels]
  /\ k = "mcm" => o = [deleting |-> o.deleting, containers |-> o.containers]
  /\ k = "mcm-vpa" => o = [deleting |-> o.deleting, policies |-> o.policies]
  /\ k = "metrics-server" => MetricsServer(o)
  /\ k \notin Special => o = [deleting |-> o.deleting, capacity |-> o.capacity,
                              class |-> o.class]

\* The kubelet's options.
LEMMA KubeletOptions ==
  ASSUME NEW k, DOMAIN k = {"cloudProvider", "setsHostname"}, k = [f \in DOMAIN k |-> k[f]]
  PROVE  LET m == EnsureKubeletServiceUnitOptions(k) IN
         /\ DOMAIN m = DOMAIN k /\ m = [f \in DOMAIN m |-> m[f]]
         /\ EnsureKubeletServiceUnitOptions(m) = m
<1> DEFINE m == EnsureKubeletServiceUnitOptions(k)
           n == EnsureKubeletServiceUnitOptions(m)
<1>1. /\ DOMAIN m = DOMAIN k /\ m = [f \in DOMAIN m |-> m[f]]
      /\ m["cloudProvider"] = "external" /\ m["setsHostname"] = TRUE
  BY DEF EnsureKubeletServiceUnitOptions
<1> HIDE DEF m
<1>2. /\ DOMAIN n = DOMAIN m /\ n = [f \in DOMAIN n |-> n[f]]
      /\ n["cloudProvider"] = "external" /\ n["setsHostname"] = TRUE
  BY <1>1 DEF EnsureKubeletServiceUnitOptions
<1> HIDE DEF n
<1>3. \A f \in DOMAIN m : n[f] = m[f]
  BY <1>1, <1>2
<1>4. n = m
  BY <1>1, <1>2, <1>3
<1> QED BY <1>1, <1>4 DEF m, n

\* The record that is made of an operating system config.
LEMMA ConfigRecord ==
  ASSUME NEW o, OSConfig(o), o.purpose = "reconcile"
  PROVE  LET m == EnsureOperatingSystemConfig(o) IN
         /\ m = [deleting |-> m.deleting, purpose |-> m.purpose, kubelet |-> m.kubelet,
                 gates |-> m.gates, files |-> m.files, units |-> m.units]
         /\ m.deleting = o.deleting /\ m.purpose = o.purpose
         /\ m.kubelet = EnsureKubeletServiceUnitOptions(o.kubelet)
         /\ m.gates = EnsureKubeletConfiguration(o.gates)
         /\ m.files = EnsureAdditionalFiles(o.files, profile)
         /\ m.units = EnsureAdditionalUnits(o.units, profile)
<1> DEFINE a == EnsureKubeletServiceUnitOptions(o.kubelet)
           b == EnsureKubeletConfiguration(o.gates)
           c == EnsureAdditionalFiles(o.files, profile)
           d == EnsureAdditionalUnits(o.units, profile)
           m == [o EXCEPT !.kubelet = a, !.gates = b, !.files = c, !.units = d]
<1>1. EnsureOperatingSystemConfig(o) = m
  BY DEF EnsureOperatingSystemConfig
<1> HIDE DEF a, b, c, d
<1>2. o = [deleting |-> o.deleting, purpose |-> o.purpose, kubelet |-> o.kubelet,
           gates |-> o.gates, files |-> o.files, units |-> o.units]
  BY DEF OSConfig
<1>3. DOMAIN m = {"deleting", "purpose", "kubelet", "gates", "files", "units"}
  BY <1>2
<1>4. /\ m.deleting = o.deleting /\ m.purpose = o.purpose /\ m.kubelet = a
      /\ m.gates = b /\ m.files = c /\ m.units = d
  BY <1>2
<1>5. m = [f \in DOMAIN m |-> m[f]]
  BY <1>2
<1> HIDE DEF m
<1>6. m = [deleting |-> m.deleting, purpose |-> m.purpose, kubelet |-> m.kubelet,
           gates |-> m.gates, files |-> m.files, units |-> m.units]
  BY <1>3, <1>5
<1> QED BY <1>1, <1>4, <1>6 DEF a, b, c, d

\* A config is one again, twice is once, and it has what it should have.
LEMMA ConfigMutated ==
  ASSUME profile \in Profiles, NEW o, OSConfig(o), o.purpose = "reconcile"
  PROVE  LET m == EnsureOperatingSystemConfig(o) IN
         /\ OSConfig(m) /\ m.purpose = "reconcile"
         /\ EnsureOperatingSystemConfig(m) = m
         /\ Wanted \subseteq ToSet(m.files)
         /\ {f \in ToSet(o.files) : f.path \in {"kubelet-config", "other"}}
               \subseteq ToSet(m.files)
         /\ ToSet(o.units) \subseteq ToSet(m.units)
<1>1. PICK m : m = EnsureOperatingSystemConfig(o)
  OBVIOUS
<1>2. /\ m = [deleting |-> m.deleting, purpose |-> m.purpose, kubelet |-> m.kubelet,
              gates |-> m.gates, files |-> m.files, units |-> m.units]
      /\ m.deleting = o.deleting /\ m.purpose = o.purpose
      /\ m.kubelet = EnsureKubeletServiceUnitOptions(o.kubelet)
      /\ m.gates = EnsureKubeletConfiguration(o.gates)
      /\ m.files = EnsureAdditionalFiles(o.files, profile)
      /\ m.units = EnsureAdditionalUnits(o.units, profile)
  BY <1>1, ConfigRecord
<1>3. /\ DOMAIN m.kubelet = {"cloudProvider", "setsHostname"}
      /\ m.kubelet = [f \in DOMAIN m.kubelet |-> m.kubelet[f]]
      /\ EnsureKubeletServiceUnitOptions(m.kubelet) = m.kubelet
  BY <1>2, KubeletOptions DEF OSConfig
<1>4. EnsureKubeletConfiguration(m.gates) = m.gates
  BY <1>2 DEF EnsureKubeletConfiguration
<1>5. /\ m.files \in Seq(FileSet) /\ Distinct(m.files)
      /\ WantedOf(profile) \subseteq ToSet(m.files)
      /\ {f \in ToSet(o.files) : f.path \notin {"http-proxy.conf", "merge-docker-json.sh"}}
            \subseteq ToSet(m.files)
      /\ Script \in Paths(m.files) <=> profile.registries # {} \/ Script \in Paths(o.files)
      /\ EnsureAdditionalFiles(m.files, profile) = m.files
  BY <1>2, AdditionalFiles DEF OSConfig, Script
<1>6. /\ m.units \in Seq(UnitSet) /\ IsInjective(m.units)
      /\ ToSet(m.units) = IF profile.registries = {} THEN ToSet(o.units)
                          ELSE ToSet(o.units) \cup {Unit}
      /\ EnsureAdditionalUnits(m.units, profile) = m.units
  BY <1>2, AdditionalUnits DEF OSConfig, Unit
<1>7. OSConfig(m)
  <2>1. Unit \in ToSet(m.units) <=> Script \in Paths(m.files)
    BY <1>5, <1>6 DEF OSConfig
  <2> QED BY <1>2, <1>3, <1>5, <1>6, <2>1 DEF OSConfig
<1>8. EnsureOperatingSystemConfig(m) = m
  <2>1. PICK n : n = EnsureOperatingSystemConfig(m)
    OBVIOUS
  <2>2. /\ n = [deleting |-> n.deleting, purpose |-> n.purpose, kubelet |-> n.kubelet,
                gates |-> n.gates, files |-> n.files, units |-> n.units]
        /\ n.deleting = m.deleting /\ n.purpose = m.purpose
        /\ n.kubelet = m.kubelet /\ n.gates = m.gates
        /\ n.files = m.files /\ n.units = m.units
    BY <1>2, <1>3, <1>4, <1>5, <1>6, <1>7, <2>1, ConfigRecord
  <2>3. n = m
    BY <1>2, <2>2, Zenon
  <2> QED BY <2>1, <2>3
<1>9. Wanted = WantedOf(profile)
  BY DEF Wanted, WantedOf
<1> QED BY <1>1, <1>2, <1>5, <1>6, <1>7, <1>8, <1>9

\* The API server's deployment.
LEMMA APIServerMutated ==
  ASSUME NEW o, APIServer(o)
  PROVE  LET m == EnsureKubeAPIServerDeployment(o) IN
         /\ APIServer(m) /\ EnsureKubeAPIServerDeployment(m) = m
         /\ \A f \in DOMAIN o.command :
              o.command[f] \cap {"Other"} \subseteq m.command[f]
<1>1. ASSUME NEW x, APIServer(x)
      PROVE  LET m == EnsureKubeAPIServerDeployment(x) IN
             /\ m = [deleting |-> m.deleting, named |-> m.named, labels |-> m.labels,
                     command |-> m.command]
             /\ m.deleting = x.deleting /\ m.named = x.named
             /\ m.labels = x.labels \cup {"to-csi-snapshot-validation"}
             /\ x.named => m.command = ensureKubeAPIServerCommandLineArgs(x.command)
             /\ ~x.named => m.command = x.command
  <2> DEFINE l == x.labels \cup {"to-csi-snapshot-validation"}
             c == IF x.named THEN ensureKubeAPIServerCommandLineArgs(x.command)
                  ELSE x.command
             m == [x EXCEPT !.labels = l, !.command = c]
  <2>1. EnsureKubeAPIServerDeployment(x) = m
    BY DEF EnsureKubeAPIServerDeployment
  <2>2. /\ x.named => c = ensureKubeAPIServerCommandLineArgs(x.command)
        /\ ~x.named => c = x.command
    OBVIOUS
  <2> HIDE DEF l, c
  <2>3. DOMAIN x = {"deleting", "named", "labels", "command"}
    BY <1>1 DEF APIServer
  <2>4. /\ DOMAIN m = {"deleting", "named", "labels", "command"}
        /\ m = [f \in DOMAIN m |-> m[f]]
        /\ m.deleting = x.deleting /\ m.named = x.named /\ m.labels = l /\ m.command = c
    BY <2>3
  <2> HIDE DEF m
  <2>5. m = [deleting |-> m.deleting, named |-> m.named, labels |-> m.labels,
             command |-> m.command]
    BY <2>4
  <2> QED BY <2>1, <2>2, <2>4, <2>5 DEF l
<1>2. PICK m : m = EnsureKubeAPIServerDeployment(o)
  OBVIOUS
<1>3. PICK n : n = EnsureKubeAPIServerDeployment(m)
  OBVIOUS
<1>4. IsCommand(o.command)
  BY DEF APIServer
<1>5. APIServer(m)
  <2>1. CASE o.named
    BY <1>1, <1>2, <1>4, <2>1, APIServerArgs DEF APIServer
  <2>2. CASE ~o.named
    BY <1>1, <1>2, <1>4, <2>2 DEF APIServer
  <2> QED BY <2>1, <2>2
<1>6. n = m
  <2>1. n.command = m.command
    <3>1. CASE o.named
      <4>1. m.named
        BY <1>1, <1>2, <3>1
      <4>2. m.command = ensureKubeAPIServerCommandLineArgs(o.command)
        BY <1>1, <1>2, <3>1
      <4>3. n.command = ensureKubeAPIServerCommandLineArgs(m.command)
        BY <1>1, <1>3, <1>5, <4>1
      <4> QED BY <1>4, <4>2, <4>3, APIServerArgs
    <3>2. CASE ~o.named
      <4>1. ~m.named
        BY <1>1, <1>2, <3>2
      <4> QED BY <1>1, <1>3, <1>5, <4>1
    <3> QED BY <3>1, <3>2
  <2>2. n.deleting = m.deleting /\ n.named = m.named
    BY <1>1, <1>3, <1>5
  <2>3. n.labels = m.labels
    <3>1. /\ n.labels = m.labels \cup {"to-csi-snapshot-validation"}
          /\ m.labels = o.labels \cup {"to-csi-snapshot-validation"}
      BY <1>1, <1>2, <1>3, <1>5
    <3> QED BY <3>1
  <2>4. /\ n = [deleting |-> n.deleting, named |-> n.named, labels |-> n.labels,
                command |-> n.command]
        /\ m = [deleting |-> m.deleting, named |-> m.named, labels |-> m.labels,
                command |-> m.command]
    BY <1>1, <1>2, <1>3, <1>5
  <2> QED BY <2>1, <2>2, <2>3, <2>4, Zenon
<1>7. ASSUME NEW f \in DOMAIN o.command
      PROVE  o.command[f] \cap {"Other"} \subseteq m.command[f]
  <2>1. CASE o.named
    <3>1. m.command = ensureKubeAPIServerCommandLineArgs(o.command)
      BY <1>1, <1>2, <2>1
    <3> QED BY <1>4, <3>1, APIServerArgs
  <2>2. CASE ~o.named
    <3>1. m.command = o.command
      BY <1>1, <1>2, <2>2
    <3> QED BY <3>1
  <2> QED BY <2>1, <2>2
<1> QED BY <1>2, <1>3, <1>5, <1>6, <1>7

\* The metrics server's deployment.
LEMMA MetricsServerMutated ==
  ASSUME NEW o, MetricsServer(o)
  PROVE  LET m == mutateMetricsServerDeployment(o) IN
         MetricsServer(m) /\ mutateMetricsServerDeployment(m) = m
<1>1. CASE ~o.named
  BY <1>1 DEF mutateMetricsServerDeployment
<1>2. CASE o.named
  <2>1. ASSUME NEW x, MetricsServer(x), x.named
        PROVE  LET m == mutateMetricsServerDeployment(x) IN
               /\ m = [deleting |-> m.deleting, named |-> m.named, command |-> m.command]
               /\ m.deleting = x.deleting /\ m.named = x.named
               /\ m.command = EnsureIs(x.command, "addresses", "InternalIP")
    <3> DEFINE c == EnsureIs(x.command, "addresses", "InternalIP")
               m == [x EXCEPT !.command = c]
    <3>1. mutateMetricsServerDeployment(x) = m
      BY <2>1 DEF mutateMetricsServerDeployment
    <3> HIDE DEF c
    <3>2. DOMAIN x = {"deleting", "named", "command"}
      BY <2>1 DEF MetricsServer
    <3>3. /\ DOMAIN m = {"deleting", "named", "command"} /\ m = [f \in DOMAIN m |-> m[f]]
          /\ m.deleting = x.deleting /\ m.named = x.named /\ m.command = c
      BY <3>2
    <3> HIDE DEF m
    <3>4. m = [deleting |-> m.deleting, named |-> m.named, command |-> m.command]
      BY <3>3
    <3> QED BY <3>1, <3>3, <3>4 DEF c
  <2>2. PICK m : m = mutateMetricsServerDeployment(o)
    OBVIOUS
  <2>3. PICK n : n = mutateMetricsServerDeployment(m)
    OBVIOUS
  <2>4. m.named
    BY <1>2, <2>1, <2>2
  <2>5. MetricsServer(m)
    BY <1>2, <2>1, <2>2, MetricsServerArgs DEF MetricsServer
  <2>6. n.command = m.command /\ n.deleting = m.deleting /\ n.named = m.named
    <3>1. m.command = EnsureIs(o.command, "addresses", "InternalIP")
      BY <1>2, <2>1, <2>2
    <3>2. n.command = EnsureIs(m.command, "addresses", "InternalIP")
      BY <2>1, <2>3, <2>4, <2>5
    <3>3. n.command = m.command
      BY <3>1, <3>2, MetricsServerArgs DEF MetricsServer
    <3> QED BY <2>1, <2>3, <2>4, <2>5, <3>3
  <2>7. /\ n = [deleting |-> n.deleting, named |-> n.named, command |-> n.command]
        /\ m = [deleting |-> m.deleting, named |-> m.named, command |-> m.command]
    BY <1>2, <2>1, <2>2, <2>3, <2>4, <2>5
  <2>8. n = m
    BY <2>6, <2>7, Zenon
  <2> QED BY <2>2, <2>3, <2>5, <2>8
<1> QED BY <1>1, <1>2

\* The deployments and the autoscaler that only get names added.
LEMMA NamesAdded ==
  /\ \A o : o = [deleting |-> o.deleting, labels |-> o.labels] =>
       LET m == EnsureKubeControllerManagerDeployment(o) IN
       /\ m = [deleting |-> m.deleting, labels |-> m.labels]
       /\ EnsureKubeControllerManagerDeployment(m) = m
  /\ \A o : o = [deleting |-> o.deleting, containers |-> o.containers] =>
       LET m == EnsureMachineControllerManagerDeployment(o) IN
       /\ m = [deleting |-> m.deleting, containers |-> m.containers]
       /\ EnsureMachineControllerManagerDeployment(m) = m
  /\ \A o : o = [deleting |-> o.deleting, policies |-> o.policies] =>
       LET m == EnsureMachineControllerManagerVPA(o) IN
       /\ m = [deleting |-> m.deleting, policies |-> m.policies]
       /\ EnsureMachineControllerManagerVPA(m) = m
<1>1. ASSUME NEW o, o = [deleting |-> o.deleting, labels |-> o.labels]
      PROVE  LET m == EnsureKubeControllerManagerDeployment(o) IN
             /\ m = [deleting |-> m.deleting, labels |-> m.labels]
             /\ EnsureKubeControllerManagerDeployment(m) = m
  <2> DEFINE Add(s) == (s \ {"to-blocked-cidrs"}) \cup {"to-public-networks", "to-private-networks"}
  <2>1. \A d, s : LET x == [deleting |-> d, labels |-> s] IN
                  EnsureKubeControllerManagerDeployment(x) = [deleting |-> d, labels |-> Add(s)]
    BY DEF EnsureKubeControllerManagerDeployment
  <2>2. \A s : Add(Add(s)) = Add(s)
    OBVIOUS
  <2> HIDE DEF Add
  <2>3. PICK d, s : o = [deleting |-> d, labels |-> s]
    BY <1>1
  <2>4. EnsureKubeControllerManagerDeployment(o) = [deleting |-> d, labels |-> Add(s)]
    BY <2>1, <2>3
  <2>5. EnsureKubeControllerManagerDeployment([deleting |-> d, labels |-> Add(s)])
          = [deleting |-> d, labels |-> Add(s)]
    BY <2>1, <2>2
  <2> QED BY <2>4, <2>5
<1>2. ASSUME NEW o, o = [deleting |-> o.deleting, containers |-> o.containers]
      PROVE  LET m == EnsureMachineControllerManagerDeployment(o) IN
             /\ m = [deleting |-> m.deleting, containers |-> m.containers]
             /\ EnsureMachineControllerManagerDeployment(m) = m
  <2> DEFINE Add(s) == s \cup {"machine-controller-manager-vsphere"}
  <2>1. GardenletManagesMCM =>
          \A d, s : LET x == [deleting |-> d, containers |-> s] IN
                    EnsureMachineControllerManagerDeployment(x)
                      = [deleting |-> d, containers |-> Add(s)]
    BY DEF EnsureMachineControllerManagerDeployment
  <2>2. \A s : Add(Add(s)) = Add(s)
    OBVIOUS
  <2>3. ~GardenletManagesMCM => \A x : EnsureMachineControllerManagerDeployment(x) = x
    BY DEF EnsureMachineControllerManagerDeployment
  <2> HIDE DEF Add
  <2>4. PICK d, s : o = [deleting |-> d, containers |-> s]
    BY <1>2
  <2>5. GardenletManagesMCM =>
          /\ EnsureMachineControllerManagerDeployment(o) = [deleting |-> d, containers |-> Add(s)]
          /\ EnsureMachineControllerManagerDeployment([deleting |-> d, containers |-> Add(s)])
               = [deleting |-> d, containers |-> Add(s)]
    BY <2>1, <2>2, <2>4
  <2>6. CASE GardenletManagesMCM
    BY <2>5, <2>6
  <2>7. CASE ~GardenletManagesMCM
    BY <1>2, <2>3, <2>7
  <2> QED BY <2>6, <2>7
<1>3. ASSUME NEW o, o = [deleting |-> o.deleting, policies |-> o.policies]
      PROVE  LET m == EnsureMachineControllerManagerVPA(o) IN
             /\ m = [deleting |-> m.deleting, policies |-> m.policies]
             /\ EnsureMachineControllerManagerVPA(m) = m
  <2> DEFINE Add(s) == s \cup {"machine-controller-manager-vsphere"}
  <2>1. GardenletManagesMCM =>
          \A d, s : LET x == [deleting |-> d, policies |-> s] IN
                    EnsureMachineControllerManagerVPA(x) = [deleting |-> d, policies |-> Add(s)]
    BY DEF EnsureMachineControllerManagerVPA
  <2>2. \A s : Add(Add(s)) = Add(s)
    OBVIOUS
  <2>3. ~GardenletManagesMCM => \A x : EnsureMachineControllerManagerVPA(x) = x
    BY DEF EnsureMachineControllerManagerVPA
  <2> HIDE DEF Add
  <2>4. PICK d, s : o = [deleting |-> d, policies |-> s]
    BY <1>3
  <2>5. GardenletManagesMCM =>
          /\ EnsureMachineControllerManagerVPA(o) = [deleting |-> d, policies |-> Add(s)]
          /\ EnsureMachineControllerManagerVPA([deleting |-> d, policies |-> Add(s)])
               = [deleting |-> d, policies |-> Add(s)]
    BY <2>1, <2>2, <2>4
  <2>6. CASE GardenletManagesMCM
    BY <2>5, <2>6
  <2>7. CASE ~GardenletManagesMCM
    BY <1>3, <2>3, <2>7
  <2> QED BY <2>6, <2>7
<1> QED BY <1>1, <1>2, <1>3

\* The storage of etcd.
LEMMA StorageSet ==
  \A o : o = [deleting |-> o.deleting, capacity |-> o.capacity, class |-> o.class] =>
    LET m == EnsureETCD(o) IN
    /\ m = [deleting |-> m.deleting, capacity |-> m.capacity, class |-> m.class]
    /\ EnsureETCD(m) = m
<1>1. PICK a, b : \A o : EnsureETCD(o) = [o EXCEPT !.capacity = a, !.class = b]
  BY DEF EnsureETCD
<1>2. \A d, x, y : EnsureETCD([deleting |-> d, capacity |-> x, class |-> y])
                     = [deleting |-> d, capacity |-> a, class |-> b]
  BY <1>1
<1>3. ASSUME NEW o, o = [deleting |-> o.deleting, capacity |-> o.capacity, class |-> o.class]
      PROVE  LET m == EnsureETCD(o) IN
             /\ m = [deleting |-> m.deleting, capacity |-> m.capacity, class |-> m.class]
             /\ EnsureETCD(m) = m
  <2>1. PICK d : d = o.deleting
    OBVIOUS
  <2>2. EnsureETCD(o) = [deleting |-> d, capacity |-> a, class |-> b]
    BY <1>2, <1>3, <2>1
  <2>3. EnsureETCD([deleting |-> d, capacity |-> a, class |-> b])
          = [deleting |-> d, capacity |-> a, class |-> b]
    BY <1>2
  <2> QED BY <2>2, <2>3
<1> QED BY <1>3

-----------------------------------------------------------------------------
(* The invariant.                                                          *)

WInv ==
  /\ profile \in Profiles
  /\ Exists => Shape(kind, obj)

\* The webhook, for every kind.
LEMMA Mutated ==
  ASSUME profile \in Profiles, NEW o, Shape(kind, o)
  PROVE  Shape(kind, Mutate(o)) /\ Mutate(Mutate(o)) = Mutate(o)
<1>1. ASSUME kind \notin Registered \/ o.deleting
      PROVE  Mutate(o) = o
  BY <1>1 DEF Mutate
<1>2. CASE kind \notin Registered \/ o.deleting
  BY <1>1, <1>2
<1>3. CASE kind \in Registered /\ ~o.deleting
  <2>1. ASSUME NEW x
        PROVE  \/ Mutate(x) = x
               \/ kind = "osc" /\ Mutate(x) = EnsureOperatingSystemConfig(x)
               \/ kind = "kube-apiserver" /\ Mutate(x) = EnsureKubeAPIServerDeployment(x)
               \/ kind = "kcm" /\ Mutate(x) = EnsureKubeControllerManagerDeployment(x)
               \/ kind = "mcm" /\ Mutate(x) = EnsureMachineControllerManagerDeployment(x)
               \/ kind = "mcm-vpa" /\ Mutate(x) = EnsureMachineControllerManagerVPA(x)
               \/ kind = "metrics-server" /\ Mutate(x) = mutateMetricsServerDeployment(x)
               \/ kind \notin Special /\ Mutate(x) = EnsureETCD(x)
    BY DEF Mutate, Special
  <2>2. CASE kind = "osc"
    <3>1. OSConfig(o)
      BY <2>2 DEF Shape
    <3>2. \A x : Mutate(x) = x \/ Mutate(x) = EnsureOperatingSystemConfig(x)
      BY <2>1, <2>2 DEF Special
    <3>3. CASE o.purpose # "reconcile"
      <4>1. EnsureOperatingSystemConfig(o) = o
        BY <3>3 DEF EnsureOperatingSystemConfig
      <4> QED BY <3>2, <4>1
    <3>4. CASE o.purpose = "reconcile"
      <4>1. PICK m : m = EnsureOperatingSystemConfig(o)
        OBVIOUS
      <4>2. OSConfig(m) /\ EnsureOperatingSystemConfig(m) = m
        BY <3>1, <3>4, <4>1, ConfigMutated
      <4>3. Mutate(o) \in {o, m} /\ Mutate(m) = m
        BY <3>2, <4>1, <4>2
      <4>4. Shape(kind, m)
        BY <2>2, <4>2 DEF Shape, Special
      <4> QED BY <4>3, <4>4
    <3> QED BY <3>3, <3>4
  <2>3. CASE kind = "kube-apiserver"
    <3>1. PICK m : m = EnsureKubeAPIServerDeployment(o)
      OBVIOUS
    <3>2. APIServer(m) /\ EnsureKubeAPIServerDeployment(m) = m
      BY <2>3, <3>1, APIServerMutated DEF Shape
    <3>3. \A x : Mutate(x) = x \/ Mutate(x) = EnsureKubeAPIServerDeployment(x)
      BY <2>1, <2>3 DEF Special
    <3>4. Mutate(o) \in {o, m} /\ Mutate(m) = m
      BY <3>1, <3>2, <3>3
    <3>5. Shape(kind, m)
      BY <2>3, <3>2 DEF Shape, Special
    <3> QED BY <3>4, <3>5
  <2>4. CASE kind = "kcm"
    <3>1. PICK m : m = EnsureKubeControllerManagerDeployment(o)
      OBVIOUS
    <3>2. /\ m = [deleting |-> m.deleting, labels |-> m.labels]
          /\ EnsureKubeControllerManagerDeployment(m) = m
      BY <2>4, <3>1, NamesAdded DEF Shape
    <3>3. \A x : Mutate(x) = x \/ Mutate(x) = EnsureKubeControllerManagerDeployment(x)
      BY <2>1, <2>4 DEF Special
    <3>4. Mutate(o) \in {o, m} /\ Mutate(m) = m
      BY <3>1, <3>2, <3>3
    <3>5. Shape(kind, m)
      BY <2>4, <3>2 DEF Shape, Special
    <3> QED BY <3>4, <3>5
  <2>5. CASE kind = "mcm"
    <3>1. PICK m : m = EnsureMachineControllerManagerDeployment(o)
      OBVIOUS
    <3>2. /\ m = [deleting |-> m.deleting, containers |-> m.containers]
          /\ EnsureMachineControllerManagerDeployment(m) = m
      BY <2>5, <3>1, NamesAdded DEF Shape
    <3>3. \A x : Mutate(x) = x \/ Mutate(x) = EnsureMachineControllerManagerDeployment(x)
      BY <2>1, <2>5 DEF Special
    <3>4. Mutate(o) \in {o, m} /\ Mutate(m) = m
      BY <3>1, <3>2, <3>3
    <3>5. Shape(kind, m)
      BY <2>5, <3>2 DEF Shape, Special
    <3> QED BY <3>4, <3>5
  <2>6. CASE kind = "mcm-vpa"
    <3>1. PICK m : m = EnsureMachineControllerManagerVPA(o)
      OBVIOUS
    <3>2. /\ m = [deleting |-> m.deleting, policies |-> m.policies]
          /\ EnsureMachineControllerManagerVPA(m) = m
      BY <2>6, <3>1, NamesAdded DEF Shape
    <3>3. \A x : Mutate(x) = x \/ Mutate(x) = EnsureMachineControllerManagerVPA(x)
      BY <2>1, <2>6 DEF Special
    <3>4. Mutate(o) \in {o, m} /\ Mutate(m) = m
      BY <3>1, <3>2, <3>3
    <3>5. Shape(kind, m)
      BY <2>6, <3>2 DEF Shape, Special
    <3> QED BY <3>4, <3>5
  <2>7. CASE kind = "metrics-server"
    <3>1. PICK m : m = mutateMetricsServerDeployment(o)
      OBVIOUS
    <3>2. MetricsServer(m) /\ mutateMetricsServerDeployment(m) = m
      BY <2>7, <3>1, MetricsServerMutated DEF Shape
    <3>3. \A x : Mutate(x) = x \/ Mutate(x) = mutateMetricsServerDeployment(x)
      BY <2>1, <2>7 DEF Special
    <3>4. Mutate(o) \in {o, m} /\ Mutate(m) = m
      BY <3>1, <3>2, <3>3
    <3>5. Shape(kind, m)
      BY <2>7, <3>2 DEF Shape, Special
    <3> QED BY <3>4, <3>5
  <2>8. CASE kind \notin Special
    <3>1. PICK m : m = EnsureETCD(o)
      OBVIOUS
    <3>2. /\ m = [deleting |-> m.deleting, capacity |-> m.capacity, class |-> m.class]
          /\ EnsureETCD(m) = m
      BY <2>8, <3>1, StorageSet DEF Shape
    <3>3. \A x : Mutate(x) = x \/ Mutate(x) = EnsureETCD(x)
      BY <2>1, <2>8 DEF Special
    <3>4. Mutate(o) \in {o, m} /\ Mutate(m) = m
      BY <3>1, <3>2, <3>3
    <3>5. Shape(kind, m)
      BY <2>8, <3>2 DEF Shape, Special
    <3> QED BY <3>4, <3>5
  <2> QED BY <2>2, <2>3, <2>4, <2>5, <2>6, <2>7, <2>8 DEF Special
<1> QED BY <1>2, <1>3

\* What the owner writes.
LEMMA DesiredShape == \A o \in Desired : Shape(kind, o)
<1> SUFFICES ASSUME NEW o \in Desired PROVE Shape(kind, o)
  OBVIOUS
<1>1. CASE kind = "osc"
  <2>1. o \in [deleting : {FALSE}, purpose : {"reconcile", "provision"},
               kubelet : [cloudProvider : {"none", "external"}, setsHostname : {FALSE}],
               gates : SUBSET {"CSINodeInfo", "GracefulNodeShutdown"},
               files : {<<BaseFile>>}, units : {<<"kubelet.service">>}]
    BY <1>1 DEF Desired
  <2>2. /\ o = [deleting |-> o.deleting, purpose |-> o.purpose, kubelet |-> o.kubelet,
                gates |-> o.gates, files |-> o.files, units |-> o.units]
        /\ o.kubelet \in [cloudProvider : {"none", "external"}, setsHostname : {FALSE}]
        /\ o.files = <<BaseFile>> /\ o.units = <<"kubelet.service">>
    BY <2>1
  <2>3. /\ DOMAIN o.kubelet = {"cloudProvider", "setsHostname"}
        /\ o.kubelet = [f \in DOMAIN o.kubelet |-> o.kubelet[f]]
    BY <2>2
  <2>4. o.files \in Seq(FileSet) /\ Distinct(o.files) /\ Paths(o.files) = {"kubelet-config"}
    <3>1. <<BaseFile>> \in Seq(FileSet)
      <4>1. BaseFile \in FileSet
        BY FilesAreFiles
      <4> QED BY <4>1
    <3>2. PICK s \in Seq(FileSet) : s = o.files
      BY <2>2, <3>1
    <3>3. Len(s) = 1 /\ s[1] = BaseFile
      BY <2>2, <3>2
    <3>4. Distinct(s)
      BY <3>3 DEF Distinct
    <3>5. Paths(s) = {s[i].path : i \in 1..1}
      BY <3>3, Elements
    <3>6. s[1].path = "kubelet-config"
      BY <3>3 DEF BaseFile
    <3>7. 1..1 = {1}
      OBVIOUS
    <3> QED BY <3>2, <3>4, <3>5, <3>6, <3>7
  <2>5. o.units \in Seq(UnitSet) /\ IsInjective(o.units) /\ ToSet(o.units) = {"kubelet.service"}
    <3>1. <<"kubelet.service">> \in Seq(UnitSet)
      BY DEF UnitSet
    <3>2. PICK s \in Seq(UnitSet) : s = o.units
      BY <2>2, <3>1
    <3>3. Len(s) = 1 /\ s[1] = "kubelet.service" /\ DOMAIN s = {1}
      BY <2>2, <3>2
    <3>4. IsInjective(s)
      BY <3>3 DEF IsInjective
    <3>5. ToSet(s) = {s[i] : i \in {1}}
      BY <3>3 DEF ToSet
    <3> QED BY <3>2, <3>3, <3>4, <3>5
  <2>6. OSConfig(o)
    BY <2>2, <2>3, <2>4, <2>5 DEF OSConfig, Script, Unit
  <2> QED BY <1>1, <2>6 DEF Shape, Special
<1>2. CASE kind = "kube-apiserver"
  <2>1. o \in [deleting : {FALSE}, named : BOOLEAN, labels : {{}, {"app"}},
               command : CommandLines({"enable", "disable", "gates"})]
    BY <1>2 DEF Desired
  <2>2. IsCommand(o.command)
    <3>1. o.command \in CommandLines({"enable", "disable", "gates"})
      BY <2>1
    <3> QED BY <3>1 DEF CommandLines, IsCommand
  <2>3. APIServer(o)
    BY <2>1, <2>2 DEF APIServer
  <2> QED BY <1>2, <2>3 DEF Shape, Special
<1>3. CASE kind = "kcm"
  <2>1. o \in [deleting : {FALSE},
               labels : SUBSET {"app", "to-blocked-cidrs", "to-public-networks"}]
    BY <1>3 DEF Desired
  <2> QED BY <1>3, <2>1 DEF Shape, Special
<1>4. CASE kind = "mcm"
  <2>1. o \in [deleting : {FALSE}, containers : {{"machine-controller-manager"}}]
    BY <1>4 DEF Desired
  <2> QED BY <1>4, <2>1 DEF Shape, Special
<1>5. CASE kind = "mcm-vpa"
  <2>1. o \in [deleting : {FALSE}, policies : {{"machine-controller-manager"}}]
    BY <1>5 DEF Desired
  <2> QED BY <1>5, <2>1 DEF Shape, Special
<1>6. CASE kind = "metrics-server"
  <2>1. o \in [deleting : {FALSE}, named : BOOLEAN, command : CommandLines({"addresses"})]
    BY <1>6 DEF Desired
  <2>2. IsCommand(o.command)
    <3>1. o.command \in CommandLines({"addresses"})
      BY <2>1
    <3> QED BY <3>1 DEF CommandLines, IsCommand
  <2>3. MetricsServer(o)
    BY <2>1, <2>2 DEF MetricsServer
  <2> QED BY <1>6, <2>3 DEF Shape, Special
<1>7. CASE kind \notin Special
  <2>1. o \in [deleting : {FALSE}, capacity : {"25Gi"}, class : {"default"}]
    BY <1>7 DEF Desired, Special
  <2> QED BY <1>7, <2>1 DEF Shape, Special
<1> QED BY <1>1, <1>2, <1>3, <1>4, <1>5, <1>6, <1>7 DEF Special

\* Another extension's file.
LEMMA OtherAdded ==
  ASSUME NEW o, Shape(kind, o)
  PROVE  Shape(kind, AddOther(o))
<1>1. CASE kind # "osc" \/ "other" \in Paths(o.files)
  BY <1>1 DEF AddOther
<1>2. CASE kind = "osc" /\ "other" \notin Paths(o.files)
  <2>1. OSConfig(o)
    BY <1>2 DEF Shape
  <2>2. PICK s \in Seq(FileSet) : s = o.files
    BY <2>1 DEF OSConfig
  <2>3. OtherFile \in FileSet /\ OtherFile.path = "other"
    BY FilesAreFiles DEF OtherFile
  <2>4. PICK r \in Seq(FileSet) : r = Append(s, OtherFile)
    BY <2>3, OneMore
  <2>5. Paths(r) = Paths(s) \cup {"other"}
    BY <2>3, <2>4, ElementsAppend
  <2>6. Distinct(r)
    <3>1. PICK n \in Nat : n = Len(s)
      OBVIOUS
    <3>2. Len(r) = n + 1 /\ r[n + 1] = OtherFile /\ \A i \in 1..n : r[i] = s[i]
      BY <2>4, <3>1
    <3>3. \A i \in 1..n : r[i].path # "other"
      <4>1. Paths(s) = {s[i].path : i \in 1..n}
        BY <3>1, Elements
      <4> QED BY <1>2, <2>2, <3>2, <4>1
    <3>4. \A i, j \in 1..n : r[i].path = r[j].path => i = j
      BY <2>1, <2>2, <3>1, <3>2 DEF Distinct, OSConfig
    <3>5. 1..(n + 1) = 1..n \cup {n + 1}
      OBVIOUS
    <3>6. \A i, j \in 1..(n + 1) : r[i].path = r[j].path => i = j
      BY <2>3, <3>2, <3>3, <3>4, <3>5
    <3> QED BY <3>2, <3>6 DEF Distinct
  <2>7. PICK m : m = AddOther(o)
    OBVIOUS
  <2>8. m = [o EXCEPT !.files = r]
    BY <1>2, <2>2, <2>4, <2>7 DEF AddOther
  <2>9. DOMAIN o = {"deleting", "purpose", "kubelet", "gates", "files", "units"}
    BY <2>1 DEF OSConfig
  <2>10. /\ DOMAIN m = {"deleting", "purpose", "kubelet", "gates", "files", "units"}
         /\ m = [f \in DOMAIN m |-> m[f]]
         /\ m.kubelet = o.kubelet /\ m.units = o.units /\ m.files = r
    BY <2>8, <2>9
  <2>11. m = [deleting |-> m.deleting, purpose |-> m.purpose, kubelet |-> m.kubelet,
              gates |-> m.gates, files |-> m.files, units |-> m.units]
    BY <2>10
  <2>12. Unit \in ToSet(m.units) <=> Script \in Paths(m.files)
    BY <2>1, <2>2, <2>5, <2>10 DEF OSConfig, Script
  <2>13. OSConfig(m)
    <3>1. m.files \in Seq(FileSet) /\ Distinct(m.files)
      BY <2>6, <2>10
    <3>2. m.units \in Seq(UnitSet) /\ IsInjective(m.units)
      BY <2>1, <2>10 DEF OSConfig
    <3>3. /\ DOMAIN m.kubelet = {"cloudProvider", "setsHostname"}
          /\ m.kubelet = [f \in DOMAIN m.kubelet |-> m.kubelet[f]]
      BY <2>1, <2>10 DEF OSConfig
    <3> QED BY <2>11, <2>12, <3>1, <3>2, <3>3 DEF OSConfig
  <2> QED BY <1>2, <2>7, <2>13 DEF Shape, Special
<1> QED BY <1>1, <1>2

\* Only the flag changes.
LEMMA MarkedDeleted ==
  ASSUME NEW o, Shape(kind, o)
  PROVE  Shape(kind, [o EXCEPT !.deleting = TRUE])
<1>1. PICK m : m = [o EXCEPT !.deleting = TRUE]
  OBVIOUS
<1>2. /\ DOMAIN m = DOMAIN o
      /\ \A f \in DOMAIN o : f # "deleting" => m[f] = o[f]
      /\ m = [f \in DOMAIN m |-> m[f]]
  BY <1>1
<1>3. CASE kind = "osc"
  <2>1. OSConfig(o)
    BY <1>3 DEF Shape
  <2>2. DOMAIN o = {"deleting", "purpose", "kubelet", "gates", "files", "units"}
    BY <2>1 DEF OSConfig
  <2>3. m.kubelet = o.kubelet /\ m.files = o.files /\ m.units = o.units
    BY <1>2, <2>2
  <2>4. m = [deleting |-> m.deleting, purpose |-> m.purpose, kubelet |-> m.kubelet,
             gates |-> m.gates, files |-> m.files, units |-> m.units]
    BY <1>2, <2>2
  <2>5. OSConfig(m)
    BY <2>1, <2>3, <2>4 DEF OSConfig
  <2> QED BY <1>1, <1>3, <2>5 DEF Shape, Special
<1>4. CASE kind = "kube-apiserver"
  <2>1. APIServer(o)
    BY <1>4 DEF Shape
  <2>2. DOMAIN o = {"deleting", "named", "labels", "command"}
    BY <2>1 DEF APIServer
  <2>3. m.command = o.command
    BY <1>2, <2>2
  <2>4. m = [deleting |-> m.deleting, named |-> m.named, labels |-> m.labels,
             command |-> m.command]
    BY <1>2, <2>2
  <2>5. APIServer(m)
    BY <2>1, <2>3, <2>4 DEF APIServer
  <2> QED BY <1>1, <1>4, <2>5 DEF Shape, Special
<1>5. CASE kind = "kcm"
  <2>1. DOMAIN o = {"deleting", "labels"}
    BY <1>5 DEF Shape
  <2>2. m = [deleting |-> m.deleting, labels |-> m.labels]
    BY <1>2, <2>1
  <2> QED BY <1>1, <1>5, <2>2 DEF Shape, Special
<1>6. CASE kind = "mcm"
  <2>1. DOMAIN o = {"deleting", "containers"}
    BY <1>6 DEF Shape
  <2>2. m = [deleting |-> m.deleting, containers |-> m.containers]
    BY <1>2, <2>1
  <2> QED BY <1>1, <1>6, <2>2 DEF Shape, Special
<1>7. CASE kind = "mcm-vpa"
  <2>1. DOMAIN o = {"deleting", "policies"}
    BY <1>7 DEF Shape
  <2>2. m = [deleting |-> m.deleting, policies |-> m.policies]
    BY <1>2, <2>1
  <2> QED BY <1>1, <1>7, <2>2 DEF Shape, Special
<1>8. CASE kind = "metrics-server"
  <2>1. MetricsServer(o)
    BY <1>8 DEF Shape
  <2>2. DOMAIN o = {"deleting", "named", "command"}
    BY <2>1 DEF MetricsServer
  <2>3. m.command = o.command
    BY <1>2, <2>2
  <2>4. m = [deleting |-> m.deleting, named |-> m.named, command |-> m.command]
    BY <1>2, <2>2
  <2>5. MetricsServer(m)
    BY <2>1, <2>3, <2>4 DEF MetricsServer
  <2> QED BY <1>1, <1>8, <2>5 DEF Shape, Special
<1>9. CASE kind \notin Special
  <2>1. DOMAIN o = {"deleting", "capacity", "class"}
    BY <1>9 DEF Shape
  <2>2. m = [deleting |-> m.deleting, capacity |-> m.capacity, class |-> m.class]
    BY <1>2, <2>1
  <2> QED BY <1>1, <1>9, <2>2 DEF Shape, Special
<1> QED BY <1>3, <1>4, <1>5, <1>6, <1>7, <1>8, <1>9 DEF Special

LEMMA InitWInv == Init => WInv
<1> SUFFICES ASSUME Init PROVE WInv
  OBVIOUS
<1>1. ~Exists
  BY DEF Init, Exists
<1> QED BY <1>1 DEF Init, WInv

\* An API write leaves an object of the same shape.
LEMMA AdmitKeeps ==
  ASSUME WInv, NEW o, Shape(kind, o), Admit(o)
  PROVE  Shape(kind, obj')
<1>1. Shape(kind, Mutate(o))
  BY Mutated DEF WInv
<1>2. Shape(kind, AddOther(Mutate(o)))
  BY <1>1, OtherAdded
<1>3. Shape(kind, Mutate(AddOther(o)))
  <2>1. PICK x : x = AddOther(o)
    OBVIOUS
  <2>2. Shape(kind, x)
    BY <2>1, OtherAdded
  <2>3. Shape(kind, Mutate(x))
    BY <2>2, Mutated DEF WInv
  <2> QED BY <2>1, <2>3
<1>4. obj' \in {Mutate(o), AddOther(Mutate(o)), Mutate(AddOther(o))}
  BY DEF Admit
<1> QED BY <1>1, <1>2, <1>3, <1>4

\* No step leaves it.
LEMMA NextWInv == WInv /\ [Next]_vars => WInv'
<1> SUFFICES ASSUME WInv, [Next]_vars PROVE WInv'
  OBVIOUS
<1>1. CASE Rewrite
  <2>1. PICK o \in Desired : Admit(o)
    BY <1>1 DEF Rewrite
  <2>2. Shape(kind, obj')
    BY <2>1, DesiredShape, AdmitKeeps
  <2>3. UNCHANGED <<kind, profile>>
    BY <1>1 DEF Rewrite
  <2> QED BY <2>2, <2>3 DEF WInv, Exists
<1>2. CASE Touch
  <2>1. Shape(kind, obj) /\ Admit(obj) /\ UNCHANGED <<kind, profile>>
    BY <1>2 DEF Touch, WInv
  <2>2. Shape(kind, obj')
    BY <2>1, AdmitKeeps
  <2> QED BY <2>1, <2>2 DEF WInv, Exists
<1>3. CASE Delete
  <2>1. Shape(kind, obj) /\ obj' = [obj EXCEPT !.deleting = TRUE] /\ UNCHANGED <<kind, profile>>
    BY <1>3 DEF Delete, WInv
  <2>2. Shape(kind, obj')
    BY <2>1, MarkedDeleted
  <2> QED BY <2>1, <2>2 DEF WInv, Exists
<1>4. CASE Removed
  BY <1>4 DEF Removed, WInv, Exists
<1>5. CASE ProfileChanges
  BY <1>5 DEF ProfileChanges, WInv, Exists
<1>6. CASE ConfigMapChanges
  BY <1>6 DEF ConfigMapChanges, WInv, Exists
<1>7. CASE UNCHANGED vars
  BY <1>7 DEF vars, WInv, Exists
<1> QED BY <1>1, <1>2, <1>3, <1>4, <1>5, <1>6, <1>7 DEF Next

\* So it holds at every state.
THEOREM Invariance == Spec => []WInv
<1> QED BY InitWInv, NextWInv, PTL DEF Spec

-----------------------------------------------------------------------------
(* What it gives.                                                          *)

\* Idempotent: mutating twice is mutating once, for every kind (Mutate).
THEOREM MutatedOnce == Spec => []Idempotent
<1>1. WInv => Idempotent
  BY Mutated DEF WInv, Idempotent
<1> QED BY <1>1, Invariance, PTL

\* UnitHasScript: neither the unit nor its script is there without the other
\* (EnsureAdditionalFiles, EnsureAdditionalUnits).
THEOREM UnitWithScript == Spec => []UnitHasScript
<1>1. WInv => UnitHasScript
  BY DEF WInv, Shape, OSConfig, Script, Unit, UnitHasScript
<1> QED BY <1>1, Invariance, PTL

\* Files of distinct paths are counted by their paths.
LEMMA PathsCount ==
  ASSUME NEW F, NEW files \in Seq(F), Distinct(files)
  PROVE  Cardinality(Paths(files)) = Len(files)
<1>1. PICK n \in Nat : n = Len(files)
  OBVIOUS
<1> DEFINE g == [i \in 1..n |-> files[i].path]
<1>2. Paths(files) = {files[i].path : i \in 1..n}
  BY <1>1, Elements
<1>3. g \in [1..n -> Paths(files)]
  BY <1>2
<1>4. \A i, j \in 1..n : g[i] = g[j] => i = j
  BY <1>1 DEF Distinct
<1>5. \A x \in Paths(files) : \E i \in 1..n : g[i] = x
  BY <1>2
<1> HIDE DEF g
<1>6. g \in Bijection(1..n, Paths(files))
  BY <1>3, <1>4, <1>5 DEF Bijection, Injection, Surjection, IsInjective
<1>7. ExistsBijection(1..n, Paths(files))
  BY <1>6 DEF ExistsBijection
<1> QED BY <1>1, <1>7, FS_CountingElements

\* FollowsProfile: the next write brings the current profile's options, once,
\* as operating system configs are registered (appendUniqueFile, AppendUniqueUnit).
THEOREM ProfileFollowed == ASSUME "osc" \in Registered PROVE Spec => []FollowsProfile
<1>1. WInv => FollowsProfile
  <2> SUFFICES ASSUME WInv, Exists, kind = "osc", ~obj.deleting, obj.purpose = "reconcile"
               PROVE  LET new == Mutate(obj) IN
                      /\ Wanted \subseteq ToSet(new.files)
                      /\ Cardinality(Paths(new.files)) = Len(new.files)
                      /\ IsInjective(new.units)
    BY DEF FollowsProfile
  <2>1. OSConfig(obj) /\ profile \in Profiles
    BY DEF WInv, Shape
  <2>2. PICK m : m = EnsureOperatingSystemConfig(obj)
    OBVIOUS
  <2>3. Mutate(obj) = m
    BY <2>2 DEF Mutate
  <2>4. OSConfig(m) /\ Wanted \subseteq ToSet(m.files)
    BY <2>1, <2>2, ConfigMutated
  <2>5. Cardinality(Paths(m.files)) = Len(m.files) /\ IsInjective(m.units)
    BY <2>4, PathsCount DEF OSConfig
  <2> QED BY <2>3, <2>4, <2>5
<1> QED BY <1>1, Invariance, PTL

\* KeepsForeign: what the owner or others put there survives (EnsureNo...,
\* appendUniqueFile).
THEOREM ForeignKept == Spec => []KeepsForeign
<1>1. WInv => KeepsForeign
  <2> SUFFICES ASSUME WInv, NEW o \in Desired \cup ({obj} \ {NoObject})
               PROVE  /\ kind = "osc" =>
                           /\ {f \in ToSet(o.files) : f.path \in {"kubelet-config", "other"}}
                                 \subseteq ToSet(Mutate(o).files)
                           /\ ToSet(o.units) \subseteq ToSet(Mutate(o).units)
                      /\ kind = "kube-apiserver" =>
                           \A f \in DOMAIN o.command :
                              o.command[f] \cap {"Other"} \subseteq Mutate(o).command[f]
    BY DEF KeepsForeign
  <2>1. Shape(kind, o)
    BY DesiredShape DEF WInv, Exists
  <2>2. CASE Mutate(o) = o
    BY <2>2
  <2>3. CASE kind = "osc" /\ Mutate(o) # o
    <3>1. Mutate(o) = EnsureOperatingSystemConfig(o)
      BY <2>3 DEF Mutate
    <3>2. o.purpose = "reconcile"
      BY <2>3, <3>1 DEF EnsureOperatingSystemConfig
    <3>3. PICK m : m = EnsureOperatingSystemConfig(o)
      OBVIOUS
    <3>4. /\ {f \in ToSet(o.files) : f.path \in {"kubelet-config", "other"}}
               \subseteq ToSet(m.files)
          /\ ToSet(o.units) \subseteq ToSet(m.units)
      BY <2>1, <2>3, <3>2, <3>3, ConfigMutated DEF WInv, Shape
    <3> QED BY <2>3, <3>1, <3>3, <3>4
  <2>4. CASE kind = "kube-apiserver" /\ Mutate(o) # o
    <3>1. Mutate(o) = EnsureKubeAPIServerDeployment(o)
      BY <2>4 DEF Mutate
    <3>2. \A f \in DOMAIN o.command :
            o.command[f] \cap {"Other"} \subseteq EnsureKubeAPIServerDeployment(o).command[f]
      BY <2>1, <2>4, APIServerMutated DEF Shape
    <3> QED BY <2>4, <3>1, <3>2
  <2> QED BY <2>2, <2>3, <2>4
<1> QED BY <1>1, Invariance, PTL
=============================================================================
