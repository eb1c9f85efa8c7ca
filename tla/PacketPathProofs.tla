-------------------------- MODULE PacketPathProofs --------------------------
(***************************************************************************)
(* Theorems of PacketPath.  What a callback has still to do is a sequence  *)
(* of steps, and the invariants say of each what makes it safe: what it is *)
(* about is there, or is made before (StepsInv); the directory of a packet *)
(* is filled as far as the steps that are gone (FillInv); directories and  *)
(* counters belong together (CountInv), and so do the application and the  *)
(* packet it reads (AppInv).  The names in the files of ports are those of *)
(* the reply, and so are the directories that are indexed and the names of *)
(* packets, until somebody writes another name (LabelInv).                 *)
(***************************************************************************)
EXTENDS PacketPath, TypedFileProofs, WellFoundedInduction

-----------------------------------------------------------------------------
(* What a callback is to do *)

\* A set of natural numbers that is not empty has a smallest member.
LEMMA LeastNatural ==
    ASSUME NEW S \in SUBSET Nat, S # {}
    PROVE \E x \in S : \A y \in S : x <= y
<1>1. PICK x \in S : \A y \in S : <<y, x>> \notin OpToRel(<, Nat)
  BY WFMin, NatLessThanWellFounded, Zenon
<1>2. ASSUME NEW y \in S PROVE ~(y < x)
  <2>1. <<y, x>> \notin {ss \in Nat \X Nat : ss[1] < ss[2]} BY <1>1, Zenon DEF OpToRel
  <2> QED BY <2>1
<1> QED BY <1>2

\* The names of the first n that are files of d.
Keeping(d, names, n, kept) ==
    kept = [i \in 0 .. n |->
              IF i = 0 THEN << >>
              ELSE IF <<d, names[i]>> \in Files THEN Append(kept[i - 1], names[i])
              ELSE kept[i - 1]]

\* Such a function exists for every sequence of names.
LEMMA KeepingExists ==
    ASSUME NEW d, NEW names, NEW n \in Nat
    PROVE \E kept : Keeping(d, names, n, kept)
<1> DEFINE S == {k \in Nat : ~\E kept : Keeping(d, names, k, kept)}
<1>1. SUFFICES ASSUME S # {} PROVE FALSE OBVIOUS
<1>2. PICK k \in S : \A j \in S : k <= j
  <2> HIDE DEF S
  <2>1. S \in SUBSET Nat BY DEF S
  <2> QED BY <1>1, <2>1, LeastNatural
<1>3. k \in Nat /\ ~\E kept : Keeping(d, names, k, kept) OBVIOUS
<1>4. CASE k = 0
  <2> DEFINE f == [i \in 0 .. 0 |-> << >>]
  <2>1. Keeping(d, names, 0, f) BY DEF Keeping
  <2> QED BY <1>3, <1>4, <2>1
<1>5. CASE k # 0
  <2>1. k - 1 \in Nat /\ ~(k <= k - 1) BY <1>3, <1>5
  <2>2. k - 1 \notin S BY <1>2, <2>1
  <2>3. PICK g : Keeping(d, names, k - 1, g) BY <2>1, <2>2
  <2> DEFINE Next1(h, i) == IF <<d, names[i]>> \in Files THEN Append(h[i - 1], names[i])
                            ELSE h[i - 1]
             f == [i \in 0 .. k |-> IF i = k THEN Next1(g, k) ELSE g[i]]
  <2>4. \A i \in 0 .. k : f[i] = IF i = 0 THEN << >> ELSE Next1(f, i)
    <3> TAKE i \in 0 .. k
    <3>1. CASE i = k
      <4>1. i # 0 /\ k - 1 \in 0 .. k /\ k - 1 # k BY <1>3, <1>5, <3>1
      <4>2. f[k - 1] = g[k - 1] BY <4>1
      <4> QED BY <3>1, <4>1, <4>2
    <3>2. CASE i # k
      <4>1. i \in 0 .. k - 1 BY <1>3, <3>2
      <4>2. g[i] = IF i = 0 THEN << >> ELSE Next1(g, i) BY <2>3, <4>1 DEF Keeping
      <4>3. i # 0 => i - 1 \in 0 .. k /\ i - 1 # k BY <1>3, <4>1
      <4>4. i # 0 => f[i - 1] = g[i - 1] BY <4>3
      <4> QED BY <3>2, <4>2, <4>4
    <3> QED BY <3>1, <3>2
  <2>5. f = [i \in 0 .. k |-> f[i]] OBVIOUS
  <2> HIDE DEF f
  <2>6. Keeping(d, names, k, f) BY <2>4, <2>5 DEF Keeping
  <2> QED BY <1>3, <2>6
<1> QED BY <1>4, <1>5

\* s is what is kept of the first n names.
KeepsFiles(d, names, n, s) ==
    /\ Sequence(s)
    /\ \A j \in 1 .. Len(s) :
          <<d, s[j]>> \in Files /\ \E i \in 1 .. Len(names) : s[j] = names[i]
    /\ \A i \in 1 .. n :
          <<d, names[i]>> \in Files => \E j \in 1 .. Len(s) : s[j] = names[i]

\* One name more.
LEMMA KeepsOneMore ==
    ASSUME NEW d, NEW names, Sequence(names), NEW k \in 1 .. Len(names), NEW s,
           KeepsFiles(d, names, k - 1, s)
    PROVE KeepsFiles(d, names, k, IF <<d, names[k]>> \in Files THEN Append(s, names[k]) ELSE s)
<1>1. Len(names) \in Nat BY SequenceAny
<1>2. Sequence(s) /\ Len(s) \in Nat BY SequenceAny DEF KeepsFiles
<1>3. CASE <<d, names[k]>> \notin Files
  <2>1. \A i \in 1 .. k : <<d, names[i]>> \in Files => i \in 1 .. k - 1 BY <1>1, <1>3
  <2> QED BY <1>3, <2>1 DEF KeepsFiles
<1>4. CASE <<d, names[k]>> \in Files
  <2> DEFINE a == Append(s, names[k])
  <2>1. Sequence(a) /\ Len(a) = Len(s) + 1 /\ a[Len(s) + 1] = names[k]
          /\ \A j \in 1 .. Len(s) : a[j] = s[j]
    BY <1>2, AppendAny
  <2> HIDE DEF a
  <2>2. ASSUME NEW j \in 1 .. Len(a)
        PROVE  <<d, a[j]>> \in Files /\ \E i \in 1 .. Len(names) : a[j] = names[i]
    <3>1. CASE j = Len(s) + 1 BY <1>1, <1>4, <2>1, <3>1
    <3>2. CASE j # Len(s) + 1
      <4>1. j \in 1 .. Len(s) BY <1>2, <2>1, <3>2
      <4> QED BY <2>1, <4>1 DEF KeepsFiles
    <3> QED BY <3>1, <3>2
  <2>3. ASSUME NEW i \in 1 .. k, <<d, names[i]>> \in Files
        PROVE  \E j \in 1 .. Len(a) : a[j] = names[i]
    <3>1. CASE i = k
      <4>1. Len(s) + 1 \in 1 .. Len(a) BY <1>2, <2>1
      <4> QED BY <2>1, <3>1, <4>1
    <3>2. CASE i # k
      <4>1. i \in 1 .. k - 1 BY <1>1, <3>2
      <4>2. PICK j \in 1 .. Len(s) : s[j] = names[i] BY <2>3, <4>1 DEF KeepsFiles
      <4>3. j \in 1 .. Len(a) BY <1>2, <2>1
      <4> QED BY <2>1, <4>2, <4>3
    <3> QED BY <3>1, <3>2
  <2>4. KeepsFiles(d, names, k, a) BY <2>1, <2>2, <2>3 DEF KeepsFiles
  <2> QED BY <1>4, <2>4 DEF a
<1> QED BY <1>3, <1>4

\* What Tracked() keeps of names are the files of d among them.
LEMMA TrackedKeeps ==
    ASSUME NEW d, NEW names, Sequence(names)
    PROVE KeepsFiles(d, names, Len(names), Tracked(d, names))
<1>1. Len(names) \in Nat BY SequenceAny
<1>2. \E kept : Keeping(d, names, Len(names), kept) BY <1>1, KeepingExists
<1>3. PICK kept : /\ Keeping(d, names, Len(names), kept)
                  /\ Tracked(d, names) = kept[Len(names)]
  BY <1>2 DEF Tracked, Keeping
<1> DEFINE Right(n) == KeepsFiles(d, names, n, kept[n])
           S == {n \in 0 .. Len(names) : ~Right(n)}
<1>4. SUFFICES ASSUME S # {} PROVE FALSE
  <2>1. Len(names) \in 0 .. Len(names) BY <1>1
  <2>2. Right(Len(names)) BY <1>4, <2>1
  <2> QED BY <1>3, <2>2
<1>5. PICK k \in S : \A j \in S : k <= j
  <2> HIDE DEF S
  <2>1. S \in SUBSET Nat BY <1>1 DEF S
  <2> QED BY <1>4, <2>1, LeastNatural
<1>6. k \in 0 .. Len(names) /\ ~Right(k) OBVIOUS
<1>7. CASE k = 0
  <2>1. kept[0] = << >> BY <1>1, <1>3 DEF Keeping
  <2>2. Sequence(<< >>) /\ 1 .. Len(<< >>) = {} /\ 1 .. 0 = {}
    <3>1. << >> \in Seq({}) OBVIOUS
    <3> QED BY <3>1 DEF Sequence
  <2>3. KeepsFiles(d, names, 0, << >>) BY <2>2, Zenon DEF KeepsFiles
  <2> QED BY <1>6, <1>7, <2>1, <2>3
<1>8. CASE k # 0
  <2>1. k - 1 \in 0 .. Len(names) /\ ~(k <= k - 1) /\ k \in 1 .. Len(names)
    BY <1>1, <1>6, <1>8
  <2>2. KeepsFiles(d, names, k - 1, kept[k - 1]) BY <1>5, <2>1
  <2>3. kept[k] = IF <<d, names[k]>> \in Files THEN Append(kept[k - 1], names[k])
                  ELSE kept[k - 1]
    BY <1>1, <1>3, <1>8, <2>1 DEF Keeping
  <2>4. KeepsFiles(d, names, k, IF <<d, names[k]>> \in Files
                                THEN Append(kept[k - 1], names[k]) ELSE kept[k - 1])
    BY <2>1, <2>2, KeepsOneMore
  <2> QED BY <1>6, <2>3, <2>4
<1> QED BY <1>7, <1>8

\* The lists of names are sequences.
LEMMA NamesAny ==
    /\ Sequence(ConfigFiles) /\ Sequence(SwitchFiles) /\ Sequence(PortFiles)
    /\ Sequence(PacketFiles) /\ Sequence(SwitchLoad) /\ Sequence(PacketLoad)
<1>1. ConfigFiles \in Seq({"flags", "miss_send_len"}) BY DEF ConfigFiles
<1>2. SwitchFiles \in Seq({"datapath_id", "n_buffers", "n_tables", "capabilities", "actions"})
  BY DEF SwitchFiles
<1>3. PortFiles \in Seq({"port_no", "hw_addr", "name", "config", "state", "f_curr",
                        "f_advertised", "f_supported", "f_peer"})
  BY DEF PortFiles
<1>4. PacketFiles \in Seq({"buffer_id", "total_len", "in_port", "reason"}) BY DEF PacketFiles
<1>5. SwitchLoad \in Seq({"datapath_id", "n_buffers", "n_tables"}) BY DEF SwitchLoad
<1>6. PacketLoad \in Seq({"buffer_id", "in_port", "total_len", "data"}) BY DEF PacketLoad
<1> QED BY <1>1, <1>2, <1>3, <1>4, <1>5, <1>6 DEF Sequence

\* The steps w write all files of d that are named, and nothing else.
Writes(w, d, names, rec) ==
    /\ Sequence(w)
    /\ \A j \in 1 .. Len(w) : \E i \in 1 .. Len(names) :
          <<d, names[i]>> \in Files /\ w[j] = WriteTo(d, names[i], rec[names[i]])
    /\ \A i \in 1 .. Len(names) :
          <<d, names[i]>> \in Files =>
             \E j \in 1 .. Len(w) : w[j] = WriteTo(d, names[i], rec[names[i]])

\* So do those of WriteAll().
LEMMA WriteAllShape ==
    ASSUME NEW d, NEW names, Sequence(names), NEW rec
    PROVE Writes(WriteAll(d, names, rec), d, names, rec)
<1> DEFINE kept == Tracked(d, names)
           w == WriteAll(d, names, rec)
<1>1. KeepsFiles(d, names, Len(names), kept) BY TrackedKeeps
<1>2. w = [i \in DOMAIN kept |-> WriteTo(d, kept[i], rec[kept[i]])] BY DEF WriteAll
<1> HIDE DEF kept, w
<1>3. Len(kept) \in Nat /\ DOMAIN kept = 1 .. Len(kept) BY <1>1, SequenceAny DEF KeepsFiles
<1>4. w = [i \in 1 .. Len(kept) |-> w[i]] BY <1>2, <1>3
<1>5. Sequence(w) /\ Len(w) = Len(kept) BY <1>3, <1>4, FunctionAny
<1>6. \A j \in 1 .. Len(w) : w[j] = WriteTo(d, kept[j], rec[kept[j]]) BY <1>2, <1>3, <1>5
<1>7. ASSUME NEW j \in 1 .. Len(w)
      PROVE \E i \in 1 .. Len(names) :
               <<d, names[i]>> \in Files /\ w[j] = WriteTo(d, names[i], rec[names[i]])
  <2>1. PICK i \in 1 .. Len(names) : kept[j] = names[i] BY <1>1, <1>5 DEF KeepsFiles
  <2>2. <<d, kept[j]>> \in Files BY <1>1, <1>5 DEF KeepsFiles
  <2> QED BY <1>6, <2>1, <2>2
<1>8. ASSUME NEW i \in 1 .. Len(names), <<d, names[i]>> \in Files
      PROVE \E j \in 1 .. Len(w) : w[j] = WriteTo(d, names[i], rec[names[i]])
  <2>1. PICK j \in 1 .. Len(kept) : kept[j] = names[i] BY <1>1, <1>8 DEF KeepsFiles
  <2> QED BY <1>5, <1>6, <2>1
<1>9. Writes(w, d, names, rec) BY <1>5, <1>7, <1>8 DEF Writes
<1> QED BY <1>9 DEF w

\* A value of the type of f.
IsValue(f, v) ==
    IF f \in Of(Ints) THEN v \in Int
    ELSE IF f \in Of(Addrs) THEN v \in Nat \X Octets ELSE v \in Seq(Chars)

\* Steps in the directories D that do not fill a packet's; a port is indexed
\* after its directory was made.
SetupSteps(T, D) ==
    /\ Sequence(T)
    /\ \A i \in 1 .. Len(T) :
          /\ T[i].do \in {"mkdir", "write", "index", "signal"}
          /\ T[i].do = "mkdir" => T[i].dir \in D
          /\ T[i].do = "write" => /\ T[i].file \in Files /\ T[i].file[1] \in D
                                  /\ IsValue(T[i].file, T[i].value)
          /\ T[i].do = "index" => /\ T[i].dir \in D \cap PortDirs
                                  /\ \E j \in 1 .. i - 1 : T[j] = Mkdir(T[i].dir)
          /\ T[i].do = "signal" => T[i].dir = SwitchDir

\* Such steps, one sequence after the other.
LEMMA SetupConcat ==
    ASSUME NEW D, NEW S, SetupSteps(S, D), NEW T, SetupSteps(T, D)
    PROVE SetupSteps(S \o T, D)
<1> DEFINE U == S \o T
<1>1. /\ Sequence(S) /\ Sequence(T) BY DEF SetupSteps
<1>2. /\ Sequence(U) /\ Len(U) = Len(S) + Len(T) /\ Len(S) \in Nat /\ Len(T) \in Nat
      /\ \A i \in 1 .. Len(S) : U[i] = S[i]
      /\ \A i \in 1 .. Len(T) : U[Len(S) + i] = T[i]
  <2> HIDE DEF U
  <2>1. IsConcat(U, S, T) BY <1>1, ConcatAny DEF U
  <2> QED BY <2>1 DEF IsConcat
<1> HIDE DEF U
<1>3. ASSUME NEW i \in 1 .. Len(U)
      PROVE  /\ U[i].do \in {"mkdir", "write", "index", "signal"}
             /\ U[i].do = "mkdir" => U[i].dir \in D
             /\ U[i].do = "write" => /\ U[i].file \in Files /\ U[i].file[1] \in D
                                     /\ IsValue(U[i].file, U[i].value)
             /\ U[i].do = "index" => /\ U[i].dir \in D \cap PortDirs
                                     /\ \E j \in 1 .. i - 1 : U[j] = Mkdir(U[i].dir)
             /\ U[i].do = "signal" => U[i].dir = SwitchDir
  <2>1. CASE i \in 1 .. Len(S)
    <3>1. U[i] = S[i] BY <1>2, <2>1
    <3>2. U[i].do = "index" => \E j \in 1 .. i - 1 : U[j] = Mkdir(U[i].dir)
      <4> SUFFICES ASSUME U[i].do = "index" PROVE \E j \in 1 .. i - 1 : U[j] = Mkdir(U[i].dir)
        OBVIOUS
      <4>1. PICK j \in 1 .. i - 1 : S[j] = Mkdir(S[i].dir) BY <2>1, <3>1 DEF SetupSteps
      <4>2. j \in 1 .. Len(S) BY <1>2, <2>1
      <4> QED BY <1>2, <3>1, <4>1, <4>2
    <3> QED BY <2>1, <3>1, <3>2 DEF SetupSteps
  <2>2. CASE i \notin 1 .. Len(S)
    <3> DEFINE k == i - Len(S)
    <3>1. k \in 1 .. Len(T) /\ i = Len(S) + k BY <1>2, <2>2
    <3>2. U[i] = T[k] BY <1>2, <3>1
    <3> HIDE DEF k
    <3>3. U[i].do = "index" => \E j \in 1 .. i - 1 : U[j] = Mkdir(U[i].dir)
      <4> SUFFICES ASSUME U[i].do = "index" PROVE \E j \in 1 .. i - 1 : U[j] = Mkdir(U[i].dir)
        OBVIOUS
      <4>1. PICK j \in 1 .. k - 1 : T[j] = Mkdir(T[k].dir) BY <3>1, <3>2 DEF SetupSteps
      <4>2. j \in 1 .. Len(T) /\ Len(S) + j \in 1 .. i - 1 BY <1>2, <3>1
      <4>3. U[Len(S) + j] = T[j] BY <1>2, <4>2
      <4> QED BY <3>2, <4>1, <4>2, <4>3
    <3> QED BY <3>1, <3>2, <3>3 DEF SetupSteps
  <2> QED BY <2>1, <2>2
<1> QED BY <1>2, <1>3 DEF SetupSteps, U

\* One step of that kind, but for an index.
LEMMA SetupOne ==
    ASSUME NEW D, NEW s, \/ \E d \in D : s = Mkdir(d)
                         \/ s = Signal(SwitchDir)
    PROVE SetupSteps(<<s>>, D)
<1>1. Sequence(<<s>>) /\ Len(<<s>>) = 1 /\ <<s>>[1] = s BY OneAny
<1>2. CASE s = Signal(SwitchDir) BY <1>1, <1>2 DEF SetupSteps, Signal
<1>3. CASE \E d \in D : s = Mkdir(d) BY <1>1, <1>3 DEF SetupSteps, Mkdir
<1> QED BY <1>2, <1>3

\* Files of values of their types.
LEMMA SetupWrites ==
    ASSUME NEW D, NEW d \in D, NEW names, Sequence(names), NEW rec, Typed(d, names, rec)
    PROVE SetupSteps(WriteAll(d, names, rec), D)
<1> DEFINE w == WriteAll(d, names, rec)
<1>1. Writes(w, d, names, rec) BY WriteAllShape
<1>2. DOMAIN names = 1 .. Len(names) BY SequenceAny
<1> HIDE DEF w
<1>3. ASSUME NEW j \in 1 .. Len(w)
      PROVE  /\ w[j].do = "write" /\ w[j].file \in Files /\ w[j].file[1] \in D
             /\ IsValue(w[j].file, w[j].value)
  <2>1. PICK i \in 1 .. Len(names) :
           <<d, names[i]>> \in Files /\ w[j] = WriteTo(d, names[i], rec[names[i]])
    BY <1>1 DEF Writes
  <2>2. /\ w[j].do = "write" /\ w[j].file = <<d, names[i]>>
        /\ w[j].value = rec[names[i]]
    BY <2>1 DEF WriteTo
  <2>3. IsValue(<<d, names[i]>>, rec[names[i]]) BY <1>2, <2>1 DEF Typed, IsValue
  <2> QED BY <2>1, <2>2, <2>3
<1>4. SetupSteps(w, D) BY <1>1, <1>3 DEF SetupSteps, Writes
<1> QED BY <1>4 DEF w

\* A directory is indexed that was made by one of the steps before.
LEMMA SetupIndex ==
    ASSUME NEW D, NEW S, SetupSteps(S, D), NEW d \in D \cap PortDirs,
           \E j \in 1 .. Len(S) : S[j] = Mkdir(d)
    PROVE SetupSteps(S \o <<Index(d)>>, D)
<1> DEFINE U == S \o <<Index(d)>>
<1>1. Sequence(S) /\ Len(S) \in Nat BY SequenceAny DEF SetupSteps
<1>2. /\ Sequence(U) /\ Len(U) = Len(S) + 1
      /\ \A i \in 1 .. Len(S) : U[i] = S[i]
      /\ U[Len(S) + 1] = Index(d)
  <2>1. Sequence(<<Index(d)>>) /\ Len(<<Index(d)>>) = 1 /\ <<Index(d)>>[1] = Index(d)
    BY OneAny
  <2> HIDE DEF U
  <2>2. IsConcat(U, S, <<Index(d)>>) BY <1>1, <2>1, ConcatAny DEF U
  <2> QED BY <2>1, <2>2 DEF IsConcat
<1> HIDE DEF U
<1>3. ASSUME NEW i \in 1 .. Len(U)
      PROVE  /\ U[i].do \in {"mkdir", "write", "index", "signal"}
             /\ U[i].do = "mkdir" => U[i].dir \in D
             /\ U[i].do = "write" => /\ U[i].file \in Files /\ U[i].file[1] \in D
                                     /\ IsValue(U[i].file, U[i].value)
             /\ U[i].do = "index" => /\ U[i].dir \in D \cap PortDirs
                                     /\ \E j \in 1 .. i - 1 : U[j] = Mkdir(U[i].dir)
             /\ U[i].do = "signal" => U[i].dir = SwitchDir
  <2>1. CASE i \in 1 .. Len(S)
    <3>1. U[i] = S[i] /\ \A j \in 1 .. i - 1 : U[j] = S[j] BY <1>1, <1>2, <2>1
    <3> QED BY <2>1, <3>1 DEF SetupSteps
  <2>2. CASE i \notin 1 .. Len(S)
    <3>1. i = Len(S) + 1 /\ i - 1 = Len(S) BY <1>1, <1>2, <2>2
    <3>2. U[i].do = "index" /\ U[i].dir = d BY <1>2, <3>1 DEF Index
    <3> QED BY <1>2, <3>1, <3>2
  <2> QED BY <2>1, <2>2
<1> QED BY <1>2, <1>3 DEF SetupSteps, U

\* A port's directory is made, filled and indexed.
LEMMA AddPortSteps ==
    ASSUME NEW D, NEW p, PortDir(p) \in D \cap PortDirs, Typed(PortDir(p), PortFiles, p)
    PROVE SetupSteps(AddPort(p), D)
<1> DEFINE d == PortDir(p)
           M == <<Mkdir(d)>>
           W == WriteAll(d, PortFiles, p)
           S == M \o W
<1>1. SetupSteps(M, D) BY SetupOne
<1>2. SetupSteps(W, D) BY NamesAny, SetupWrites
<1> HIDE DEF W
<1>3. Sequence(M) /\ Len(M) = 1 /\ M[1] = Mkdir(d) BY OneAny
<1> HIDE DEF M
<1>4. SetupSteps(S, D) BY <1>1, <1>2, SetupConcat
<1>5. IsConcat(S, M, W) BY <1>3, <1>2, ConcatAny DEF SetupSteps
<1> HIDE DEF S
<1>6. 1 \in 1 .. Len(S) /\ S[1] = Mkdir(d) BY <1>3, <1>5 DEF IsConcat
<1> HIDE DEF d
<1>7. SetupSteps(S \o <<Index(d)>>, D) BY <1>4, <1>6, SetupIndex DEF d
<1> QED BY <1>7 DEF AddPort, S, M, W, d

\* The first n sequences, one after the other.
Flattens(seqs, n, f) ==
    f = [i \in 1 .. n |-> IF i = 1 THEN seqs[i] ELSE f[i - 1] \o seqs[i]]

\* They can be put together.
LEMMA FlattensExists ==
    ASSUME NEW seqs, NEW n \in Nat
    PROVE \E f : Flattens(seqs, n, f)
<1> DEFINE S == {k \in Nat : ~\E f : Flattens(seqs, k, f)}
<1>1. SUFFICES ASSUME S # {} PROVE FALSE OBVIOUS
<1>2. PICK k \in S : \A j \in S : k <= j
  <2> HIDE DEF S
  <2>1. S \in SUBSET Nat BY DEF S
  <2> QED BY <1>1, <2>1, LeastNatural
<1>3. k \in Nat /\ ~\E f : Flattens(seqs, k, f) OBVIOUS
<1>4. CASE k = 0
  <2> DEFINE f == [i \in 1 .. 0 |-> << >>]
  <2>1. f = [i \in 1 .. 0 |-> IF i = 1 THEN seqs[i] ELSE f[i - 1] \o seqs[i]] OBVIOUS
  <2> HIDE DEF f
  <2>2. Flattens(seqs, 0, f) BY <2>1 DEF Flattens
  <2> QED BY <1>3, <1>4, <2>2
<1>5. CASE k # 0
  <2>1. k - 1 \in Nat /\ ~(k <= k - 1) BY <1>3, <1>5
  <2>2. k - 1 \notin S BY <1>2, <2>1
  <2>3. PICK g : Flattens(seqs, k - 1, g) BY <2>1, <2>2
  <2> DEFINE Value(h, i) == IF i = 1 THEN seqs[i] ELSE h[i - 1] \o seqs[i]
             f == [i \in 1 .. k |-> IF i = k THEN Value(g, k) ELSE g[i]]
  <2>4. \A i \in 1 .. k : f[i] = Value(f, i)
    <3> TAKE i \in 1 .. k
    <3>1. CASE i = k
      <4>1. i # 1 => k - 1 \in 1 .. k /\ k - 1 # k BY <1>3, <1>5, <3>1
      <4>2. i # 1 => f[k - 1] = g[k - 1] BY <4>1
      <4> QED BY <3>1, <4>1, <4>2
    <3>2. CASE i # k
      <4>1. i \in 1 .. k - 1 BY <1>3, <3>2
      <4>2. g[i] = Value(g, i) BY <2>3, <4>1 DEF Flattens
      <4>3. i # 1 => i - 1 \in 1 .. k /\ i - 1 # k BY <1>3, <4>1
      <4>4. i # 1 => f[i - 1] = g[i - 1] BY <4>3
      <4>5. f[i] = g[i] BY <3>2
      <4> QED BY <4>2, <4>4, <4>5
    <3> QED BY <3>1, <3>2
  <2>5. f = [i \in 1 .. k |-> f[i]] OBVIOUS
  <2> HIDE DEF f
  <2>6. Flattens(seqs, k, f) BY <2>4, <2>5 DEF Flattens
  <2> QED BY <1>3, <2>6
<1> QED BY <1>4, <1>5

\* Flattened steps are steps of the same kind.
LEMMA FlattenSteps ==
    ASSUME NEW D, NEW n \in Nat, NEW seqs, seqs = [i \in 1 .. n |-> seqs[i]],
           \A i \in 1 .. n : SetupSteps(seqs[i], D)
    PROVE SetupSteps(Seqs!FlattenSeq(seqs), D)
<1>1. Sequence(seqs) /\ Len(seqs) = n BY FunctionAny
<1>2. CASE n = 0
  <2>1. Seqs!FlattenSeq(seqs) = seqs BY <1>1, <1>2 DEF Seqs!FlattenSeq
  <2>2. SetupSteps(seqs, D) BY <1>1, <1>2 DEF SetupSteps
  <2> QED BY <2>1, <2>2
<1>3. CASE n # 0
  <2>1. \E f : Flattens(seqs, n, f) BY FlattensExists
  <2>2. PICK f : Flattens(seqs, n, f) /\ Seqs!FlattenSeq(seqs) = f[n]
    BY <1>1, <1>3, <2>1 DEF Flattens, Seqs!FlattenSeq
  <2> DEFINE S == {k \in 1 .. n : ~SetupSteps(f[k], D)}
  <2>3. SUFFICES ASSUME S # {} PROVE FALSE
    <3>1. n \in 1 .. n BY <1>3
    <3>2. SetupSteps(f[n], D) BY <2>3, <3>1
    <3> QED BY <2>2, <3>2
  <2>4. PICK k \in S : \A j \in S : k <= j
    <3> HIDE DEF S
    <3>1. S \in SUBSET Nat BY DEF S
    <3> QED BY <2>3, <3>1, LeastNatural
  <2>5. k \in 1 .. n /\ ~SetupSteps(f[k], D) OBVIOUS
  <2>6. f[k] = IF k = 1 THEN seqs[k] ELSE f[k - 1] \o seqs[k] BY <2>2, <2>5 DEF Flattens
  <2>7. CASE k = 1 BY <2>5, <2>6, <2>7
  <2>8. CASE k # 1
    <3>1. k - 1 \in 1 .. n /\ ~(k <= k - 1) BY <2>5, <2>8
    <3>2. SetupSteps(f[k - 1], D) BY <2>4, <3>1
    <3>3. SetupSteps(f[k - 1] \o seqs[k], D) BY <2>5, <3>2, SetupConcat
    <3> QED BY <2>5, <2>6, <2>8, <3>3
  <2> QED BY <2>7, <2>8
<1> QED BY <1>2, <1>3

\* It makes no difference in which order sequences are put together.
LEMMA ConcatAssoc ==
    ASSUME NEW a, NEW b, NEW c, NEW bc, NEW x, NEW ab,
           IsConcat(bc, b, c), IsConcat(x, a, bc), IsConcat(ab, a, b)
    PROVE IsConcat(x, ab, c)
<1>1. /\ Len(a) \in Nat /\ Len(b) \in Nat /\ Len(c) \in Nat /\ Len(ab) = Len(a) + Len(b)
      /\ Len(bc) = Len(b) + Len(c) /\ Len(x) = Len(a) + Len(bc) /\ Sequence(x)
  BY DEF IsConcat
<1>2. ASSUME NEW i \in 1 .. Len(ab) PROVE x[i] = ab[i]
  <2>1. CASE i \in 1 .. Len(a) BY <2>1 DEF IsConcat
  <2>2. CASE i \notin 1 .. Len(a)
    <3> DEFINE k == i - Len(a)
    <3>1. k \in 1 .. Len(b) /\ k \in 1 .. Len(bc) /\ i = Len(a) + k BY <1>1, <2>2
    <3> HIDE DEF k
    <3> QED BY <3>1 DEF IsConcat
  <2> QED BY <2>1, <2>2
<1>3. ASSUME NEW i \in 1 .. Len(c) PROVE x[Len(ab) + i] = c[i]
  <2>1. Len(b) + i \in 1 .. Len(bc) /\ Len(ab) + i = Len(a) + (Len(b) + i) BY <1>1
  <2>2. x[Len(ab) + i] = bc[Len(b) + i] BY <2>1 DEF IsConcat
  <2> QED BY <2>2 DEF IsConcat
<1> QED BY <1>1, <1>2, <1>3 DEF IsConcat

\* The sizes of ports.
LEMMA PortSizes ==
    /\ PortSize = <<SizeOf(ofp_phy_port), SizeOf(ofp11_port)>> /\ DOMAIN PortSize = {1, 2}
    /\ \A v \in DOMAIN PortSize : PortSize[v] \in Nat \ {0}
<1>1. <<ofp_phy_port, 48>> \in Sizes /\ <<ofp11_port, 64>> \in Sizes BY DEF Sizes
<1>2. SizeOf(ofp_phy_port) = 48 /\ SizeOf(ofp11_port) = 64
  <2>1. \A z \in Sizes : SizeOf(z[1]) = z[2] BY Assertions
  <2>2. SizeOf(<<ofp_phy_port, 48>>[1]) = <<ofp_phy_port, 48>>[2] BY <1>1, <2>1
  <2>3. SizeOf(<<ofp11_port, 64>>[1]) = <<ofp11_port, 64>>[2] BY <1>1, <2>1
  <2> QED BY <2>2, <2>3
<1> QED BY <1>2 DEF PortSize

\* How many ports a FEATURES_REPLY lists.
PortCount(r) == (r.length - SizeOf(ofp_switch_features)) \div PortSize[r.version]

\* The ports of a reply that can be counted.
LEMMA PortsOfReply ==
    ASSUME NEW r \in Replies, r.version \in DOMAIN PortSize,
           (r.length - SizeOf(ofp_switch_features)) % PortSize[r.version] = 0
    PROVE /\ PortCount(r) \in Nat
          /\ \A i \in 1 .. PortCount(r) : i \in DOMAIN r.ports
<1>1. r.length - SizeOf(ofp_switch_features) \in Nat
  <2>1. <<ofp_switch_features, 32>> \in Sizes BY DEF Sizes
  <2>2. SizeOf(<<ofp_switch_features, 32>>[1]) = <<ofp_switch_features, 32>>[2]
    BY <2>1, Assertions
  <2>3. SizeOf(ofp_switch_features) = 32 BY <2>2
  <2> QED BY <2>3, PacketAssumption
<1>2. PortSize[r.version] \in Nat \ {0} BY PortSizes
<1>3. PortCount(r) \in Nat
  <2> DEFINE e == r.length - SizeOf(ofp_switch_features)
             s == PortSize[r.version]
  <2>1. e \in Nat /\ s \in Nat \ {0} BY <1>1, <1>2
  <2> HIDE DEF e, s
  <2>2. e \div s \in Nat BY <2>1
  <2> QED BY <2>2 DEF PortCount, e, s
<1>4. 1 .. PortCount(r) \subseteq DOMAIN r.ports BY PacketAssumption DEF PortCount
<1> QED BY <1>3, <1>4

\* The steps that set a switch up: of the switch and of its ports, or of the
\* switch alone and an exception.
SetsUp(T, isNew) ==
    \/ /\ SetupSteps(T, {SwitchDir} \cup PortDirs)
       /\ T # << >> /\ T[1] = Mkdir(SwitchDir)
    \/ \E S : /\ SetupSteps(S, {SwitchDir}) /\ S # << >> /\ S[1] = Mkdir(SwitchDir)
              /\ IsConcat(T, S, <<Throw(isNew)>>)

\* What the switch says of itself comes first.
LEMMA SwitchSteps ==
    ASSUME NEW r \in Replies, NEW D, SwitchDir \in D
    PROVE LET S == <<Mkdir(SwitchDir)>> \o WriteAll(SwitchDir, SwitchFiles, r) IN
          /\ SetupSteps(S, D) /\ S # << >> /\ S[1] = Mkdir(SwitchDir)
          /\ IsConcat(S, <<Mkdir(SwitchDir)>>, WriteAll(SwitchDir, SwitchFiles, r))
<1> DEFINE M == <<Mkdir(SwitchDir)>>
           W == WriteAll(SwitchDir, SwitchFiles, r)
           S == M \o W
<1>1. SetupSteps(M, D) BY SetupOne
<1>2. SetupSteps(W, D)
  <2>1. Typed(SwitchDir, SwitchFiles, r) BY PacketAssumption
  <2> QED BY <2>1, NamesAny, SetupWrites
<1> HIDE DEF W
<1>3. Sequence(M) /\ Len(M) = 1 /\ M[1] = Mkdir(SwitchDir) BY OneAny
<1> HIDE DEF M
<1>4. SetupSteps(S, D) BY <1>1, <1>2, SetupConcat
<1>5. IsConcat(S, M, W) BY <1>3, <1>2, ConcatAny DEF SetupSteps
<1> HIDE DEF S
<1>6. 1 \in 1 .. Len(S) /\ S[1] = Mkdir(SwitchDir) BY <1>3, <1>5 DEF IsConcat
<1>7. S # << >>
  <2>1. Len(<< >>) = 0 OBVIOUS
  <2> QED BY <1>6, <2>1
<1> QED BY <1>4, <1>5, <1>6, <1>7 DEF S, M, W

\* OFSwitch::OFSwitch()
LEMMA SetUpShape ==
    ASSUME NEW r \in Replies
    PROVE SetsUp(SetUp(r), SwitchDir \notin present)
<1> DEFINE D == {SwitchDir} \cup PortDirs
           M == <<Mkdir(SwitchDir)>>
           W == WriteAll(SwitchDir, SwitchFiles, r)
           size == PortSize[r.version]
           extra == r.length - SizeOf(ofp_switch_features)
           Th == <<Throw(SwitchDir \notin present)>>
<1>1. CASE r.version \notin DOMAIN PortSize
  <2>1. SetUp(r) = M \o << >> BY <1>1 DEF SetUp
  <2>2. SetupSteps(M, D) /\ SetupSteps(<< >>, D)
    <3>1. Sequence(<< >>) /\ 1 .. Len(<< >>) = {}
      <4>1. << >> \in Seq({}) OBVIOUS
      <4> QED BY <4>1 DEF Sequence
    <3>2. SetupSteps(<< >>, D) BY <3>1, Zenon DEF SetupSteps
    <3> QED BY <3>2, SetupOne
  <2>3. SetupSteps(SetUp(r), D) BY <2>1, <2>2, SetupConcat
  <2>4. SetUp(r) = M BY <2>1
  <2>5. M # << >> /\ M[1] = Mkdir(SwitchDir) OBVIOUS
  <2> QED BY <2>3, <2>4, <2>5 DEF SetsUp
<1>2. CASE r.version \in DOMAIN PortSize /\ extra % size # 0
  <2> DEFINE S == M \o W
  <2>1. SetUp(r) = M \o (W \o Th) BY <1>2 DEF SetUp, AddPorts
  <2>2. SetupSteps(S, {SwitchDir}) /\ S # << >> /\ S[1] = Mkdir(SwitchDir) /\ IsConcat(S, M, W)
    BY SwitchSteps
  <2>3. Sequence(M) /\ Sequence(Th) BY OneAny
  <2>4. Sequence(W) BY NamesAny, WriteAllShape DEF Writes
  <2> HIDE DEF M, W, Th, S
  <2>5. IsConcat(W \o Th, W, Th) BY <2>3, <2>4, ConcatAny
  <2>6. IsConcat(SetUp(r), M, W \o Th)
    <3>1. Sequence(W \o Th) BY <2>5 DEF IsConcat
    <3> QED BY <2>1, <2>3, <3>1, ConcatAny
  <2>7. IsConcat(SetUp(r), S, Th) BY <2>2, <2>5, <2>6, ConcatAssoc
  <2> QED BY <2>2, <2>7 DEF SetsUp, Th
<1>3. CASE r.version \in DOMAIN PortSize /\ extra % size = 0
  <2> DEFINE n == PortCount(r)
             ports == [i \in 1 .. n |-> AddPort(r.ports[i])]
             P == Seqs!FlattenSeq(ports)
             G == <<Signal(SwitchDir)>>
  <2>1. SetUp(r) = M \o (W \o (P \o G)) BY <1>3 DEF SetUp, AddPorts, PortCount
  <2>2. n \in Nat /\ \A i \in 1 .. n : i \in DOMAIN r.ports BY <1>3, PortsOfReply
  <2>3. \A i \in 1 .. n : SetupSteps(AddPort(r.ports[i]), D)
    <3> TAKE i \in 1 .. n
    <3>1. i \in DOMAIN r.ports BY <2>2
    <3>2. PortDir(r.ports[i]) \in PortDirs BY <3>1 DEF PortDirs
    <3>3. Typed(PortDir(r.ports[i]), PortFiles, r.ports[i]) BY <3>1, PacketAssumption
    <3> QED BY <3>2, <3>3, AddPortSteps
  <2>4. SetupSteps(P, D)
    <3> HIDE DEF n
    <3>1. ports = [i \in 1 .. n |-> ports[i]] OBVIOUS
    <3>2. \A i \in 1 .. n : SetupSteps(ports[i], D) BY <2>3
    <3> HIDE DEF ports, D
    <3> QED BY <2>2, <3>1, <3>2, FlattenSteps
  <2>5. SetupSteps(G, D) BY SetupOne
  <2>6. SetupSteps(M, D) BY SetupOne
  <2>7. SetupSteps(W, D)
    <3>1. Typed(SwitchDir, SwitchFiles, r) BY PacketAssumption
    <3> QED BY <3>1, NamesAny, SetupWrites
  <2>8. M[1] = Mkdir(SwitchDir) /\ Sequence(M) /\ Len(M) = 1 BY OneAny
  <2> HIDE DEF M, W, P, G, D
  <2>9. SetupSteps(P \o G, D) BY <2>4, <2>5, SetupConcat
  <2>10. SetupSteps(W \o (P \o G), D) BY <2>7, <2>9, SetupConcat
  <2>11. SetupSteps(SetUp(r), D) BY <2>1, <2>6, <2>10, SetupConcat
  <2>12. IsConcat(SetUp(r), M, W \o (P \o G)) BY <2>1, <2>6, <2>10, ConcatAny DEF SetupSteps
  <2>13. SetUp(r)[1] = Mkdir(SwitchDir) /\ 1 \in 1 .. Len(SetUp(r))
    BY <2>8, <2>12 DEF IsConcat
  <2>14. SetUp(r) # << >>
    <3>1. Len(<< >>) = 0 OBVIOUS
    <3> QED BY <2>13, <3>1
  <2> QED BY <2>11, <2>13, <2>14 DEF SetsUp, D
<1> QED BY <1>1, <1>2, <1>3

-----------------------------------------------------------------------------
(* The steps that write the names of ports *)

\* The file of a port's name.
NameOf(d) == <<d, "name">>

\* The step at k indexes p, whose directory was made before and its name, if it
\* has one, written into it.
Labels(T, k, p) ==
    /\ T[k].dir = PortDir(p)
    /\ p.name # << >> =>
          \E j \in 1 .. k - 1 : /\ T[j] = WriteTo(PortDir(p), "name", p.name)
                                /\ \E l \in 1 .. j - 1 : T[l] = Mkdir(PortDir(p))

\* Into the file of a port's name its name is written, or nothing.
WritesNames(T) ==
    \A k \in 1 .. Len(T) : \A d \in PortDirs :
       T[k].do = "write" /\ T[k].file = NameOf(d) => T[k].value \in {<< >>, d[2]}

\* No directory is indexed twice.
IndexedOnce(T) ==
    \A k, l \in 1 .. Len(T) :
       T[k].do = "index" /\ T[l].do = "index" /\ T[k].dir = T[l].dir => k = l

\* Steps that index ports I of r.
LabelSteps(T, r, I) ==
    /\ Sequence(T) /\ WritesNames(T)
    /\ \A k \in 1 .. Len(T) : T[k].do = "index" => \E i \in I : Labels(T, k, r.ports[i])
    /\ NamesDiffer(r) => IndexedOnce(T)

\* They also index ports of a larger set.
LEMMA LabelMore ==
    ASSUME NEW r, NEW I, NEW J, I \subseteq J, NEW T, LabelSteps(T, r, I)
    PROVE LabelSteps(T, r, J)
BY DEF LabelSteps

\* Steps of some ports, and then of others.
LEMMA LabelConcat ==
    ASSUME NEW r, NEW I \in SUBSET DOMAIN r.ports, NEW J \in SUBSET DOMAIN r.ports,
           I \cap J = {}, NEW S, LabelSteps(S, r, I), NEW T, LabelSteps(T, r, J)
    PROVE LabelSteps(S \o T, r, I \cup J)
<1> DEFINE U == S \o T
<1>1. Sequence(S) /\ Sequence(T) BY DEF LabelSteps
<1>2. /\ Sequence(U) /\ Len(U) = Len(S) + Len(T) /\ Len(S) \in Nat /\ Len(T) \in Nat
      /\ \A i \in 1 .. Len(S) : U[i] = S[i]
      /\ \A i \in 1 .. Len(T) : U[Len(S) + i] = T[i]
  <2> HIDE DEF U
  <2>1. IsConcat(U, S, T) BY <1>1, ConcatAny DEF U
  <2> QED BY <2>1 DEF IsConcat
<1> HIDE DEF U
<1>3. ASSUME NEW k \in 1 .. Len(U)
      PROVE  \/ k \in 1 .. Len(S) /\ U[k] = S[k]
             \/ \E i \in 1 .. Len(T) : k = Len(S) + i /\ U[k] = T[i]
  <2>1. CASE k \in 1 .. Len(S) BY <1>2, <2>1
  <2>2. CASE k \notin 1 .. Len(S)
    <3>1. k - Len(S) \in 1 .. Len(T) /\ k = Len(S) + (k - Len(S)) BY <1>2, <2>2
    <3> QED BY <1>2, <3>1
  <2> QED BY <2>1, <2>2
<1>4. WritesNames(U)
  <2>1. SUFFICES ASSUME NEW k \in 1 .. Len(U), NEW d \in PortDirs, U[k].do = "write",
                        U[k].file = NameOf(d)
                 PROVE U[k].value \in {<< >>, d[2]}
    BY Zenon DEF WritesNames
  <2>2. WritesNames(S) /\ WritesNames(T) BY DEF LabelSteps
  <2>3. CASE k \in 1 .. Len(S) /\ U[k] = S[k] BY <2>1, <2>2, <2>3 DEF WritesNames
  <2>4. ASSUME NEW i \in 1 .. Len(T), U[k] = T[i] PROVE U[k].value \in {<< >>, d[2]}
    BY <2>1, <2>2, <2>4 DEF WritesNames
  <2> QED BY <1>3, <2>3, <2>4
<1>5. ASSUME NEW k \in 1 .. Len(S), S[k].do = "index"
      PROVE  \E i \in I : Labels(U, k, r.ports[i])
  <2>1. PICK i \in I : Labels(S, k, r.ports[i]) BY <1>5 DEF LabelSteps
  <2>2. \A j \in 1 .. k : U[j] = S[j] BY <1>2
  <2>3. Labels(U, k, r.ports[i])
    <3>1. \A j \in 1 .. k - 1 : U[j] = S[j] /\ \A l \in 1 .. j - 1 : U[l] = S[l] BY <1>2
    <3>2. U[k] = S[k] BY <1>2
    <3> QED BY <2>1, <3>1, <3>2 DEF Labels
  <2> QED BY <2>3
<1>6. ASSUME NEW k \in 1 .. Len(T), T[k].do = "index"
      PROVE  \E i \in J : Labels(U, Len(S) + k, r.ports[i])
  <2>1. PICK i \in J : Labels(T, k, r.ports[i]) BY <1>6 DEF LabelSteps
  <2> DEFINE p == r.ports[i]
  <2>2. U[Len(S) + k] = T[k] BY <1>2
  <2>3. ASSUME p.name # << >>
        PROVE  \E j \in 1 .. (Len(S) + k) - 1 :
                  /\ U[j] = WriteTo(PortDir(p), "name", p.name)
                  /\ \E l \in 1 .. j - 1 : U[l] = Mkdir(PortDir(p))
    <3>1. PICK j \in 1 .. k - 1 : /\ T[j] = WriteTo(PortDir(p), "name", p.name)
                                  /\ \E l \in 1 .. j - 1 : T[l] = Mkdir(PortDir(p))
      BY <2>1, <2>3 DEF Labels
    <3>2. PICK l \in 1 .. j - 1 : T[l] = Mkdir(PortDir(p)) BY <3>1
    <3> HIDE DEF p
    <3>3. j \in 1 .. Len(T) /\ l \in 1 .. Len(T) BY <1>2
    <3>4. U[Len(S) + j] = T[j] /\ U[Len(S) + l] = T[l] BY <1>2, <3>3
    <3>5. /\ Len(S) + j \in 1 .. (Len(S) + k) - 1
          /\ Len(S) + l \in 1 .. (Len(S) + j) - 1
      BY <1>2
    <3> QED BY <3>1, <3>2, <3>4, <3>5
  <2>4. Labels(U, Len(S) + k, p) BY <2>1, <2>2, <2>3 DEF Labels
  <2> QED BY <2>4
<1>7. ASSUME NEW k \in 1 .. Len(U), U[k].do = "index"
      PROVE  \E i \in I \cup J : Labels(U, k, r.ports[i])
  <2>1. CASE k \in 1 .. Len(S) /\ U[k] = S[k] BY <1>5, <1>7, <2>1
  <2>2. ASSUME NEW i \in 1 .. Len(T), k = Len(S) + i, U[k] = T[i]
        PROVE  \E j \in I \cup J : Labels(U, k, r.ports[j])
    <3>1. T[i].do = "index" BY <1>7, <2>2
    <3>2. \E j \in J : Labels(U, Len(S) + i, r.ports[j]) BY <1>6, <3>1
    <3> QED BY <2>2, <3>2
  <2> QED BY <1>3, <2>1, <2>2
<1>8. ASSUME NamesDiffer(r) PROVE IndexedOnce(U)
  <2>1. IndexedOnce(S) /\ IndexedOnce(T) BY <1>8 DEF LabelSteps
  <2>2. ASSUME NEW k \in 1 .. Len(S), S[k].do = "index", NEW l \in 1 .. Len(T),
               T[l].do = "index"
        PROVE  S[k].dir # T[l].dir
    <3>1. PICK i \in I : Labels(S, k, r.ports[i]) BY <2>2 DEF LabelSteps
    <3>2. PICK j \in J : Labels(T, l, r.ports[j]) BY <2>2 DEF LabelSteps
    <3>3. i # j /\ i \in DOMAIN r.ports /\ j \in DOMAIN r.ports OBVIOUS
    <3>4. PortDir(r.ports[i]) # PortDir(r.ports[j]) BY <1>8, <3>3 DEF NamesDiffer
    <3> QED BY <3>1, <3>2, <3>4 DEF Labels
  <2>3. ASSUME NEW k \in 1 .. Len(U), NEW l \in 1 .. Len(U), U[k].do = "index",
               U[l].do = "index", U[k].dir = U[l].dir
        PROVE  k = l
    <3>1. CASE U[k] = S[k] /\ k \in 1 .. Len(S) /\ U[l] = S[l] /\ l \in 1 .. Len(S)
      BY <2>1, <2>3, <3>1 DEF IndexedOnce
    <3>2. ASSUME NEW i \in 1 .. Len(T), k = Len(S) + i, U[k] = T[i],
                 NEW j \in 1 .. Len(T), l = Len(S) + j, U[l] = T[j]
          PROVE  k = l
      <4>1. i = j BY <2>1, <2>3, <3>2 DEF IndexedOnce
      <4> QED BY <3>2, <4>1
    <3> QED BY <1>3, <2>2, <2>3, <3>1, <3>2
  <2> QED BY <2>3, Zenon DEF IndexedOnce
<1> QED BY <1>2, <1>4, <1>7, <1>8 DEF LabelSteps, U

\* Steps that neither write nor index.
LEMMA LabelOne ==
    ASSUME NEW r, NEW s, s.do \notin {"write", "index"}
    PROVE LabelSteps(<<s>>, r, {})
<1>1. Sequence(<<s>>) /\ Len(<<s>>) = 1 /\ <<s>>[1] = s BY OneAny
<1>2. PICK T : T = <<s>> OBVIOUS
<1>3. \A k \in 1 .. Len(T) : T[k] = s BY <1>1, <1>2
<1>4. LabelSteps(T, r, {}) BY <1>1, <1>2, <1>3 DEF LabelSteps, WritesNames, IndexedOnce
<1> QED BY <1>2, <1>4

\* No steps at all.
LEMMA LabelNone == ASSUME NEW r PROVE LabelSteps(<< >>, r, {})
<1>1. Sequence(<< >>) /\ 1 .. Len(<< >>) = {}
  <2>1. << >> \in Seq({}) OBVIOUS
  <2> QED BY <2>1 DEF Sequence
<1> QED BY <1>1, Zenon DEF LabelSteps, WritesNames, IndexedOnce

\* Files of a directory, of whose name the name is written.
LEMMA LabelWrites ==
    ASSUME NEW r, NEW d, NEW names, Sequence(names), NEW rec,
           d \in PortDirs => rec["name"] \in {<< >>, d[2]}
    PROVE LabelSteps(WriteAll(d, names, rec), r, {})
<1> DEFINE w == WriteAll(d, names, rec)
<1>1. Writes(w, d, names, rec) BY WriteAllShape
<1> HIDE DEF w
<1>2. ASSUME NEW k \in 1 .. Len(w)
      PROVE  /\ w[k].do = "write"
             /\ \A e \in PortDirs : w[k].file = NameOf(e) => w[k].value \in {<< >>, e[2]}
  <2>1. PICK i \in 1 .. Len(names) :
           <<d, names[i]>> \in Files /\ w[k] = WriteTo(d, names[i], rec[names[i]])
    BY <1>1 DEF Writes
  <2>2. /\ w[k].do = "write" /\ w[k].file = <<d, names[i]>>
        /\ w[k].value = rec[names[i]]
    BY <2>1 DEF WriteTo
  <2>3. ASSUME NEW e \in PortDirs, w[k].file = NameOf(e) PROVE w[k].value \in {<< >>, e[2]}
    <3>1. d = e /\ names[i] = "name" BY <2>2, <2>3 DEF NameOf
    <3> QED BY <2>2, <3>1
  <2> QED BY <2>2, <2>3
<1>3. Sequence(w) BY <1>1 DEF Writes
<1>4. WritesNames(w) BY <1>2 DEF WritesNames
<1>5. \A k \in 1 .. Len(w) : w[k].do # "index" BY <1>2
<1>6. LabelSteps(w, r, {}) BY <1>3, <1>4, <1>5 DEF LabelSteps, IndexedOnce
<1> QED BY <1>6 DEF w

\* The name of a port and that of its directory.
LEMMA PortNames ==
    ASSUME NEW r \in Replies, NEW i \in DOMAIN r.ports
    PROVE LET p == r.ports[i]  d == PortDir(p) IN
          /\ d \in PortDirs /\ d = <<"ports", d[2], 0>> /\ d[2] # << >>
          /\ NameOf(d) \in Files /\ NameOf(d) \in Of({"str"}) /\ NameOf(d) \in Of(Strings)
          /\ p.name \in Seq(Chars) /\ p.name \in {<< >>, d[2]}
<1> DEFINE p == r.ports[i]
           d == PortDir(p)
<1>1. d = <<"ports", IF p.name = << >> THEN Digits[p.port_no] ELSE p.name, 0>> BY DEF PortDir
<1>2. d \in PortDirs BY DEF PortDirs
<1>3. /\ NameOf(d) \in Of({"str"}) /\ (p.name = << >> => Digits[p.port_no] # << >>)
      /\ Typed(d, PortFiles, p)
  BY PacketAssumption DEF NameOf
<1> HIDE DEF d
<1>4. d[2] = (IF p.name = << >> THEN Digits[p.port_no] ELSE p.name) BY <1>1
<1>5. NameOf(d) \in Files /\ NameOf(d) \in Of(Strings) BY <1>3 DEF Of, Strings
<1>6. p.name \in Seq(Chars)
  <2>1. 3 \in DOMAIN PortFiles /\ PortFiles[3] = "name" BY DEF PortFiles
  <2>2. NameOf(d) \notin Of(Ints) /\ NameOf(d) \notin Of(Addrs) BY <1>5, TypesApart
  <2> QED BY <1>3, <1>5, <2>1, <2>2 DEF Typed, NameOf
<1>7. d = <<"ports", d[2], 0>> BY <1>1, <1>4
<1> QED BY <1>2, <1>3, <1>4, <1>5, <1>6, <1>7 DEF d

\* OFPort's constructor writes the name before _add_port() indexes the port.
LEMMA AddPortLabels ==
    ASSUME NEW r \in Replies, NEW i \in DOMAIN r.ports
    PROVE LabelSteps(AddPort(r.ports[i]), r, {i})
<1> DEFINE p == r.ports[i]
           d == PortDir(p)
           M == <<Mkdir(d)>>
           W == WriteAll(d, PortFiles, p)
           A == M \o W
           X == <<Index(d)>>
           U == A \o X
<1>1. /\ p.name \in {<< >>, d[2]} /\ NameOf(d) \in Files /\ Sequence(PortFiles)
  BY PortNames, NamesAny
<1>2. LabelSteps(M, r, {}) /\ Sequence(M) /\ Len(M) = 1 /\ M[1] = Mkdir(d)
  <2>1. Mkdir(d).do \notin {"write", "index"} BY DEF Mkdir
  <2> QED BY <2>1, LabelOne, OneAny
<1>3. LabelSteps(W, r, {}) BY <1>1, LabelWrites
<1>4. Writes(W, d, PortFiles, p) BY <1>1, WriteAllShape
<1>5. Sequence(X) /\ Len(X) = 1 /\ X[1] = Index(d) BY OneAny
<1>6. U = AddPort(p) BY DEF AddPort
<1> HIDE DEF M, W, X, d, p
<1>7. LabelSteps(A, r, {}) BY <1>2, <1>3, LabelConcat
<1>8. IsConcat(A, M, W) BY <1>2, <1>4, ConcatAny DEF Writes
<1> HIDE DEF A
<1>9. IsConcat(U, A, X)
  <2>1. Sequence(A) BY <1>8 DEF IsConcat
  <2> QED BY <1>5, <2>1, ConcatAny
<1> HIDE DEF U
<1>10. /\ Sequence(U) /\ Len(U) = Len(A) + 1 /\ Len(A) \in Nat /\ Len(A) = 1 + Len(W)
       /\ Len(W) \in Nat
       /\ \A k \in 1 .. Len(A) : U[k] = A[k]
       /\ U[Len(A) + 1] = Index(d)
       /\ A[1] = Mkdir(d) /\ \A k \in 1 .. Len(W) : A[1 + k] = W[k]
  BY <1>2, <1>5, <1>8, <1>9 DEF IsConcat
<1>11. \A k \in 1 .. Len(U) : k = Len(A) + 1 \/ k \in 1 .. Len(A) BY <1>10
<1>12. Index(d).do = "index" /\ Index(d).dir = d BY DEF Index
<1>13. ASSUME NEW k \in 1 .. Len(A) PROVE U[k].do # "index" BY <1>7, <1>10 DEF LabelSteps
<1>14. WritesNames(U) BY <1>7, <1>10, <1>11, <1>12 DEF LabelSteps, WritesNames
<1>15. PICK j \in 1 .. Len(W) : W[j] = WriteTo(d, "name", p.name)
  <2>1. 3 \in 1 .. Len(PortFiles) /\ PortFiles[3] = "name" BY DEF PortFiles
  <2>2. <<d, PortFiles[3]>> \in Files BY <1>1, <2>1 DEF NameOf
  <2> QED BY <1>4, <2>1, <2>2 DEF Writes
<1>16. Labels(U, Len(A) + 1, p)
  <2>1. 1 + j \in 1 .. (Len(A) + 1) - 1 /\ 1 \in 1 .. (1 + j) - 1 /\ 1 + j \in 1 .. Len(A)
          /\ 1 \in 1 .. Len(A)
    BY <1>10
  <2>2. U[1 + j] = WriteTo(d, "name", p.name) /\ U[1] = Mkdir(d) BY <1>10, <1>15, <2>1
  <2> QED BY <1>10, <1>12, <2>1, <2>2 DEF Labels, d
<1>17. \A k \in 1 .. Len(U) : U[k].do = "index" => Labels(U, k, r.ports[i])
  BY <1>11, <1>13, <1>16 DEF p
<1>18. IndexedOnce(U) BY <1>11, <1>13 DEF IndexedOnce
<1>19. LabelSteps(U, r, {i}) BY <1>10, <1>14, <1>17, <1>18 DEF LabelSteps
<1> QED BY <1>6, <1>19 DEF p

\* All ports of a reply, one after the other.
LEMMA FlattenLabels ==
    ASSUME NEW r, NEW n \in Nat, \A i \in 1 .. n : i \in DOMAIN r.ports,
           NEW seqs, seqs = [i \in 1 .. n |-> seqs[i]],
           \A i \in 1 .. n : LabelSteps(seqs[i], r, {i})
    PROVE LabelSteps(Seqs!FlattenSeq(seqs), r, 1 .. n)
<1>1. Sequence(seqs) /\ Len(seqs) = n BY FunctionAny
<1>2. CASE n = 0
  <2>1. Seqs!FlattenSeq(seqs) = seqs BY <1>1, <1>2 DEF Seqs!FlattenSeq
  <2>2. LabelSteps(seqs, r, 1 .. n)
    BY <1>1, <1>2 DEF LabelSteps, WritesNames, IndexedOnce
  <2> QED BY <2>1, <2>2
<1>3. CASE n # 0
  <2>1. \E f : Flattens(seqs, n, f) BY FlattensExists
  <2>2. PICK f : Flattens(seqs, n, f) /\ Seqs!FlattenSeq(seqs) = f[n]
    BY <1>1, <1>3, <2>1 DEF Flattens, Seqs!FlattenSeq
  <2> DEFINE S == {k \in 1 .. n : ~LabelSteps(f[k], r, 1 .. k)}
  <2>3. SUFFICES ASSUME S # {} PROVE FALSE
    <3>1. n \in 1 .. n BY <1>3
    <3>2. LabelSteps(f[n], r, 1 .. n) BY <2>3, <3>1
    <3> QED BY <2>2, <3>2
  <2>4. PICK k \in S : \A j \in S : k <= j
    <3> HIDE DEF S
    <3>1. S \in SUBSET Nat BY DEF S
    <3> QED BY <2>3, <3>1, LeastNatural
  <2>5. k \in 1 .. n /\ ~LabelSteps(f[k], r, 1 .. k) OBVIOUS
  <2>6. f[k] = IF k = 1 THEN seqs[k] ELSE f[k - 1] \o seqs[k] BY <2>2, <2>5 DEF Flattens
  <2>7. CASE k = 1
    <3>1. {1} = 1 .. 1 OBVIOUS
    <3> QED BY <2>5, <2>6, <2>7, <3>1
  <2>8. CASE k # 1
    <3>1. k - 1 \in 1 .. n /\ ~(k <= k - 1) BY <2>5, <2>8
    <3>2. LabelSteps(f[k - 1], r, 1 .. k - 1) BY <2>4, <3>1
    <3>3. 1 .. k - 1 \in SUBSET DOMAIN r.ports /\ {k} \in SUBSET DOMAIN r.ports BY <2>5
    <3>4. (1 .. k - 1) \cap {k} = {} /\ (1 .. k - 1) \cup {k} = 1 .. k BY <2>5
    <3>5. LabelSteps(f[k - 1] \o seqs[k], r, (1 .. k - 1) \cup {k})
      BY <2>5, <3>2, <3>3, <3>4, LabelConcat
    <3> QED BY <2>5, <2>6, <2>8, <3>4, <3>5
  <2> QED BY <2>7, <2>8
<1> QED BY <1>2, <1>3

\* OFSwitch::OFSwitch()
LEMMA SetUpLabels ==
    ASSUME NEW r \in Replies
    PROVE LabelSteps(SetUp(r), r, DOMAIN r.ports)
<1> DEFINE M == <<Mkdir(SwitchDir)>>
           W == WriteAll(SwitchDir, SwitchFiles, r)
           size == PortSize[r.version]
           extra == r.length - SizeOf(ofp_switch_features)
           Th == <<Throw(SwitchDir \notin present)>>
           G == <<Signal(SwitchDir)>>
<1>1. LabelSteps(M, r, {})
  <2>1. Mkdir(SwitchDir).do \notin {"write", "index"} BY DEF Mkdir
  <2> QED BY <2>1, LabelOne
<1>2. LabelSteps(Th, r, {})
  <2>1. Throw(SwitchDir \notin present).do \notin {"write", "index"} BY DEF Throw
  <2> QED BY <2>1, LabelOne
<1>3. LabelSteps(G, r, {})
  <2>1. Signal(SwitchDir).do \notin {"write", "index"} BY DEF Signal
  <2> QED BY <2>1, LabelOne
<1>4. LabelSteps(W, r, {})
  <2>1. SwitchDir \notin PortDirs
    <3>1. SwitchDir[1] = "switch" BY DEF SwitchDir
    <3>2. \A d \in PortDirs : d[1] = "ports" BY DEF PortDirs, PortDir
    <3> QED BY <3>1, <3>2
  <2> QED BY <2>1, NamesAny, LabelWrites
<1>5. CASE r.version \notin DOMAIN PortSize
  <2>1. SetUp(r) = M \o << >> BY <1>5 DEF SetUp
  <2>2. SetUp(r) = M BY <2>1
  <2>3. LabelSteps(SetUp(r), r, {}) BY <1>1, <2>2
  <2> HIDE DEF M
  <2> QED BY <2>3, LabelMore
<1>6. CASE r.version \in DOMAIN PortSize /\ extra % size # 0
  <2>1. SetUp(r) = M \o (W \o Th) BY <1>6 DEF SetUp, AddPorts
  <2> HIDE DEF M, W, Th
  <2>2. {} \in SUBSET DOMAIN r.ports /\ {} \cap {} = {} /\ {} \cup {} = {} OBVIOUS
  <2>3. LabelSteps(W \o Th, r, {} \cup {}) BY <1>2, <1>4, <2>2, LabelConcat
  <2>4. LabelSteps(M \o (W \o Th), r, {} \cup {}) BY <1>1, <2>2, <2>3, LabelConcat
  <2> QED BY <2>1, <2>2, <2>4, LabelMore
<1>7. CASE r.version \in DOMAIN PortSize /\ extra % size = 0
  <2> DEFINE n == PortCount(r)
             ports == [i \in 1 .. n |-> AddPort(r.ports[i])]
             P == Seqs!FlattenSeq(ports)
  <2>1. SetUp(r) = M \o (W \o (P \o G)) BY <1>7 DEF SetUp, AddPorts, PortCount
  <2>2. n \in Nat /\ \A i \in 1 .. n : i \in DOMAIN r.ports BY <1>7, PortsOfReply
  <2>3. \A i \in 1 .. n : LabelSteps(AddPort(r.ports[i]), r, {i}) BY <2>2, AddPortLabels
  <2>4. LabelSteps(P, r, 1 .. n)
    <3> HIDE DEF n
    <3>1. ports = [i \in 1 .. n |-> ports[i]] OBVIOUS
    <3>2. \A i \in 1 .. n : LabelSteps(ports[i], r, {i}) BY <2>3
    <3> HIDE DEF ports
    <3> QED BY <2>2, <3>1, <3>2, FlattenLabels
  <2> HIDE DEF M, W, P, G, n
  <2>5. /\ {} \in SUBSET DOMAIN r.ports /\ 1 .. n \in SUBSET DOMAIN r.ports
        /\ (1 .. n) \cap {} = {} /\ {} \cap (1 .. n) = {}
        /\ (1 .. n) \cup {} = 1 .. n /\ {} \cup (1 .. n) = 1 .. n
    BY <2>2
  <2>6. LabelSteps(P \o G, r, (1 .. n) \cup {}) BY <1>3, <2>4, <2>5, LabelConcat
  <2>7. LabelSteps(W \o (P \o G), r, {} \cup (1 .. n)) BY <1>4, <2>5, <2>6, LabelConcat
  <2>8. LabelSteps(M \o (W \o (P \o G)), r, {} \cup (1 .. n)) BY <1>1, <2>5, <2>7, LabelConcat
  <2> QED BY <2>1, <2>5, <2>8, LabelMore
<1> QED BY <1>5, <1>6, <1>7

-----------------------------------------------------------------------------
(* The invariants *)

\* The directories there may be.
Dirs == {SwitchDir} \cup PortDirs \cup DOMAIN made

\* What is known of a packet_in directory.
Made == [msg : Packets, nth : Nat, life : Nat, new : BOOLEAN, said : BOOLEAN,
         touched : BOOLEAN]

\* Each step that a callback has still to take can be taken: it is about a
\* directory of a message, a port is indexed when its directory is there, and
\* an exception takes away no more than the switch's directory.
StepsInv ==
    /\ Sequence(task)
    /\ \A i \in 1 .. Len(task) :
          LET s == task[i] IN
          /\ s.do = "mkdir" => s.dir \in Dirs
          /\ s.do = "write" => s.file \in Files /\ IsValue(s.file, s.value)
          /\ s.do = "index" => /\ s.dir \in PortDirs
                               /\ s.dir \in present
                                     \/ \E j \in 1 .. i - 1 : task[j] = Mkdir(s.dir)
          /\ s.do = "data" => s.dir \in DOMAIN made /\ s.msg \in Packets
          /\ s.do = "signal" => s.dir \in {SwitchDir} \cup DOMAIN made
          /\ s.do = "throw" =>
                /\ i = Len(task) /\ DOMAIN ports_by_no = {}
                /\ s.isNew => present \subseteq {SwitchDir}
                /\ \A j \in 1 .. Len(task) : /\ task[j].do # "index"
                                             /\ task[j].do = "mkdir" => task[j].dir = SwitchDir

\* The switch's directory is the first to be made and the last to go, and
\* what the adapter knows belongs to a switch that is set up.
DirsInv ==
    /\ present \subseteq Dirs /\ (SwitchDir \notin present => present = {})
    /\ \A d \in DOMAIN made : made[d] \in Made /\ d[1] = "packet_in"
    /\ \A p \in DOMAIN ports_by_no :
          ports_by_no[p] \in present \cap PortDirs /\ reply # NoReply
    /\ reply \in Replies \cup {NoReply}
    /\ task # << >> => reply # NoReply
    /\ reply # NoReply => SwitchDir \in present \/ (task # << >> /\ task[1] = Mkdir(SwitchDir))
    /\ toApp \in Seq({SwitchDir} \cup DOMAIN made)

\* Bounds.
BoundsInv ==
    /\ up \in BOOLEAN
    /\ starts \in 1 .. MaxStarts /\ nsent \in 0 .. MaxMsgs /\ writes \in 0 .. MaxWrites
    /\ \A p \in DOMAIN counter : counter[p] \in 1 .. nsent
\* A string is being written into a file of d.
OnIt(d) == pending # NoWrite /\ pending.file[1] = d

\* The data of d says the frame.
DataSays(d) ==
    LET m == made[d].msg  f == <<d, "data">> IN
    /\ Says(f, val[f], SubSeq(m.data, 1, Copied(m)))
    /\ made[d].new => Len(val[f]) = m.total_len

\* As far as the first k steps of Fill() go, d says what its message says.
Filled(d, k) ==
    LET m == made[d].msg
        F == Fill(d, m)
        data == <<d, "data">>
    IN ~made[d].touched =>
          /\ k = 0 /\ made[d].new => d \notin present
          /\ k >= 1 => d \in present
          /\ \A j \in 2 .. Len(F) - 2 :
                j <= k => sized[F[j].file] /\ val[F[j].file] = F[j].value
          /\ data \in Files /\ made[d].new /\ 1 <= k /\ (k < Len(F) - 1 \/ OnIt(d))
                => val[data] = << >>
          /\ OnIt(d) => /\ k = Len(F) - 1 /\ data \in Files
                        /\ pending = [file |-> data, at |-> 0,
                                      text |-> FromMemory(m, m.total_len)]
          /\ data \in Files /\ k >= Len(F) - 1 /\ ~OnIt(d) => DataSays(d)

\* The callback is filling d, and has taken k of the steps of Fill().
Filling(d, k) ==
    LET F == Fill(d, made[d].msg) IN
    /\ k \in 0 .. Len(F) - 1 /\ Len(task) = Len(F) - k
    /\ \A i \in 1 .. Len(task) : task[i] = F[k + i]

\* The directory a step is about.
DirOf(s) == IF s.do = "write" THEN s.file[1] ELSE s.dir

\* No step of T is about a packet.
NoPacket(T) ==
    \A i \in 1 .. Len(T) : T[i].do # "throw" => DirOf(T[i])[1] # "packet_in"

\* The steps left are of one packet, which is not said yet.
OnePacket ==
    \E d \in DOMAIN made : \E k \in Nat : Filling(d, k) /\ Filled(d, k) /\ ~made[d].said

\* Everything of d says what its message says.
Complete(d) == Filled(d, Len(Fill(d, made[d].msg)))

\* Either no step is about a packet, or all are about the same; a packet that is
\* said is complete.
FillInv ==
    /\ NoPacket(task) \/ OnePacket
    /\ \A d \in DOMAIN made :
          /\ Copied(made[d].msg) >= 0
          /\ made[d].said => Complete(d)

\* The counter of its port is not behind a directory of this start of the
\* adapter.
Counted(d) ==
    /\ made[d].life <= starts /\ made[d].nth < nsent
    /\ made[d].life = starts =>
          LET p == made[d].msg.in_port IN
          /\ DOMAIN ports_by_no # {}
          /\ p \in DOMAIN counter /\ d[3] \in Int /\ d[3] <= counter[p]

CountInv == \A d \in DOMAIN made : Counted(d)

\* What the application read.
ReadsPacket(m, r) ==
    IF r.file \in Of(Ints) THEN r.val = m[r.file[2]]
    ELSE r.val # Undef /\ Copied(m) >= HdrLen /\ m.data[1] # Blank
            => r.val = SubSeq(m.data, 1, HdrLen)

\* The application reads files of a directory there was, and what it read is
\* the packet it began with as long as nobody else is about the directory.
AppInv ==
    app # NoLoad =>
        /\ app = [dir |-> app.dir, got |-> app.got, todo |-> app.todo, by |-> app.by]
        /\ Sequence(app.got) /\ Sequence(app.todo)
        /\ \A i \in 1 .. Len(app.todo) : <<app.dir, app.todo[i]>> \in Files
        /\ app.by # NoLoad =>
              /\ app.dir \in DOMAIN made /\ app.by.nth \in 0 .. nsent - 1
              /\ made[app.dir].nth = app.by.nth =>
                    /\ app.by.msg = made[app.dir].msg
                    /\ app.by.said => made[app.dir].said
                    /\ app.by.said /\ Intact(app.dir) =>
                          \A i \in 1 .. Len(app.got) : ReadsPacket(app.by.msg, app.got[i])

\* A port's name is being written into the file of d.
Naming(d) == pending # NoWrite /\ pending.file = NameOf(d)

\* What that file says: nothing, the name of the directory, or no more than it
\* while it is written.
SaysName(d) ==
    IF Naming(d) THEN pending.text = d[2] /\ Len(val[NameOf(d)]) <= Len(d[2])
    ELSE val[NameOf(d)] \in {<< >>, d[2]}

\* It says the name, or will when the write has ended.
Labelled(d) == d \in present /\ (val[NameOf(d)] = d[2] \/ Naming(d))

\* The name of the port that is indexed at k is in its file, or will be.
IndexReady(k, p) ==
    /\ task[k].dir = PortDir(p)
    /\ p.name # << >> =>
          \/ Labelled(PortDir(p))
          \/ \E j \in 1 .. k - 1 :
                /\ task[j] = WriteTo(PortDir(p), "name", p.name)
                /\ \/ PortDir(p) \in present
                   \/ \E l \in 1 .. j - 1 : task[l] = Mkdir(PortDir(p))

\* The port q belongs to the i-th port of the reply, whose file has its name.
IsPort(q, i) ==
    /\ ports_by_no[q] = PortDir(reply.ports[i])
    /\ reply.ports[i].name # << >> => Labelled(ports_by_no[q])

\* The ports that are indexed, and that will be.
IndexInv ==
    reply \in Replies =>
       /\ \A k \in 1 .. Len(task) :
             task[k].do = "index" => \E i \in DOMAIN reply.ports : IndexReady(k, reply.ports[i])
       /\ \A q \in DOMAIN ports_by_no : \E i \in DOMAIN reply.ports : IsPort(q, i)
       /\ NamesDiffer(reply) =>
             /\ IndexedOnce(task)
             /\ \A q \in DOMAIN ports_by_no :
                   /\ \A k \in 1 .. Len(task) :
                         task[k].do = "index" => task[k].dir # ports_by_no[q]
                   /\ \A p \in DOMAIN ports_by_no : ports_by_no[p] = ports_by_no[q] => p = q

\* A packet of this start of the adapter came in at a port that is indexed, and
\* is named as the port's directory, or not at all if the port has no name.
PacketNamed(d) ==
    made[d].life = starts =>
       LET p == made[d].msg.in_port IN
       /\ \A k \in 1 .. Len(task) : task[k].do # "index"
       /\ p \in DOMAIN ports_by_no
       /\ \/ d[2] = ports_by_no[p][2]
          \/ d[2] = << >> /\ \E i \in DOMAIN reply.ports :
                /\ reply.ports[i].name = << >> /\ ports_by_no[p] = PortDir(reply.ports[i])

\* Unless a port's name is not in its file.
LabelInv ==
    /\ mislabelled \in BOOLEAN
    /\ ~mislabelled =>
          /\ WritesNames(task) /\ \A d \in PortDirs : SaysName(d)
          /\ IndexInv /\ \A d \in DOMAIN made : PacketNamed(d)

Inv ==
    /\ FInv /\ StepsInv /\ DirsInv /\ BoundsInv /\ FillInv /\ CountInv /\ AppInv
    /\ LabelInv

-----------------------------------------------------------------------------
(* Files *)

\* A value of the type of its file is written.
LEMMA WriteFileInv ==
    ASSUME FInv, pending = NoWrite, NEW f, NEW v, f \in Files => IsValue(f, v), WriteFile(f, v)
    PROVE FInv'
<1>1. CASE UNCHANGED fileVars BY <1>1, FilesKept
<1>2. CASE f \in Of(Strings) /\ f \in Files /\ v # << >> /\ Write(f, v)
  <2>1. v \in Seq(Chars) BY <1>2, TypesApart DEF IsValue
  <2>2. IsText(f, v) BY <1>2, <2>1, TypesApart DEF IsText
  <2> QED BY <1>2, <2>2, WriteInv
<1>3. CASE f \notin Of(Strings) /\ f \in Files /\ Write(f, Printed(f, v))
  <2>1. f \in Of(Ints) => v \in Int BY <1>3 DEF IsValue
  <2>2. f \in Of(Addrs) => v \in Nat \X Octets BY <1>3, TypesApart DEF IsValue
  <2>3. Printed(f, v).n = v /\ Printed(f, v).mask = -1 BY DEF Printed
  <2>4. IsText(f, Printed(f, v)) BY <1>3, <2>1, <2>2, <2>3 DEF IsText
  <2> QED BY <1>3, <2>4, WriteInv
<1> QED BY <1>1, <1>2, <1>3 DEF WriteFile

\* Where the data of a frame begins.
LEMMA CopiedIs ==
    ASSUME NEW m \in Packets
    PROVE /\ m.data \in Seq(Chars) /\ Len(m.data) <= m.total_len /\ m.total_len \in Nat
          /\ Copied(m) \in Int /\ Copied(m) <= Len(m.data)
<1>1. m.data \in Seq(Chars) /\ Len(m.data) <= m.total_len /\ m.total_len \in Nat
  BY PacketAssumption
<1>2. Overlap = 2
  <2>1. <<ofp_packet_in, 20>> \in Sizes BY DEF Sizes
  <2>2. SizeOf(<<ofp_packet_in, 20>>[1]) = <<ofp_packet_in, 20>>[2] BY <2>1, Assertions
  <2>3. SizeOf(ofp_packet_in) = 20 /\ Extent(ofp_packet_in) = 20 - 2 BY <2>2, Assertions
  <2> QED BY <2>3 DEF Overlap
<1> QED BY <1>1, <1>2 DEF Copied

\* The frame, and what is in memory behind it.
LEMMA MemoryIs ==
    ASSUME NEW m \in Packets, NEW n \in Int
    PROVE LET t == FromMemory(m, n) IN
          /\ t \in Seq(Chars)
          /\ n >= 0 => Len(t) = n
          /\ \A i \in 1 .. n : i <= Copied(m) => t[i] = m.data[i]
<1> DEFINE t == FromMemory(m, n)
           k == IF n >= 0 THEN n ELSE 0
<1>1. k \in Nat /\ 1 .. n = 1 .. k OBVIOUS
<1>2. t = [i \in 1 .. k |-> IF i <= Copied(m) THEN m.data[i] ELSE Beyond]
  BY <1>1 DEF FromMemory
<1>3. \A i \in 1 .. k : t[i] \in Chars
  <2> TAKE i \in 1 .. k
  <2>1. CASE i <= Copied(m)
    <3>1. i \in 1 .. Len(m.data) BY <2>1, CopiedIs
    <3> QED BY <1>2, <2>1, <3>1, CopiedIs
  <2>2. CASE ~(i <= Copied(m)) BY <1>2, <2>2, PacketAssumption
  <2> QED BY <2>1, <2>2
<1>4. t \in [1 .. k -> Chars] /\ (\A i \in 1 .. k : i <= Copied(m) => t[i] = m.data[i])
  <2> HIDE DEF k
  <2> QED BY <1>2, <1>3
<1> HIDE DEF t
<1>5. t \in Seq(Chars) /\ Len(t) = k
  <2> HIDE DEF k
  <2> QED BY <1>1, <1>4
<1> QED BY <1>1, <1>4, <1>5 DEF t

\* The files of packet_in directories.
LEMMA FilesOfPacket ==
    ASSUME NEW d, d[1] = "packet_in", NEW m \in Packets
    PROVE /\ \A n : <<d, n>> \in Files /\ n # "data" =>
                /\ \E i \in 1 .. Len(PacketFiles) : n = PacketFiles[i]
                /\ <<d, n>> \in Of(Ints) /\ m[n] \in Int /\ Fits(TypeOf[<<d, n>>], m[n])
          /\ <<d, "data">> \in Files =>
                /\ <<d, "data">> \in Of(Strings) /\ TypeOf[<<d, "data">>] = "raw"
                /\ <<d, "total_len">> \in Of(Ints) \ Of({"u8", "i8"})
<1>1. \A f \in Files : f[1][1] = "packet_in" => PacketFile(f, m) BY PacketAssumption
<1>2. DOMAIN PacketFiles = 1 .. Len(PacketFiles) BY NamesAny, SequenceAny
<1>3. ASSUME NEW n, <<d, n>> \in Files
      PROVE  PacketFile(<<d, n>>, m)
  <2>1. <<d, n>>[1] = d OBVIOUS
  <2> QED BY <1>1, <1>3, <2>1
<1>4. ASSUME NEW n, <<d, n>> \in Files, n # "data"
      PROVE  /\ \E i \in 1 .. Len(PacketFiles) : n = PacketFiles[i]
             /\ <<d, n>> \in Of(Ints) /\ m[n] \in Int /\ Fits(TypeOf[<<d, n>>], m[n])
             /\ n = "total_len" => <<d, n>> \notin Of({"u8", "i8"})
  <2>1. PacketFile(<<d, n>>, m) BY <1>3, <1>4
  <2>2. <<d, n>>[2] = n OBVIOUS
  <2> QED BY <1>2, <1>4, <2>1, <2>2 DEF PacketFile, Of
<1>5. ASSUME <<d, "data">> \in Files
      PROVE  /\ <<d, "data">> \in Of(Strings) /\ TypeOf[<<d, "data">>] = "raw"
             /\ <<d, "total_len">> \in Files
  <2>1. PacketFile(<<d, "data">>, m) BY <1>3, <1>5
  <2> QED BY <1>5, <2>1 DEF PacketFile, Of, Strings
<1> QED BY <1>4, <1>5

\* Each step of the files keeps their invariant: what the adapter writes has
\* been read back from files, and is nevertheless of the right type.
LEMMA FilesStep ==
    ASSUME Inv, Next
    PROVE FInv'
<1> USE DEF Inv
<1>1. CASE UNCHANGED fileVars BY <1>1, FilesKept
<1>2. ASSUME NEW s, DoMkdir(s) PROVE FInv'
  <2>1. pending = NoWrite BY <1>2 DEF DoMkdir, Goes
  <2>2. UNCHANGED fileVars \/ MakeFiles(FilesOf({s.dir})) BY <1>2 DEF DoMkdir
  <2> QED BY <2>1, <2>2, FilesKept, MakeFilesInv
<1>3. ASSUME NEW s, DoWrite(s) PROVE FInv'
  <2>1. pending = NoWrite /\ WriteFile(s.file, s.value) /\ task # << >> /\ s = Head(task)
          /\ s.do = "write"
    BY <1>3 DEF DoWrite, Goes
  <2>2. s = task[1] /\ 1 \in 1 .. Len(task) BY <2>1, TailAny DEF StepsInv
  <2>3. IsValue(s.file, s.value) BY <2>1, <2>2 DEF StepsInv
  <2> QED BY <2>1, <2>3, WriteFileInv
<1>4. ASSUME NEW s, DoData(s) PROVE FInv'
  <2> DEFINE n == ReadNumber(<<s.dir, "total_len">>)
             f == <<s.dir, "data">>
  <2>1. pending = NoWrite /\ task # << >> /\ s = Head(task) /\ s.do = "data"
    BY <1>4 DEF DoData, Goes
  <2>2. s = task[1] /\ 1 \in 1 .. Len(task) BY <2>1, TailAny DEF StepsInv
  <2>3. s.dir \in DOMAIN made /\ s.msg \in Packets BY <2>1, <2>2 DEF StepsInv
  <2>4. s.dir[1] = "packet_in" BY <2>3 DEF DirsInv
  <2>5. \/ UNCHANGED fileVars
        \/ f \in Files /\ n # Undef /\ WriteFile(f, FromMemory(s.msg, n))
    BY <1>4 DEF DoData
  <2>6. ASSUME f \in Files, n # Undef, WriteFile(f, FromMemory(s.msg, n)) PROVE FInv'
    <3>1. f \in Of(Strings) /\ <<s.dir, "total_len">> \in Of(Ints) \ Of({"u8", "i8"})
      BY <2>3, <2>4, <2>6, FilesOfPacket
    <3>2. n \in Int
      <4>1. val[<<s.dir, "total_len">>] \in Int BY <3>1, TypesApart DEF FInv, FilesTypeOK, Of
      <4> QED BY <2>6, <3>1, <4>1 DEF ReadNumber
    <3> HIDE DEF n, f
    <3>3. FromMemory(s.msg, n) \in Seq(Chars) BY <2>3, <3>2, MemoryIs
    <3>4. IsValue(f, FromMemory(s.msg, n)) BY <3>1, <3>3, TypesApart DEF IsValue
    <3> QED BY <2>1, <2>6, <3>4, WriteFileInv
  <2> QED BY <2>5, <2>6, FilesKept
<1>5. ASSUME NEW f \in Files, OthersWrite(f) PROVE FInv'
  <2>1. PICK t \in Texts[f] : Write(f, t) BY <1>5 DEF OthersWrite
  <2> QED BY <2>1, TextsAreTexts, WriteInv
<1>6. CASE GoOn BY <1>6, WriteRestInv DEF GoOn
<1>7. CASE Restart
  BY <1>7 DEF Restart, FInv, FilesTypeOK, StringsSized, PromisesHold, Underway, Says
<1>8. ASSUME NEW s, DoIndex(s) \/ DoSignal(s) \/ DoThrow(s) PROVE UNCHANGED fileVars
  BY <1>8 DEF DoIndex, DoSignal, DoThrow
<1>9. CASE AdapterStep
  <2>1. ASSUME NEW r, HandleFeatures(r) \/ HandleConfig(r) PROVE UNCHANGED fileVars
    BY <2>1 DEF HandleFeatures, HandleConfig
  <2>2. ASSUME NEW m, HandlePacketIn(m) \/ HandlePacketDies(m) PROVE UNCHANGED fileVars
    BY <2>2 DEF HandlePacketIn, HandlePacketDies
  <2> QED BY <1>1, <1>2, <1>3, <1>4, <1>8, <1>9, <2>1, <2>2 DEF AdapterStep
<1>10. CASE AppTakes \/ AppReads \/ AppReturns
  BY <1>1, <1>10 DEF AppTakes, AppReads, AppReturns, AppKeeps
<1>11. ASSUME NEW d, OthersRemove(d) PROVE UNCHANGED fileVars BY <1>11 DEF OthersRemove
<1> QED BY <1>1, <1>5, <1>6, <1>7, <1>9, <1>10, <1>11 DEF Next

-----------------------------------------------------------------------------
(* Bounds *)

\* Every step keeps within the bounds; a counter is never ahead of the
\* messages.
LEMMA BoundsStep ==
    ASSUME BoundsInv, Next
    PROVE BoundsInv'
<1> USE PacketAssumption DEF BoundsInv
<1>1. CASE UNCHANGED <<up, starts, nsent, writes, counter>> BY <1>1
<1>2. CASE Receives /\ UNCHANGED <<starts, writes, counter>> /\ up' \in BOOLEAN
  BY <1>2 DEF Receives
<1>3. ASSUME NEW m \in Packets, HandlePacketIn(m) PROVE BoundsInv'
  <2> DEFINE p == m.in_port
  <2>1. Receives /\ UNCHANGED <<up, starts, writes>>
          /\ counter' = Put(counter, p, Get(counter, p, 0) + 1)
    BY <1>3 DEF HandlePacketIn, Count
  <2>2. nsent' = nsent + 1 /\ nsent < MaxMsgs BY <2>1 DEF Receives
  <2> HIDE DEF p
  <2>3. Get(counter, p, 0) \in 0 .. nsent BY DEF Get
  <2> DEFINE n == Get(counter, p, 0)
  <2> HIDE DEF n
  <2>4. \A q \in DOMAIN counter' : counter'[q] \in 1 .. nsent'
    BY <2>1, <2>2, <2>3 DEF Put, n
  <2> QED BY <2>1, <2>2, <2>4
<1>4. CASE Restart BY <1>4 DEF Restart
<1>5. ASSUME NEW f, OthersWrite(f) PROVE BoundsInv'
  BY <1>5 DEF OthersWrite, OthersKeep
<1>6. ASSUME NEW d, OthersRemove(d) PROVE BoundsInv'
  BY <1>6 DEF OthersRemove, OthersKeep
<1>7. ASSUME NEW r, HandleFeatures(r) \/ HandleConfig(r) PROVE BoundsInv'
  <2>1. Receives /\ UNCHANGED <<up, starts, writes, counter>>
    BY <1>7 DEF HandleFeatures, HandleConfig
  <2> QED BY <1>2, <2>1
<1>8. ASSUME NEW m, HandlePacketDies(m) PROVE BoundsInv'
  <2>1. Receives /\ up' = FALSE /\ UNCHANGED <<starts, writes, counter>>
    BY <1>8 DEF HandlePacketDies
  <2> QED BY <1>2, <2>1
<1>9. ASSUME NEW s, DoMkdir(s) \/ DoWrite(s) \/ DoIndex(s) \/ DoData(s) \/ DoSignal(s)
                      \/ DoThrow(s)
      PROVE BoundsInv'
  <2>1. UNCHANGED <<up, starts, nsent, writes, counter>>
    BY <1>9 DEF DoMkdir, DoWrite, DoIndex, DoData, DoSignal, DoThrow
  <2> QED BY <1>1, <2>1
<1>10. CASE GoOn BY <1>1, <1>10 DEF GoOn
<1>11. CASE AppTakes \/ AppReads \/ AppReturns
  <2>1. UNCHANGED <<up, starts, nsent, writes, counter>>
    BY <1>11 DEF AppTakes, AppReads, AppReturns, AppKeeps
  <2> QED BY <1>1, <2>1
<1>12. CASE AdapterStep BY <1>3, <1>7, <1>8, <1>9, <1>12 DEF AdapterStep
<1> QED BY <1>4, <1>5, <1>6, <1>10, <1>11, <1>12 DEF Next

-----------------------------------------------------------------------------
(* What is to do, and what there is *)

\* A step is taken from the front.
LEMMA GoesOn ==
    ASSUME StepsInv, NEW s, Goes(s)
    PROVE /\ pending = NoWrite /\ task # << >> /\ s = task[1] /\ 1 \in 1 .. Len(task)
          /\ Sequence(task') /\ Len(task') = Len(task) - 1 /\ Len(task) \in Nat \ {0}
          /\ \A i \in 1 .. Len(task') : task'[i] = task[i + 1] /\ i + 1 \in 1 .. Len(task)
<1>1. Sequence(task) /\ task # << >> BY DEF StepsInv, Goes
<1>2. /\ Sequence(Tail(task)) /\ Len(Tail(task)) = Len(task) - 1 /\ Len(task) \in Nat \ {0}
      /\ Head(task) = task[1]
      /\ \A i \in 1 .. Len(task) - 1 : Tail(task)[i] = task[i + 1]
  BY <1>1, TailAny
<1>3. pending = NoWrite /\ s = Head(task) /\ task' = Tail(task) BY DEF Goes
<1>4. \A i \in 1 .. Len(task) - 1 : i + 1 \in 1 .. Len(task) BY <1>2
<1> QED BY <1>1, <1>2, <1>3, <1>4

\* The steps that are left can still be taken, when the one that was taken was
\* no exception and took no directory away.
LEMMA StepsLeft ==
    ASSUME StepsInv, NEW s, Goes(s), s.do # "throw",
           DOMAIN made' = DOMAIN made, present \subseteq present',
           s.do = "mkdir" => present' = present \cup {s.dir},
           s.do # "mkdir" => present' = present,
           s.do # "index" => ports_by_no' = ports_by_no
    PROVE StepsInv'
<1>1. /\ s = task[1] /\ 1 \in 1 .. Len(task)
      /\ Sequence(task') /\ Len(task') = Len(task) - 1 /\ Len(task) \in Nat \ {0}
      /\ \A i \in 1 .. Len(task') : task'[i] = task[i + 1] /\ i + 1 \in 1 .. Len(task)
  BY GoesOn
<1>2. Dirs' = Dirs BY DEF Dirs
<1>3. ASSUME NEW i \in 1 .. Len(task')
      PROVE  LET t == task'[i] IN
             /\ t.do = "mkdir" => t.dir \in Dirs'
             /\ t.do = "write" => t.file \in Files /\ IsValue(t.file, t.value)
             /\ t.do = "index" => /\ t.dir \in PortDirs
                                  /\ t.dir \in present'
                                        \/ \E j \in 1 .. i - 1 : task'[j] = Mkdir(t.dir)
             /\ t.do = "data" => t.dir \in DOMAIN made' /\ t.msg \in Packets
             /\ t.do = "signal" => t.dir \in {SwitchDir} \cup DOMAIN made'
             /\ t.do = "throw" =>
                   /\ i = Len(task') /\ DOMAIN ports_by_no' = {}
                   /\ t.isNew => present' \subseteq {SwitchDir}
                   /\ \A j \in 1 .. Len(task') :
                         /\ task'[j].do # "index"
                         /\ task'[j].do = "mkdir" => task'[j].dir = SwitchDir
  <2> DEFINE t == task'[i]
  <2>1. t = task[i + 1] /\ i + 1 \in 1 .. Len(task) BY <1>1
  <2> HIDE DEF t
  <2>2. t.do = "index" => t.dir \in present' \/ \E j \in 1 .. i - 1 : task'[j] = Mkdir(t.dir)
    <3> SUFFICES ASSUME t.do = "index", t.dir \notin present'
                 PROVE \E j \in 1 .. i - 1 : task'[j] = Mkdir(t.dir)
      OBVIOUS
    <3>1. t.dir \notin present OBVIOUS
    <3>2. PICK j \in 1 .. (i + 1) - 1 : task[j] = Mkdir(t.dir) BY <2>1, <3>1 DEF StepsInv
    <3>3. j # 1
      <4> SUFFICES ASSUME j = 1 PROVE FALSE OBVIOUS
      <4>1. s.do = "mkdir" /\ s.dir = t.dir BY <1>1, <3>2 DEF Mkdir
      <4> QED BY <4>1
    <3>4. j - 1 \in 1 .. i - 1 /\ j - 1 \in 1 .. Len(task') /\ (j - 1) + 1 = j
      BY <1>1, <3>2, <3>3
    <3>5. task'[j - 1] = task[j] BY <1>1, <3>4
    <3> QED BY <3>2, <3>4, <3>5
  <2>3. t.do = "throw" =>
           /\ i = Len(task') /\ DOMAIN ports_by_no' = {}
           /\ t.isNew => present' \subseteq {SwitchDir}
           /\ \A j \in 1 .. Len(task') : /\ task'[j].do # "index"
                                         /\ task'[j].do = "mkdir" => task'[j].dir = SwitchDir
    <3> SUFFICES ASSUME t.do = "throw"
                 PROVE  /\ i = Len(task') /\ DOMAIN ports_by_no' = {}
                        /\ t.isNew => present' \subseteq {SwitchDir}
                        /\ \A j \in 1 .. Len(task') :
                              /\ task'[j].do # "index"
                              /\ task'[j].do = "mkdir" => task'[j].dir = SwitchDir
      OBVIOUS
    <3>1. /\ i + 1 = Len(task) /\ DOMAIN ports_by_no = {}
          /\ t.isNew => present \subseteq {SwitchDir}
          /\ \A j \in 1 .. Len(task) : /\ task[j].do # "index"
                                       /\ task[j].do = "mkdir" => task[j].dir = SwitchDir
      BY <2>1 DEF StepsInv
    <3>2. s.do # "index" /\ (s.do = "mkdir" => s.dir = SwitchDir) BY <1>1, <3>1
    <3>3. i = Len(task') BY <1>1, <3>1
    <3> QED BY <1>1, <3>1, <3>2, <3>3
  <2> QED BY <1>2, <2>1, <2>2, <2>3 DEF StepsInv, t
<1> QED BY <1>1, <1>3 DEF StepsInv

\* The steps that make and fill the directory of a packet, and say it.
FillForm(F, d, m) ==
    /\ Sequence(F) /\ Len(F) \in Nat /\ Len(F) >= 3 /\ F[1] = Mkdir(d)
    /\ \A j \in 2 .. Len(F) - 2 : \E i \in 1 .. Len(PacketFiles) :
          /\ <<d, PacketFiles[i]>> \in Files
          /\ F[j] = WriteTo(d, PacketFiles[i], m[PacketFiles[i]])
    /\ \A i \in 1 .. Len(PacketFiles) : <<d, PacketFiles[i]>> \in Files =>
          \E j \in 2 .. Len(F) - 2 : F[j] = WriteTo(d, PacketFiles[i], m[PacketFiles[i]])
    /\ F[Len(F) - 1] = Data(d, m) /\ F[Len(F)] = Signal(d)

\* So does Fill().
LEMMA FillShape ==
    ASSUME NEW d, NEW m
    PROVE FillForm(Fill(d, m), d, m)
<1> DEFINE M == <<Mkdir(d)>>
           W == WriteAll(d, PacketFiles, m)
           E == <<Data(d, m), Signal(d)>>
           A == M \o W
           F == A \o E
<1>1. Sequence(M) /\ Len(M) = 1 /\ M[1] = Mkdir(d) BY OneAny
<1>2. Writes(W, d, PacketFiles, m) BY NamesAny, WriteAllShape
<1>3. Sequence(E) /\ Len(E) = 2 /\ E[1] = Data(d, m) /\ E[2] = Signal(d)
  <2>1. E \in Seq({Data(d, m), Signal(d)}) OBVIOUS
  <2> QED BY <2>1 DEF Sequence
<1>4. F = Fill(d, m) BY DEF Fill
<1> HIDE DEF M, W, E
<1>5. IsConcat(A, M, W) BY <1>1, <1>2, ConcatAny DEF Writes
<1> HIDE DEF A
<1>6. IsConcat(F, A, E)
  <2>1. Sequence(A) BY <1>5 DEF IsConcat
  <2> QED BY <1>3, <2>1, ConcatAny
<1> HIDE DEF F
<1>7. /\ Len(A) = 1 + Len(W) /\ Len(W) \in Nat /\ Len(F) = Len(A) + 2 /\ Sequence(F)
      /\ \A i \in 1 .. Len(W) : A[1 + i] = W[i]
      /\ \A i \in 1 .. Len(A) : F[i] = A[i]
      /\ A[1] = Mkdir(d)
  BY <1>1, <1>3, <1>5, <1>6 DEF IsConcat
<1>8. F[1] = Mkdir(d) BY <1>7
<1>9. F[Len(F) - 1] = Data(d, m) /\ F[Len(F)] = Signal(d)
  <2>1. 1 \in 1 .. Len(E) /\ 2 \in 1 .. Len(E) BY <1>3
  <2>2. F[Len(A) + 1] = E[1] /\ F[Len(A) + 2] = E[2] BY <1>6, <2>1 DEF IsConcat
  <2>3. Len(F) - 1 = Len(A) + 1 BY <1>7
  <2> QED BY <1>3, <1>7, <2>2, <2>3
<1>10. \A i \in 1 .. Len(W) : F[1 + i] = W[i] /\ 1 + i \in 2 .. Len(F) - 2
  <2> TAKE i \in 1 .. Len(W)
  <2>1. 1 + i \in 1 .. Len(A) /\ 1 + i \in 2 .. Len(F) - 2 BY <1>7
  <2> QED BY <1>7, <2>1
<1>11. ASSUME NEW j \in 2 .. Len(F) - 2
       PROVE \E i \in 1 .. Len(PacketFiles) :
                /\ <<d, PacketFiles[i]>> \in Files
                /\ F[j] = WriteTo(d, PacketFiles[i], m[PacketFiles[i]])
  <2>1. j - 1 \in 1 .. Len(W) /\ 1 + (j - 1) = j BY <1>7
  <2>2. F[j] = W[j - 1] BY <1>10, <2>1
  <2> QED BY <1>2, <2>1, <2>2 DEF Writes
<1>12. ASSUME NEW i \in 1 .. Len(PacketFiles), <<d, PacketFiles[i]>> \in Files
       PROVE \E j \in 2 .. Len(F) - 2 : F[j] = WriteTo(d, PacketFiles[i], m[PacketFiles[i]])
  <2>1. PICK j \in 1 .. Len(W) : W[j] = WriteTo(d, PacketFiles[i], m[PacketFiles[i]])
    BY <1>2, <1>12 DEF Writes
  <2> QED BY <1>10, <2>1
<1>13. Len(F) \in Nat /\ Len(F) >= 3 BY <1>7
<1>14. FillForm(F, d, m) BY <1>7, <1>8, <1>9, <1>11, <1>12, <1>13 DEF FillForm
<1> QED BY <1>4, <1>14

\* Where a step of Fill() is, tells what it does.
LEMMA FillStep ==
    ASSUME NEW d, NEW m \in Packets, d[1] = "packet_in",
           NEW i \in 1 .. Len(Fill(d, m))
    PROVE LET F == Fill(d, m)  s == Fill(d, m)[i] IN
          /\ s.do \in {"mkdir", "write", "data", "signal"} /\ DirOf(s) = d
          /\ s.do = "mkdir" => i = 1 /\ s.dir = d
          /\ s.do = "write" => /\ i \in 2 .. Len(F) - 2
                               /\ s.file \in Files /\ s.file[1] = d /\ s.file \in Of(Ints)
                               /\ s.value = m[s.file[2]] /\ s.value \in Int
                               /\ Fits(TypeOf[s.file], s.value) /\ s.file[2] # "data"
          /\ s.do = "data" => i = Len(F) - 1 /\ s.dir = d /\ s.msg = m
          /\ s.do = "signal" => i = Len(F) /\ s.dir = d
<1> DEFINE F == Fill(d, m)
<1>1. FillForm(F, d, m) BY FillShape
<1> HIDE DEF F
<1>2. Len(F) \in Nat /\ Len(F) >= 3 /\ i \in 1 .. Len(F) BY <1>1 DEF FillForm, F
<1>3. CASE i = 1
  <2>1. F[i] = Mkdir(d) BY <1>1, <1>3 DEF FillForm
  <2> QED BY <1>3, <2>1 DEF Mkdir, DirOf, F
<1>4. CASE i \in 2 .. Len(F) - 2
  <2>1. PICK k \in 1 .. Len(PacketFiles) :
           /\ <<d, PacketFiles[k]>> \in Files
           /\ F[i] = WriteTo(d, PacketFiles[k], m[PacketFiles[k]])
    BY <1>1, <1>4 DEF FillForm
  <2>2. PacketFiles[k] # "data"
    <3>1. k \in 1 .. 4 /\ PacketFiles \in Seq({"buffer_id", "total_len", "in_port", "reason"})
      BY DEF PacketFiles
    <3> QED BY <3>1 DEF PacketFiles
  <2> DEFINE n == PacketFiles[k]
  <2>3. <<d, n>> \in Of(Ints) /\ m[n] \in Int /\ Fits(TypeOf[<<d, n>>], m[n])
    BY <2>1, <2>2, FilesOfPacket
  <2>4. F[i] = [do |-> "write", file |-> <<d, n>>, value |-> m[n]] BY <2>1 DEF WriteTo
  <2> HIDE DEF n
  <2>5. F[i].do = "write" /\ F[i].file = <<d, n>> /\ F[i].value = m[n] BY <2>4
  <2>6. <<d, n>>[1] = d /\ <<d, n>>[2] = n /\ n # "data" /\ <<d, n>> \in Files
    BY <2>1, <2>2 DEF n
  <2> QED BY <1>4, <2>3, <2>5, <2>6 DEF DirOf, F
<1>5. CASE i = Len(F) - 1
  <2>1. F[i] = Data(d, m) BY <1>1, <1>5 DEF FillForm
  <2> QED BY <1>5, <2>1 DEF Data, DirOf, F
<1>6. CASE i = Len(F)
  <2>1. F[i] = Signal(d) BY <1>1, <1>6 DEF FillForm
  <2> QED BY <1>6, <2>1 DEF Signal, DirOf, F
<1>7. i = 1 \/ i \in 2 .. Len(F) - 2 \/ i = Len(F) - 1 \/ i = Len(F) BY <1>2
<1> QED BY <1>3, <1>4, <1>5, <1>6, <1>7

\* A step of a callback that sets up or reads the configuration.
LEMMA SetupStepsLeft ==
    ASSUME SetupSteps(task', {SwitchDir} \cup PortDirs)
    PROVE StepsInv'
BY DEF SetupSteps, StepsInv, Dirs

\* Directories of different kinds are not the same.
LEMMA DirsApart ==
    ASSUME DirsInv
    PROVE /\ SwitchDir \notin PortDirs
          /\ \A d : d[1] = "packet_in" => d # SwitchDir /\ d \notin PortDirs
          /\ \A d \in DOMAIN made : d # SwitchDir /\ d \notin PortDirs
<1>1. SwitchDir[1] = "switch" BY DEF SwitchDir
<1>2. \A d \in PortDirs : d[1] = "ports" BY DEF PortDirs, PortDir
<1> QED BY <1>1, <1>2 DEF DirsInv

\* What others do to a directory, and its signal, leaves the rest of what is
\* known of it.
LEMMA MadeKept ==
    ASSUME DirsInv, NEW d,
           \/ Touch(d)
           \/ made' = IF d \in DOMAIN made THEN [made EXCEPT ![d].said = TRUE] ELSE made
    PROVE /\ DOMAIN made' = DOMAIN made
          /\ \A e \in DOMAIN made :
                /\ made'[e] \in Made /\ made'[e].msg = made[e].msg
                /\ made'[e].nth = made[e].nth /\ made'[e].life = made[e].life
                /\ made'[e].new = made[e].new
                /\ e # d => made'[e] = made[e]
                /\ made[e].said => made'[e].said
                /\ made[e].touched => made'[e].touched
                /\ Touch(d) => made'[e].said = made[e].said
          /\ Touch(d) /\ d \in DOMAIN made => made'[d].touched
<1> DEFINE Same(e) == /\ made'[e] \in Made /\ made'[e].msg = made[e].msg
                      /\ made'[e].nth = made[e].nth /\ made'[e].life = made[e].life
                      /\ made'[e].new = made[e].new
                      /\ e # d => made'[e] = made[e]
                      /\ made[e].said => made'[e].said
                      /\ made[e].touched => made'[e].touched
<1>1. ASSUME NEW e \in DOMAIN made PROVE made[e] \in Made BY DEF DirsInv
<1>2. ASSUME made' = made PROVE DOMAIN made' = DOMAIN made /\ \A e \in DOMAIN made : Same(e)
  BY <1>1, <1>2
<1>3. ASSUME d \in DOMAIN made, made' = [made EXCEPT ![d].touched = TRUE]
      PROVE  /\ DOMAIN made' = DOMAIN made
             /\ \A e \in DOMAIN made : Same(e) /\ made'[e].said = made[e].said
             /\ made'[d].touched
  <2>1. ASSUME NEW e \in DOMAIN made
        PROVE made'[e] = IF e = d THEN [made[e] EXCEPT !.touched = TRUE] ELSE made[e]
    BY <1>3
  <2>2. DOMAIN made' = DOMAIN made BY <1>3
  <2>3. ASSUME NEW r \in Made
        PROVE  /\ [r EXCEPT !.touched = TRUE] \in Made
               /\ [r EXCEPT !.touched = TRUE].msg = r.msg /\ [r EXCEPT !.touched = TRUE].nth = r.nth
               /\ [r EXCEPT !.touched = TRUE].life = r.life
               /\ [r EXCEPT !.touched = TRUE].new = r.new
               /\ [r EXCEPT !.touched = TRUE].said = r.said
               /\ [r EXCEPT !.touched = TRUE].touched
    BY DEF Made
  <2> DEFINE R(r) == [r EXCEPT !.touched = TRUE]
  <2>4. \A e \in DOMAIN made : made'[e] = IF e = d THEN R(made[e]) ELSE made[e] BY <2>1
  <2>5. \A r \in Made : /\ R(r) \in Made /\ R(r).msg = r.msg /\ R(r).nth = r.nth
                         /\ R(r).life = r.life /\ R(r).new = r.new
                         /\ R(r).said = r.said /\ R(r).touched
    BY <2>3
  <2>6. d \in DOMAIN made BY <1>3
  <2> HIDE DEF R
  <2> QED BY <1>1, <2>2, <2>4, <2>5, <2>6
<1>4. ASSUME d \in DOMAIN made, made' = [made EXCEPT ![d].said = TRUE]
      PROVE  DOMAIN made' = DOMAIN made /\ \A e \in DOMAIN made : Same(e)
  <2>1. ASSUME NEW e \in DOMAIN made
        PROVE made'[e] = IF e = d THEN [made[e] EXCEPT !.said = TRUE] ELSE made[e]
    BY <1>4
  <2>2. DOMAIN made' = DOMAIN made BY <1>4
  <2>3. ASSUME NEW r \in Made
        PROVE  /\ [r EXCEPT !.said = TRUE] \in Made
               /\ [r EXCEPT !.said = TRUE].msg = r.msg /\ [r EXCEPT !.said = TRUE].nth = r.nth
               /\ [r EXCEPT !.said = TRUE].life = r.life
               /\ [r EXCEPT !.said = TRUE].new = r.new
               /\ [r EXCEPT !.said = TRUE].said
               /\ [r EXCEPT !.said = TRUE].touched = r.touched
    BY DEF Made
  <2> DEFINE R(r) == [r EXCEPT !.said = TRUE]
  <2>4. \A e \in DOMAIN made : made'[e] = IF e = d THEN R(made[e]) ELSE made[e] BY <2>1
  <2>5. \A r \in Made : /\ R(r) \in Made /\ R(r).msg = r.msg /\ R(r).nth = r.nth
                         /\ R(r).life = r.life /\ R(r).new = r.new
                         /\ R(r).said /\ R(r).touched = r.touched
    BY <2>3
  <2>6. d \in DOMAIN made BY <1>4
  <2> HIDE DEF R
  <2> QED BY <1>1, <2>2, <2>4, <2>5, <2>6
<1>5. ASSUME Touch(d), d \in DOMAIN made
      PROVE  made'[d].touched /\ \A e \in DOMAIN made : made'[e].said = made[e].said
  BY <1>3, <1>5 DEF Touch
<1>6. ASSUME Touch(d), d \notin DOMAIN made
      PROVE  \A e \in DOMAIN made : made'[e].said = made[e].said
  BY <1>6 DEF Touch
<1>7. DOMAIN made' = DOMAIN made /\ \A e \in DOMAIN made : Same(e)
  BY <1>2, <1>3, <1>4 DEF Touch
<1> QED BY <1>5, <1>6, <1>7

\* What is to do and what there is after a step of a callback.
LEMMA TaskStep ==
    ASSUME StepsInv, DirsInv, NEW s,
           DoMkdir(s) \/ DoWrite(s) \/ DoIndex(s) \/ DoData(s) \/ DoSignal(s) \/ DoThrow(s)
    PROVE StepsInv' /\ DirsInv'
<1>1. Goes(s) BY DEF DoMkdir, DoWrite, DoIndex, DoData, DoSignal, DoThrow
<1>2. /\ task # << >> /\ s = task[1] /\ 1 \in 1 .. Len(task) /\ Sequence(task')
      /\ Len(task') = Len(task) - 1 /\ Len(task) \in Nat \ {0}
  BY <1>1, GoesOn
<1>3. reply # NoReply BY <1>2 DEF DirsInv
<1>4. SwitchDir \in present \/ s = Mkdir(SwitchDir) BY <1>2, <1>3 DEF DirsInv
<1>5. s.do # "mkdir" => SwitchDir \in present BY <1>4 DEF Mkdir
<1>6. CASE DoMkdir(s)
  <2>1. /\ s.do = "mkdir" /\ present' = present \cup {s.dir}
        /\ UNCHANGED <<ports_by_no, reply, toApp, made>>
    BY <1>6 DEF DoMkdir
  <2>2. s.dir \in Dirs BY <1>2, <2>1 DEF StepsInv
  <2>3. SwitchDir \in present' BY <1>4, <2>1 DEF Mkdir
  <2>4. StepsInv' BY <1>1, <2>1, StepsLeft
  <2>5. DirsInv' BY <1>3, <2>1, <2>2, <2>3 DEF DirsInv, Dirs
  <2> QED BY <2>4, <2>5
<1>7. CASE DoWrite(s) \/ DoData(s)
  <2>1. s.do # "mkdir" /\ s.do # "throw" /\ UNCHANGED <<present, ports_by_no, reply, toApp, made>>
    BY <1>7 DEF DoWrite, DoData
  <2>2. StepsInv' BY <1>1, <2>1, StepsLeft
  <2>3. DirsInv' BY <1>3, <1>5, <2>1 DEF DirsInv, Dirs
  <2> QED BY <2>2, <2>3
<1>8. CASE DoIndex(s)
  <2>1. /\ s.do = "index" /\ UNCHANGED <<present, reply, toApp, made>>
        /\ ports_by_no' = Put(ports_by_no, ReadNumber(<<s.dir, "port_no">>), s.dir)
    BY <1>8 DEF DoIndex
  <2>2. s.dir \in present \cap PortDirs
    <3>1. s.dir \in PortDirs /\ (s.dir \in present \/ \E j \in 1 .. 1 - 1 : task[j] = Mkdir(s.dir))
      BY <1>2, <2>1 DEF StepsInv
    <3> QED BY <3>1
  <2>3. StepsInv' BY <1>1, <2>1, StepsLeft
  <2>4. \A p \in DOMAIN ports_by_no' : ports_by_no'[p] \in present \cap PortDirs
    BY <2>1, <2>2 DEF Put, DirsInv
  <2>5. DirsInv' BY <1>3, <1>5, <2>1, <2>4 DEF DirsInv, Dirs
  <2> QED BY <2>3, <2>5
<1>9. CASE DoSignal(s)
  <2>1. /\ s.do = "signal" /\ UNCHANGED <<present, ports_by_no, reply>>
        /\ toApp' = Append(toApp, s.dir)
        /\ made' = IF s.dir \in DOMAIN made THEN [made EXCEPT ![s.dir].said = TRUE] ELSE made
    BY <1>9 DEF DoSignal
  <2>2. DOMAIN made' = DOMAIN made /\ \A d \in DOMAIN made : made'[d] \in Made
    BY <2>1, MadeKept
  <2>3. StepsInv' BY <1>1, <2>1, <2>2, StepsLeft
  <2>4. s.dir \in {SwitchDir} \cup DOMAIN made BY <1>2, <2>1 DEF StepsInv
  <2>5. toApp' \in Seq({SwitchDir} \cup DOMAIN made)
    <3> DEFINE D == {SwitchDir} \cup DOMAIN made
    <3>1. toApp \in Seq(D) /\ s.dir \in D BY <2>4 DEF DirsInv
    <3> HIDE DEF D
    <3>2. Append(toApp, s.dir) \in Seq(D) BY <3>1
    <3> QED BY <2>1, <3>2 DEF D
  <2>6. DirsInv' BY <1>3, <1>5, <2>1, <2>2, <2>5 DEF DirsInv, Dirs
  <2> QED BY <2>3, <2>6
<1>10. CASE DoThrow(s)
  <2>1. /\ s.do = "throw" /\ UNCHANGED <<ports_by_no, toApp, made>> /\ reply' = NoReply
        /\ present' = IF s.isNew THEN {} ELSE present
    BY <1>10 DEF DoThrow
  <2>2. 1 = Len(task) /\ DOMAIN ports_by_no = {}
    <3>1. task[1].do = "throw" => 1 = Len(task) /\ DOMAIN ports_by_no = {}
      BY <1>2 DEF StepsInv
    <3> QED BY <1>2, <2>1, <3>1
  <2>3. Len(task') = 0
    <3>1. Len(task') = Len(task) - 1 BY <1>2
    <3> QED BY <2>2, <3>1
  <2>4. task' = << >>
    <3>1. PICK S : task' \in Seq(S) BY <1>2 DEF Sequence
    <3> QED BY <2>3, <3>1
  <2>5. StepsInv'
    <3>1. Sequence(task') BY <1>2
    <3>2. 1 .. Len(task') = {} BY <2>3
    <3> QED BY <3>1, <3>2, Zenon DEF StepsInv
  <2>6. DirsInv' BY <2>1, <2>2, <2>4 DEF DirsInv, Dirs
  <2> QED BY <2>5, <2>6
<1> QED BY <1>6, <1>7, <1>8, <1>9, <1>10

\* After a message of the switch.
LEMMA MessageStep ==
    ASSUME StepsInv, DirsInv, BoundsInv,
           \/ \E r \in Replies : HandleFeatures(r)
           \/ \E r \in Configs : HandleConfig(r)
           \/ \E m \in Packets : HandlePacketIn(m) \/ HandlePacketDies(m)
    PROVE StepsInv' /\ DirsInv'
<1> DEFINE D == {SwitchDir} \cup PortDirs
<1>1. ASSUME NEW r \in Replies, HandleFeatures(r) PROVE StepsInv' /\ DirsInv'
  <2>1. /\ task = << >> /\ reply = NoReply /\ task' = SetUp(r) /\ reply' = r
        /\ UNCHANGED <<present, ports_by_no, toApp, made>>
    BY <1>1 DEF HandleFeatures, Receives
  <2>2. DOMAIN ports_by_no = {} BY <2>1 DEF DirsInv
  <2>3. SetsUp(task', SwitchDir \notin present) BY <2>1, SetUpShape
  <2>4. r # NoReply BY PacketAssumption
  <2>5. CASE SetupSteps(task', D) /\ task' # << >> /\ task'[1] = Mkdir(SwitchDir)
    <3>1. StepsInv' BY <2>5, SetupStepsLeft
    <3>2. DirsInv' BY <2>1, <2>2, <2>4, <2>5 DEF DirsInv, Dirs
    <3> QED BY <3>1, <3>2
  <2>6. ASSUME NEW S, SetupSteps(S, {SwitchDir}), S # << >>, S[1] = Mkdir(SwitchDir),
               IsConcat(task', S, <<Throw(SwitchDir \notin present)>>)
        PROVE  StepsInv' /\ DirsInv'
    <3> DEFINE t == Throw(SwitchDir \notin present)
    <3>1. Sequence(S) /\ Len(<<t>>) = 1 /\ <<t>>[1] = t BY <2>6 DEF SetupSteps
    <3>2. Len(S) # 0 BY <2>6, <3>1, SequenceAny
    <3>3. /\ Sequence(task') /\ Len(task') = Len(S) + 1 /\ Len(S) \in Nat
          /\ \A i \in 1 .. Len(S) : task'[i] = S[i]
          /\ task'[Len(S) + 1] = t
      <4>1. 1 \in 1 .. Len(<<t>>) BY <3>1
      <4> QED BY <2>6, <3>1, <4>1 DEF IsConcat
    <3>4. t.do = "throw" /\ (t.isNew => present = {}) BY DEF Throw, DirsInv
    <3> HIDE DEF t
    <3>5. ASSUME NEW i \in 1 .. Len(task')
          PROVE  \/ /\ i \in 1 .. Len(S) /\ task'[i] = S[i] /\ S[i].do \in {"mkdir", "write", "signal"}
                    /\ S[i].do = "mkdir" => S[i].dir = SwitchDir
                    /\ S[i].do = "write" => S[i].file \in Files /\ IsValue(S[i].file, S[i].value)
                    /\ S[i].do = "signal" => S[i].dir = SwitchDir
                 \/ i = Len(task') /\ task'[i] = t
      <4>1. CASE i \in 1 .. Len(S)
        <5>1. S[i].do # "index" BY <2>6, <4>1, DirsApart DEF SetupSteps
        <5> QED BY <2>6, <3>3, <4>1, <5>1 DEF SetupSteps
      <4>2. CASE i \notin 1 .. Len(S)
        <5>1. i = Len(S) + 1 BY <3>3, <4>2
        <5> QED BY <3>3, <5>1
      <4> QED BY <4>1, <4>2
    <3>6. StepsInv' BY <2>1, <2>2, <3>3, <3>4, <3>5 DEF StepsInv, Dirs
    <3>7. task'[1] = Mkdir(SwitchDir) /\ task' # << >>
      <4>1. 1 \in 1 .. Len(S) BY <3>2, <3>3
      <4>2. Len(<< >>) = 0 OBVIOUS
      <4> QED BY <2>6, <3>3, <4>1, <4>2
    <3>8. DirsInv' BY <2>1, <2>2, <2>4, <3>7 DEF DirsInv, Dirs
    <3> QED BY <3>6, <3>8
  <2> QED BY <2>3, <2>5, <2>6 DEF SetsUp
<1>2. ASSUME NEW r \in Configs, HandleConfig(r) PROVE StepsInv' /\ DirsInv'
  <2>1. /\ task = << >> /\ reply # NoReply /\ task' = WriteAll(SwitchDir, ConfigFiles, r)
        /\ UNCHANGED <<present, ports_by_no, toApp, made, reply>>
    BY <1>2 DEF HandleConfig, Receives
  <2>2. SetupSteps(task', D)
    <3>1. Typed(SwitchDir, ConfigFiles, r) BY PacketAssumption
    <3> QED BY <2>1, <3>1, NamesAny, SetupWrites
  <2>3. StepsInv' BY <2>2, SetupStepsLeft
  <2>4. SwitchDir \in present BY <2>1 DEF DirsInv
  <2>5. DirsInv' BY <2>1, <2>4 DEF DirsInv, Dirs
  <2> QED BY <2>3, <2>5
<1>3. ASSUME NEW m \in Packets, HandlePacketIn(m) PROVE StepsInv' /\ DirsInv'
  <2> DEFINE d == <<"packet_in", PortName(m.in_port), counter'[m.in_port]>>
             F == Fill(d, m)
             e == [msg |-> m, nth |-> nsent, life |-> starts,
                   new |-> d \notin present,
                   said |-> FALSE, touched |-> FALSE]
  <2>1. /\ task = << >> /\ m.in_port \in DOMAIN ports_by_no /\ task' = F
        /\ made' = Put(made, d, e)
        /\ UNCHANGED <<present, ports_by_no, toApp, reply>>
    BY <1>3 DEF HandlePacketIn, Receives
  <2>2. d[1] = "packet_in" OBVIOUS
  <2>3. FillForm(F, d, m) BY FillShape
  <2>4. e \in Made BY DEF Made, BoundsInv
  <2> HIDE DEF e, d
  <2>5. /\ DOMAIN made' = DOMAIN made \cup {d} /\ made'[d] = e
        /\ \A x \in DOMAIN made : x # d => made'[x] = made[x]
    BY <2>1 DEF Put
  <2>6. \A i \in 1 .. Len(F) :
           /\ F[i].do \in {"mkdir", "write", "data", "signal"}
           /\ F[i].do = "mkdir" => F[i].dir = d
           /\ F[i].do = "write" => /\ F[i].file \in Files /\ F[i].file \in Of(Ints)
                                   /\ F[i].value \in Int
           /\ F[i].do = "data" => F[i].dir = d /\ F[i].msg = m
           /\ F[i].do = "signal" => F[i].dir = d
    BY <2>2, FillStep
  <2> HIDE DEF F
  <2>7. StepsInv' BY <2>1, <2>3, <2>5, <2>6 DEF StepsInv, FillForm, IsValue, Dirs
  <2>8. reply # NoReply /\ SwitchDir \in present BY <2>1 DEF DirsInv
  <2>9. \A x \in DOMAIN made' : made'[x] \in Made /\ x[1] = "packet_in"
    BY <2>2, <2>4, <2>5 DEF DirsInv
  <2>10. toApp' \in Seq({SwitchDir} \cup DOMAIN made')
    <3>1. toApp \in [1 .. Len(toApp) -> {SwitchDir} \cup DOMAIN made] /\ Len(toApp) \in Nat
      BY DEF DirsInv
    <3>2. toApp \in [1 .. Len(toApp) -> {SwitchDir} \cup DOMAIN made'] BY <2>5, <3>1
    <3>3. toApp \in Seq({SwitchDir} \cup DOMAIN made') BY <3>1, <3>2
    <3> QED BY <2>1, <3>3
  <2>11. present' \subseteq Dirs' BY <2>1, <2>5 DEF DirsInv, Dirs
  <2>12. DirsInv' BY <2>1, <2>8, <2>9, <2>10, <2>11 DEF DirsInv
  <2> QED BY <2>7, <2>12
<1>4. ASSUME NEW m \in Packets, HandlePacketDies(m) PROVE StepsInv' /\ DirsInv'
  <2>1. UNCHANGED <<present, ports_by_no, toApp, reply, task, made>>
    BY <1>4 DEF HandlePacketDies
  <2> QED BY <2>1 DEF StepsInv, DirsInv, Dirs
<1> QED BY <1>1, <1>2, <1>3, <1>4

\* Every step keeps what is to do possible, and what there is of messages.
LEMMA StepsStep ==
    ASSUME StepsInv, DirsInv, BoundsInv, Next
    PROVE StepsInv' /\ DirsInv'
<1>1. CASE UNCHANGED <<present, ports_by_no, toApp, reply, task, made>>
  BY <1>1 DEF StepsInv, DirsInv, Dirs
<1>2. CASE AdapterStep BY <1>2, TaskStep, MessageStep DEF AdapterStep
<1>3. CASE GoOn
  <2>1. UNCHANGED <<present, ports_by_no, toApp, reply, task, made>> BY <1>3 DEF GoOn
  <2> QED BY <1>1, <2>1
<1>4. CASE Restart
  <2>1. /\ task' = << >> /\ reply' = NoReply /\ ports_by_no' = << >>
        /\ UNCHANGED <<present, toApp, made>>
    BY <1>4 DEF Restart
  <2>2. Len(<< >>) = 0 /\ DOMAIN << >> = {} /\ << >> \in Seq({}) OBVIOUS
  <2>3. StepsInv' BY <2>1, <2>2 DEF StepsInv, Sequence
  <2> QED BY <2>1, <2>2, <2>3 DEF DirsInv, Dirs
<1>5. CASE AppReads \/ AppReturns
  <2>1. UNCHANGED <<present, ports_by_no, toApp, reply, task, made>>
    BY <1>5 DEF AppReads, AppReturns, AppKeeps
  <2> QED BY <1>1, <2>1
<1>6. CASE AppTakes
  <2>1. /\ UNCHANGED <<present, ports_by_no, reply, task, made>>
        /\ toApp # << >> /\ toApp' = Tail(toApp)
    BY <1>6 DEF AppTakes, AppKeeps
  <2>2. toApp' \in Seq({SwitchDir} \cup DOMAIN made)
    <3> DEFINE D == {SwitchDir} \cup DOMAIN made
    <3>1. toApp \in Seq(D) BY DEF DirsInv
    <3> HIDE DEF D
    <3>2. Tail(toApp) \in Seq(D) BY <2>1, <3>1
    <3> QED BY <2>1, <3>2 DEF D
  <2> QED BY <2>1, <2>2 DEF StepsInv, DirsInv, Dirs
<1>7. ASSUME NEW f \in Files, OthersWrite(f) PROVE StepsInv' /\ DirsInv'
  <2>1. UNCHANGED <<present, ports_by_no, toApp, reply, task>> /\ Touch(f[1])
    BY <1>7 DEF OthersWrite, OthersKeep
  <2>2. DOMAIN made' = DOMAIN made /\ \A d \in DOMAIN made : made'[d] \in Made
    BY <2>1, MadeKept
  <2> QED BY <2>1, <2>2 DEF StepsInv, DirsInv, Dirs
<1>8. ASSUME NEW d \in present, OthersRemove(d) PROVE StepsInv' /\ DirsInv'
  <2>1. /\ UNCHANGED <<ports_by_no, toApp, reply, task>> /\ Touch(d)
        /\ d[1] = "packet_in" /\ present' = present \ {d}
    BY <1>8 DEF OthersRemove, OthersKeep
  <2>2. DOMAIN made' = DOMAIN made /\ \A e \in DOMAIN made : made'[e] \in Made
    BY <2>1, MadeKept
  <2>3. d # SwitchDir /\ d \notin PortDirs BY <2>1, DirsApart
  <2>4. StepsInv' BY <2>1, <2>2, <2>3 DEF StepsInv, Dirs
  <2>5. DirsInv' BY <2>1, <2>2, <2>3 DEF DirsInv, Dirs
  <2> QED BY <2>4, <2>5
<1> QED BY <1>2, <1>3, <1>4, <1>5, <1>6, <1>7, <1>8 DEF Next

-----------------------------------------------------------------------------
(* How far a packet's directory is filled *)

\* Nothing but what others do happens to d.
Undisturbed(d) ==
    /\ made'[d].msg = made[d].msg /\ made'[d].new = made[d].new
    /\ made[d].touched => made'[d].touched
    /\ \/ made'[d].touched
       \/ /\ d \in present' <=> d \in present
          /\ \A f \in FilesOf({d}) : val'[f] = val[f] /\ sized'[f] = sized[f]
          /\ OnIt(d)' <=> OnIt(d)
          /\ OnIt(d) => pending' = pending

\* Then it is filled as far as it was.
LEMMA FilledKept ==
    ASSUME DirsInv, NEW d \in DOMAIN made, NEW k \in Nat, Filled(d, k), Undisturbed(d)
    PROVE Filled(d, k)'
<1> DEFINE m == made[d].msg
           F == Fill(d, m)
           data == <<d, "data">>
<1>1. d[1] = "packet_in" /\ m \in Packets BY DEF DirsInv, Made
<1>2. \A j \in 2 .. Len(F) - 2 : F[j].file \in FilesOf({d})
  <2> TAKE j \in 2 .. Len(F) - 2
  <2>1. j \in 1 .. Len(F) /\ j # 1 /\ j # Len(F) - 1 /\ j # Len(F)
    <3>1. FillForm(F, d, m) BY FillShape
    <3> HIDE DEF F
    <3>2. Len(F) \in Nat /\ Len(F) >= 3 BY <3>1 DEF FillForm
    <3> QED BY <3>2
  <2>2. F[j].file \in Files /\ F[j].file[1] = d
    <3>1. LET s == F[j] IN
          /\ s.do \in {"mkdir", "write", "data", "signal"}
          /\ s.do = "mkdir" => j = 1
          /\ s.do = "write" => s.file \in Files /\ s.file[1] = d
          /\ s.do = "data" => j = Len(F) - 1
          /\ s.do = "signal" => j = Len(F)
      BY <1>1, <2>1, FillStep
    <3> HIDE DEF F
    <3> QED BY <2>1, <3>1
  <2> QED BY <2>2 DEF FilesOf
<1>3. data \in Files => data \in FilesOf({d}) BY DEF FilesOf
<1>4. CASE made'[d].touched BY <1>4 DEF Filled
<1>5. CASE /\ ~made[d].touched
           /\ d \in present' <=> d \in present
           /\ \A f \in FilesOf({d}) : val'[f] = val[f] /\ sized'[f] = sized[f]
           /\ OnIt(d)' <=> OnIt(d)
           /\ OnIt(d) => pending' = pending
  <2>1. made'[d].msg = m /\ made'[d].new = made[d].new BY DEF Undisturbed
  <2>2. /\ k = 0 /\ made[d].new => d \notin present
        /\ k >= 1 => d \in present
        /\ \A j \in 2 .. Len(F) - 2 :
              j <= k => sized[F[j].file] /\ val[F[j].file] = F[j].value
        /\ data \in Files /\ made[d].new /\ 1 <= k /\ (k < Len(F) - 1 \/ OnIt(d))
              => val[data] = << >>
        /\ OnIt(d) => /\ k = Len(F) - 1 /\ data \in Files
                      /\ pending = [file |-> data, at |-> 0, text |-> FromMemory(m, m.total_len)]
        /\ data \in Files /\ k >= Len(F) - 1 /\ ~OnIt(d) => DataSays(d)
    BY <1>5 DEF Filled
  <2>3. data \in Files /\ DataSays(d) => DataSays(d)'
    BY <1>3, <1>5, <2>1 DEF DataSays, Says
  <2> HIDE DEF m, F, data
  <2>4. /\ k = 0 /\ made'[d].new => d \notin present'
        /\ k >= 1 => d \in present'
        /\ \A j \in 2 .. Len(F) - 2 :
              j <= k => sized'[F[j].file] /\ val'[F[j].file] = F[j].value
        /\ data \in Files /\ made'[d].new /\ 1 <= k /\ (k < Len(F) - 1 \/ OnIt(d)')
              => val'[data] = << >>
        /\ OnIt(d)' => /\ k = Len(F) - 1 /\ data \in Files
                       /\ pending' = [file |-> data, at |-> 0, text |-> FromMemory(m, m.total_len)]
        /\ data \in Files /\ k >= Len(F) - 1 /\ ~OnIt(d)' => DataSays(d)'
    BY <1>2, <1>3, <1>5, <2>1, <2>2, <2>3
  <2> QED BY <2>1, <2>4 DEF Filled, m, F, data
<1> QED BY <1>4, <1>5 DEF Undisturbed

\* A write is of one file.
LEMMA WriteOfOne ==
    ASSUME FInv, NEW f \in Files, NEW t, Write(f, t)
    PROVE /\ pending = NoWrite
          /\ \A g \in Files : g # f => val'[g] = val[g] /\ sized'[g] = sized[g]
          /\ pending' # NoWrite => pending'.file = f
<1>1. pending = NoWrite BY DEF Write
<1>2. CASE BeginString(f, t)
  <2>1. pending' = [file |-> f, text |-> t, at |-> 0] /\ UNCHANGED <<val, sized>>
    BY <1>2 DEF BeginString
  <2> QED BY <1>1, <2>1
<1>3. CASE SetNumber(f, t) /\ UNCHANGED pending
  BY <1>1, <1>3 DEF SetNumber, Store, FInv, FilesTypeOK
<1>4. CASE SetAddress(f, t) /\ UNCHANGED pending
  BY <1>1, <1>4 DEF SetAddress, Store, FInv, FilesTypeOK
<1>5. CASE SetMacNumber(f, t) /\ UNCHANGED pending
  BY <1>1, <1>5 DEF SetMacNumber, FInv, FilesTypeOK
<1>6. CASE Refuse(f, t) /\ UNCHANGED pending
  BY <1>1, <1>6 DEF Refuse
<1> QED BY <1>2, <1>3, <1>4, <1>5, <1>6 DEF Write

\* So is what the adapter writes.
LEMMA WriteFileOfOne ==
    ASSUME FInv, pending = NoWrite, NEW f, NEW v, WriteFile(f, v)
    PROVE /\ \A g \in Files : g # f => val'[g] = val[g] /\ sized'[g] = sized[g]
          /\ pending' # NoWrite => pending'.file = f
<1>1. CASE UNCHANGED fileVars BY <1>1 DEF fileVars
<1>2. ASSUME NEW t, f \in Files, Write(f, t)
      PROVE /\ \A g \in Files : g # f => val'[g] = val[g] /\ sized'[g] = sized[g]
            /\ pending' # NoWrite => pending'.file = f
  BY <1>2, WriteOfOne
<1> QED BY <1>1, <1>2 DEF WriteFile

\* A number that fits its file is in it afterwards.
LEMMA NumberWritten ==
    ASSUME FInv, pending = NoWrite, NEW f \in Of(Ints), f[1] \in present,
           NEW v \in Int, Fits(TypeOf[f], v), WriteFile(f, v)
    PROVE /\ val' = [val EXCEPT ![f] = v] /\ sized' = [sized EXCEPT ![f] = TRUE]
          /\ UNCHANGED pending
<1>1. f \in Files /\ TypeOf[f] \in Ints BY DEF Of
<1>2. f \notin Of(Strings) /\ f \notin Of(Addrs)
  BY <1>1, TypesApart
<1>3. f \notin Of({"eth"}) /\ f \notin Of({"ip32"}) BY <1>2 DEF Of, Addrs
<1> DEFINE t == Printed(f, v)
<1>4. t.form = "number" /\ t.n = v BY <1>2 DEF Printed
<1>5. Write(f, t) BY <1>1, <1>2 DEF WriteFile
<1> HIDE DEF t
<1>6. SetNumber(f, t) /\ UNCHANGED pending
  BY <1>1, <1>2, <1>3, <1>4, <1>5
  DEF Write, SetAddress, SetMacNumber, Refuse, BeginString
<1>7. Wrap(TypeOf[f], v) = v BY <1>1, WrapFits
<1> QED BY <1>4, <1>6, <1>7 DEF SetNumber, Store

\* The callback that fills d takes the next step of Fill().
LEMMA FillingGoesOn ==
    ASSUME StepsInv, NEW d, NEW k \in Nat, Filling(d, k), NEW s, Goes(s),
           made'[d].msg = made[d].msg
    PROVE LET F == Fill(d, made[d].msg) IN
          /\ k + 1 \in 1 .. Len(F) /\ s = F[k + 1] /\ Len(F) \in Nat /\ Len(F) >= 3
          /\ k + 1 # Len(F) => Filling(d, k + 1)'
          /\ k + 1 = Len(F) => Len(task') = 0
<1> DEFINE m == made[d].msg
           F == Fill(d, m)
<1>1. FillForm(F, d, m) BY FillShape
<1>2. /\ k \in 0 .. Len(F) - 1 /\ Len(task) = Len(F) - k
      /\ \A i \in 1 .. Len(task) : task[i] = F[k + i]
  BY DEF Filling
<1>3. Fill(d, made'[d].msg) = F OBVIOUS
<1> HIDE DEF F, m
<1>4. Len(F) \in Nat /\ Len(F) >= 3 BY <1>1 DEF FillForm
<1>5. /\ s = task[1] /\ 1 \in 1 .. Len(task)
      /\ Len(task') = Len(task) - 1
      /\ \A i \in 1 .. Len(task') : task'[i] = task[i + 1] /\ i + 1 \in 1 .. Len(task)
  BY GoesOn
<1>6. k + 1 \in 1 .. Len(F) /\ s = F[k + 1] BY <1>2, <1>4, <1>5
<1>7. Len(task') = Len(F) - (k + 1) BY <1>2, <1>4, <1>5
<1>8. \A i \in 1 .. Len(task') : task'[i] = F[(k + 1) + i]
  <2> TAKE i \in 1 .. Len(task')
  <2>1. task'[i] = task[i + 1] /\ i + 1 \in 1 .. Len(task) BY <1>5
  <2>2. task[i + 1] = F[k + (i + 1)] BY <1>2, <2>1
  <2>3. k + (i + 1) = (k + 1) + i OBVIOUS
  <2> QED BY <2>1, <2>2, <2>3
<1>9. k + 1 # Len(F) => k + 1 \in 0 .. Len(F) - 1 BY <1>4, <1>6
<1>10. k + 1 # Len(F) => Filling(d, k + 1)' BY <1>3, <1>7, <1>8, <1>9 DEF Filling
<1>11. k + 1 = Len(F) => Len(task') = 0 BY <1>4, <1>7
<1> QED BY <1>4, <1>6, <1>10, <1>11 DEF F, m

\* The directory is made, and its files are empty if it is new.
LEMMA FillMkdir ==
    ASSUME FInv, DirsInv, NEW d \in DOMAIN made, Filled(d, 0), NEW s, DoMkdir(s), s = Mkdir(d)
    PROVE Filled(d, 1)'
<1> DEFINE m == made[d].msg
           F == Fill(d, m)
           data == <<d, "data">>
<1>1. d[1] = "packet_in" /\ m \in Packets BY DEF DirsInv, Made
<1>2. Len(F) \in Nat /\ Len(F) >= 3
  <2>1. FillForm(F, d, m) BY FillShape
  <2> QED BY <2>1 DEF FillForm
<1>3. /\ present' = present \cup {d} /\ UNCHANGED <<made, pending>> /\ pending = NoWrite
      /\ d \notin present => MakeFiles(FilesOf({d}))
  <2>1. s.dir = d BY DEF Mkdir
  <2>2. IF d \in present THEN UNCHANGED fileVars ELSE MakeFiles(FilesOf({d}))
    BY <2>1 DEF DoMkdir
  <2>3. UNCHANGED pending
    <3>1. CASE d \in present BY <2>2, <3>1 DEF fileVars
    <3>2. CASE d \notin present BY <2>2, <3>2 DEF MakeFiles
    <3> QED BY <3>1, <3>2
  <2> QED BY <2>1, <2>2, <2>3 DEF DoMkdir, Goes
<1>4. data \in Files /\ d \notin present => val'[data] = << >>
  <2> SUFFICES ASSUME data \in Files, d \notin present PROVE val'[data] = << >> OBVIOUS
  <2>1. data \in Of(Strings) BY <1>1, FilesOfPacket
  <2>2. data \in FilesOf({d}) BY DEF FilesOf
  <2>3. NewVal(data) = << >> BY <2>1, TypesApart DEF NewVal
  <2> HIDE DEF data
  <2> QED BY <1>3, <2>2, <2>3 DEF MakeFiles
<1>5. ~made[d].touched /\ made[d].new => d \notin present BY DEF Filled
<1>6. ~OnIt(d)' BY <1>3 DEF OnIt
<1>7. d \in present' BY <1>3
<1> HIDE DEF F, m, data
<1>8. ~(1 >= Len(F) - 1) /\ \A j \in 2 .. Len(F) - 2 : ~(j <= 1) BY <1>2
<1>9. made' = made BY <1>3
<1> QED BY <1>4, <1>5, <1>6, <1>7, <1>8, <1>9 DEF Filled, F, m, data

\* A number is written.
LEMMA FillWrite ==
    ASSUME FInv, DirsInv, NEW d \in DOMAIN made, NEW k \in Nat, Filled(d, k), NEW s, DoWrite(s),
           k + 1 \in 2 .. Len(Fill(d, made[d].msg)) - 2, s = Fill(d, made[d].msg)[k + 1]
    PROVE Filled(d, k + 1)'
<1> DEFINE m == made[d].msg
           F == Fill(d, m)
           data == <<d, "data">>
           f == s.file
<1>1. d[1] = "packet_in" /\ m \in Packets BY DEF DirsInv, Made
<1>2. Len(F) \in Nat /\ Len(F) >= 3
  <2>1. FillForm(F, d, m) BY FillShape
  <2> QED BY <2>1 DEF FillForm
<1>3. /\ UNCHANGED <<made, present>> /\ pending = NoWrite /\ WriteFile(f, s.value)
      /\ s.do = "write"
  BY DEF DoWrite, Goes
<1>4. \A j \in 2 .. Len(F) - 2 :
         /\ F[j].do \in {"mkdir", "write", "data", "signal"}
         /\ F[j].do = "write" =>
               /\ F[j].file \in Of(Ints) /\ F[j].value = m[F[j].file[2]] /\ F[j].value \in Int
               /\ F[j].file \in Files /\ F[j].file[1] = d
               /\ Fits(TypeOf[F[j].file], F[j].value) /\ F[j].file[2] # "data"
         /\ F[j].do = "write"
  <2> TAKE j \in 2 .. Len(F) - 2
  <2>1. j \in 1 .. Len(F) /\ j # 1 /\ j # Len(F) - 1 /\ j # Len(F)
    <3> HIDE DEF F
    <3> QED BY <1>2
  <2>2. LET t == F[j] IN
        /\ t.do \in {"mkdir", "write", "data", "signal"}
        /\ t.do = "mkdir" => j = 1
        /\ t.do = "write" =>
              /\ t.file \in Of(Ints) /\ t.value = m[t.file[2]] /\ t.value \in Int
              /\ t.file \in Files /\ t.file[1] = d
              /\ Fits(TypeOf[t.file], t.value) /\ t.file[2] # "data"
        /\ t.do = "data" => j = Len(F) - 1
        /\ t.do = "signal" => j = Len(F)
    BY <1>1, <2>1, FillStep
  <2> HIDE DEF F
  <2> QED BY <2>1, <2>2
<1>5. CASE made[d].touched BY <1>3, <1>5 DEF Filled
<1>6. CASE ~made[d].touched
  <2>1. k >= 1 /\ d \in present
    <3>1. k >= 1
      <4>1. k + 1 \in 2 .. Len(F) - 2 OBVIOUS
      <4> HIDE DEF F
      <4> QED BY <1>2, <4>1
    <3>2. k >= 1 => d \in present BY <1>6 DEF Filled
    <3> QED BY <3>1, <3>2
  <2>2. \A j \in 2 .. Len(F) - 2 :
           j <= k => sized[F[j].file] /\ val[F[j].file] = F[j].value
    BY <1>6 DEF Filled
  <2>3. data \in Files /\ made[d].new /\ k < Len(F) - 1 => val[data] = << >>
    BY <1>6, <2>1 DEF Filled
  <2>4. s = F[k + 1] /\ k + 1 \in 2 .. Len(F) - 2 OBVIOUS
  <2> HIDE DEF F, m, data
  <2>5. /\ f \in Of(Ints) /\ f \in Files /\ f[1] = d /\ f[2] # "data"
        /\ s.value = m[f[2]] /\ s.value \in Int /\ Fits(TypeOf[f], s.value)
    BY <1>3, <1>4, <2>4
  <2> HIDE DEF f
  <2>6. /\ val' = [val EXCEPT ![f] = s.value] /\ sized' = [sized EXCEPT ![f] = TRUE]
        /\ UNCHANGED pending
    BY <1>3, <2>1, <2>5, NumberWritten
  <2>7. val = [g \in Files |-> val[g]] /\ DOMAIN sized = Files BY DEF FInv, FilesTypeOK
  <2>8. ASSUME NEW j \in 2 .. Len(F) - 2, j <= k + 1
        PROVE  sized'[F[j].file] /\ val'[F[j].file] = F[j].value
    <3>1. F[j].file \in Files BY <1>4
    <3>2. CASE F[j].file = f
      <4>1. F[j].value = m[f[2]] BY <1>4, <3>2
      <4> QED BY <2>5, <2>6, <2>7, <3>2, <4>1
    <3>3. CASE F[j].file # f
      <4>1. j # k + 1 BY <2>4, <3>3 DEF f
      <4>2. j <= k BY <2>8, <4>1
      <4> QED BY <2>2, <2>6, <2>7, <3>1, <3>3, <4>2
    <3> QED BY <3>2, <3>3
  <2>9. f # data BY <2>5 DEF data
  <2>10. data \in Files /\ made[d].new => val'[data] = << >>
    <3>1. k < Len(F) - 1 BY <1>2, <2>4
    <3> QED BY <2>3, <2>6, <2>7, <2>9, <3>1
  <2>11. ~OnIt(d)' /\ d \in present' /\ made' = made BY <1>3, <2>1, <2>6 DEF OnIt
  <2>12. ~(k + 1 = 0) /\ ~(k + 1 >= Len(F) - 1) BY <1>2, <2>4
  <2> QED BY <2>8, <2>10, <2>11, <2>12 DEF Filled, F, m, data
<1> QED BY <1>5, <1>6

\* The beginning of data that begins with the first c bytes of the frame.
LEMMA BeginsWith ==
    ASSUME NEW v \in Seq(Chars), NEW data \in Seq(Chars), NEW c \in 0 .. Len(data),
           c <= Len(v), \A i \in 1 .. c : v[i] = data[i]
    PROVE LET p == SubSeq(data, 1, c) IN
          p \in Seq(Chars) /\ Len(p) = c /\ Len(p) <= Len(v) /\ SubSeq(v, 1, Len(p)) = p
<1> DEFINE p == SubSeq(data, 1, c)
           q == SubSeq(v, 1, c)
<1>1. p \in Seq(Chars) /\ Len(p) = c /\ \A i \in 1 .. c : p[i] = data[i] OBVIOUS
<1>2. q \in Seq(Chars) /\ Len(q) = c /\ \A i \in 1 .. c : q[i] = v[i] OBVIOUS
<1> HIDE DEF p
<1>3. SubSeq(v, 1, Len(p)) = q BY <1>1
<1> HIDE DEF q
<1>4. q = p BY <1>1, <1>2
<1> QED BY <1>1, <1>3, <1>4 DEF p

\* The data of d after as much was written into it as the frame is long.
LEMMA DataWritten ==
    ASSUME NEW m \in Packets, Copied(m) >= 0, NEW old \in Seq(Chars), NEW f \in Of(Strings)
    PROVE LET t == FromMemory(m, m.total_len)
              v == Overlay(old, t, 0)
          IN /\ t \in Seq(Chars) /\ Len(t) = m.total_len /\ v \in Seq(Chars)
             /\ Says(f, v, SubSeq(m.data, 1, Copied(m)))
             /\ old = << >> => Len(v) = m.total_len
<1> DEFINE t == FromMemory(m, m.total_len)
           v == Overlay(old, t, 0)
           c == Copied(m)
<1>1. /\ m.data \in Seq(Chars) /\ Len(m.data) <= m.total_len /\ m.total_len \in Nat
      /\ c \in 0 .. Len(m.data) /\ c <= m.total_len
  BY CopiedIs
<1>2. t \in Seq(Chars) /\ Len(t) = m.total_len /\ \A i \in 1 .. c : t[i] = m.data[i]
  <2>1. m.total_len \in Int /\ m.total_len >= 0 BY <1>1
  <2> HIDE DEF c
  <2>2. /\ t \in Seq(Chars) /\ Len(t) = m.total_len
        /\ \A i \in 1 .. m.total_len : i <= c => t[i] = m.data[i]
    BY <2>1, MemoryIs DEF c
  <2> HIDE DEF t
  <2> QED BY <1>1, <2>2
<1> HIDE DEF t, c
<1>3. v \in Seq(Chars) /\ 0 + Len(t) <= Len(v) /\ \A i \in 1 .. Len(t) : v[0 + i] = t[i]
  <2>1. 0 \in 0 .. Len(old) OBVIOUS
  <2> QED BY <1>2, <2>1, OverlayLemma
<1>4. old = << >> => Len(v) = m.total_len
  <2> SUFFICES ASSUME old = << >> PROVE Len(v) = m.total_len OBVIOUS
  <2> DEFINE n == m.total_len
  <2>1. Len(t) = n /\ n \in Nat BY <1>1, <1>2
  <2> HIDE DEF n
  <2>2. (IF 0 + Len(t) > Len(old) THEN 0 + Len(t) ELSE Len(old)) = n BY <2>1
  <2>3. v = [i \in 1 .. n |-> IF 0 < i /\ i <= 0 + Len(t) THEN t[i - 0] ELSE old[i]]
    BY <2>2 DEF Overlay
  <2>4. v = [i \in 1 .. n |-> v[i]] BY <2>3
  <2> HIDE DEF v
  <2> QED BY <2>1, <2>4, FunctionAny DEF n
<1> HIDE DEF v
<1>5. c <= Len(v) /\ \A i \in 1 .. c : v[i] = m.data[i] BY <1>1, <1>2, <1>3
<1>6. Says(f, v, SubSeq(m.data, 1, c))
  BY <1>1, <1>3, <1>5, BeginsWith DEF Says
<1> QED BY <1>2, <1>3, <1>4, <1>6 DEF t, v, c

\* The data of the frame is begun: its length is what the file says that was
\* written before.
LEMMA FillData ==
    ASSUME FInv, DirsInv, NEW d \in DOMAIN made, NEW k \in Nat, Filled(d, k), NEW s, DoData(s),
           Copied(made[d].msg) >= 0,
           k + 1 = Len(Fill(d, made[d].msg)) - 1, s = Data(d, made[d].msg)
    PROVE Filled(d, k + 1)'
<1> DEFINE m == made[d].msg
           F == Fill(d, m)
           data == <<d, "data">>
           tl == <<d, "total_len">>
           n == ReadNumber(tl)
           t == FromMemory(m, n)
<1>1. d[1] = "packet_in" /\ m \in Packets BY DEF DirsInv, Made
<1>2. FillForm(F, d, m) BY FillShape
<1>3. Len(F) \in Nat /\ Len(F) >= 3 /\ k = Len(F) - 2 /\ k >= 1
  <2>1. k + 1 = Len(F) - 1 OBVIOUS
  <2> HIDE DEF F, m
  <2>2. Len(F) \in Nat /\ Len(F) >= 3 BY <1>2 DEF FillForm
  <2> QED BY <2>1, <2>2
<1>4. /\ UNCHANGED <<made, present>> /\ pending = NoWrite
      /\ IF data \notin Files \/ n = Undef THEN UNCHANGED fileVars ELSE WriteFile(data, t)
  BY DEF DoData, Goes, Data
<1>5. CASE made[d].touched BY <1>4, <1>5 DEF Filled
<1>6. CASE ~made[d].touched
  <2>1. /\ d \in present
        /\ \A j \in 2 .. Len(F) - 2 : sized[F[j].file] /\ val[F[j].file] = F[j].value
        /\ data \in Files /\ made[d].new => val[data] = << >>
    <3>1. /\ k >= 1 => d \in present
          /\ \A j \in 2 .. Len(F) - 2 : j <= k => sized[F[j].file] /\ val[F[j].file] = F[j].value
          /\ data \in Files /\ made[d].new /\ 1 <= k /\ (k < Len(F) - 1 \/ OnIt(d))
                => val[data] = << >>
      BY <1>6 DEF Filled
    <3> HIDE DEF F, m, data
    <3> QED BY <1>3, <3>1
  <2>2. CASE data \notin Files
    <3>1. UNCHANGED fileVars BY <1>4, <2>2
    <3>2. ~OnIt(d)' /\ val' = val /\ sized' = sized /\ made' = made /\ present' = present
      BY <1>4, <3>1 DEF OnIt, fileVars
    <3> HIDE DEF F, m, data
    <3>3. ~(k + 1 = 0) BY <1>3
    <3> QED BY <2>1, <2>2, <3>2, <3>3 DEF Filled, F, m, data
  <2>3. CASE data \in Files
    <3>1. data \in Of(Strings) /\ tl \in Of(Ints) /\ tl \notin Of({"u8", "i8"}) /\ tl \in Files
      BY <1>1, <2>3, FilesOfPacket DEF Of
    <3>2. sized[tl] /\ val[tl] = m.total_len
      <4>1. PacketFiles[2] = "total_len" /\ 2 \in 1 .. Len(PacketFiles) BY DEF PacketFiles
      <4>2. PICK j \in 2 .. Len(F) - 2 :
               F[j] = WriteTo(d, PacketFiles[2], m[PacketFiles[2]])
        <5>1. <<d, PacketFiles[2]>> \in Files BY <3>1, <4>1
        <5> HIDE DEF F, m
        <5> QED BY <1>2, <4>1, <5>1 DEF FillForm
      <4> HIDE DEF F
      <4>3. F[j] = WriteTo(d, "total_len", m["total_len"]) BY <4>1, <4>2
      <4>4. F[j].file = tl /\ F[j].value = m["total_len"] BY <4>3 DEF WriteTo
      <4> QED BY <2>1, <4>4
    <3>3. n = m.total_len BY <3>1, <3>2 DEF ReadNumber
    <3>4. m.total_len \in Nat BY <1>1, CopiedIs
    <3>5. n # Undef BY <3>3, <3>4, FilesAssumption
    <3>6. WriteFile(data, t) /\ t = FromMemory(m, m.total_len) BY <1>4, <2>3, <3>3, <3>5
    <3>7. val[data] \in Seq(Chars) BY <3>1, TypesApart DEF FInv, FilesTypeOK
    <3>8. t \in Seq(Chars) /\ Len(t) = m.total_len
      BY <1>1, <3>1, <3>6, <3>7, DataWritten
    <3>9. data[1] = d OBVIOUS
    <3> HIDE DEF F, m, data, t, n
    <3>10. CASE t = << >>
      <4>1. UNCHANGED fileVars BY <2>1, <2>3, <3>1, <3>6, <3>9, <3>10 DEF WriteFile
      <4>2. ~OnIt(d)' /\ val' = val /\ sized' = sized /\ made' = made /\ present' = present
        BY <1>4, <4>1 DEF OnIt, fileVars
      <4>3. m.total_len = 0 BY <3>8, <3>10
      <4>4. Copied(m) = 0 /\ m.data \in Seq(Chars) BY <1>1, <4>3, CopiedIs DEF m
      <4>5. SubSeq(m.data, 1, Copied(m)) = << >> BY <4>4
      <4>6. Says(data, val[data], SubSeq(m.data, 1, Copied(m)))
        <5>1. Len(<< >>) <= Len(val[data]) /\ SubSeq(val[data], 1, Len(<< >>)) = << >> BY <3>7
        <5> QED BY <3>1, <4>5, <5>1 DEF Says
      <4>7. made[d].new => Len(val[data]) = m.total_len BY <2>1, <2>3, <4>3
      <4>8. DataSays(d)' BY <4>2, <4>6, <4>7 DEF DataSays, m, data
      <4>9. ~(k + 1 = 0) /\ ~(k + 1 < Len(F) - 1) BY <1>3
      <4> QED BY <2>1, <4>2, <4>8, <4>9 DEF Filled, F, m, data
    <3>11. CASE t # << >>
      <4>1. Write(data, t) BY <2>1, <2>3, <3>1, <3>6, <3>9, <3>11 DEF WriteFile
      <4>2. BeginString(data, t)
        <5>1. data \notin Of(Ints) /\ data \notin Of(Addrs) BY <3>1, TypesApart
        <5>2. data \notin Of({"eth"}) /\ data \notin Of({"ip32"}) BY <5>1 DEF Of, Addrs
        <5> QED BY <4>1, <5>1, <5>2 DEF Write, SetNumber, SetAddress, SetMacNumber, Refuse
      <4>3. /\ pending' = [file |-> data, text |-> t, at |-> 0]
            /\ val' = val /\ sized' = sized /\ made' = made /\ present' = present
        BY <1>4, <4>2 DEF BeginString
      <4>4. pending' # NoWrite
        <5>1. pending' \in [file : Files, text : Seq(Chars), at : Nat] BY <2>3, <3>8, <4>3
        <5> QED BY <5>1, FilesAssumption
      <4>5. pending'.file[1] = d BY <3>9, <4>3
      <4>6. OnIt(d)' BY <4>4, <4>5 DEF OnIt
      <4>7. pending' = [file |-> data, at |-> 0, text |-> FromMemory(m, m.total_len)]
        BY <3>6, <4>3
      <4>8. ~(k + 1 = 0) /\ k + 1 = Len(F) - 1 BY <1>3
      <4> QED BY <2>1, <2>3, <4>3, <4>6, <4>7, <4>8 DEF Filled, F, m, data
    <3> QED BY <3>10, <3>11
  <2> QED BY <2>2, <2>3
<1> QED BY <1>5, <1>6

\* A packet is said when its data is complete.
LEMMA FillSignal ==
    ASSUME DirsInv, NEW d \in DOMAIN made, NEW k \in Nat, Filled(d, k), NEW s, DoSignal(s),
           k + 1 = Len(Fill(d, made[d].msg)), s = Signal(d)
    PROVE Filled(d, k + 1)'
<1> DEFINE m == made[d].msg
           F == Fill(d, m)
           data == <<d, "data">>
<1>1. Len(F) \in Nat /\ Len(F) >= 3 /\ k = Len(F) - 1
  <2>1. FillForm(F, d, m) BY FillShape
  <2>2. k + 1 = Len(F) OBVIOUS
  <2> HIDE DEF F, m
  <2>3. Len(F) \in Nat /\ Len(F) >= 3 BY <2>1 DEF FillForm
  <2> QED BY <2>2, <2>3
<1>2. /\ UNCHANGED <<val, sized, pending, present>> /\ pending = NoWrite
      /\ made' = [made EXCEPT ![d].said = TRUE]
  <2>1. s.dir = d BY DEF Signal
  <2> QED BY <2>1 DEF DoSignal, Goes, fileVars
<1>3. /\ made'[d].msg = m /\ made'[d].new = made[d].new
      /\ made[d].touched => made'[d].touched
  BY <1>2, MadeKept
<1>4. ~OnIt(d) /\ ~OnIt(d)' BY <1>2 DEF OnIt
<1>5. CASE made[d].touched BY <1>3, <1>5 DEF Filled
<1>6. CASE ~made[d].touched
  <2>1. /\ k >= 1 => d \in present
        /\ \A j \in 2 .. Len(F) - 2 : j <= k => sized[F[j].file] /\ val[F[j].file] = F[j].value
        /\ data \in Files /\ k >= Len(F) - 1 => DataSays(d)
    BY <1>4, <1>6 DEF Filled
  <2>2. data \in Files => DataSays(d)'
    <3>1. k >= Len(F) - 1
      <4> HIDE DEF F
      <4> QED BY <1>1
    <3>2. data \in Files => DataSays(d) BY <2>1, <3>1
    <3> QED BY <1>2, <1>3, <3>2 DEF DataSays, Says
  <2> HIDE DEF F, m, data
  <2>3. d \in present /\ ~(k + 1 = 0) /\ k + 1 = Len(F) /\ ~(k + 1 < Len(F) - 1) BY <1>1, <2>1
  <2>4. \A j \in 2 .. Len(F) - 2 : sized'[F[j].file] /\ val'[F[j].file] = F[j].value
    BY <1>1, <1>2, <2>1
  <2>5. Fill(d, made'[d].msg) = F BY <1>3 DEF F
  <2> QED BY <1>2, <1>3, <1>4, <2>2, <2>3, <2>4, <2>5 DEF Filled, F, m, data
<1> QED BY <1>5, <1>6

\* The rest of a string: data is taken whole.
LEMMA FillGoesOn ==
    ASSUME FInv, DirsInv, NEW d \in DOMAIN made, NEW k \in Nat, Filled(d, k), GoOn,
           Copied(made[d].msg) >= 0
    PROVE Filled(d, k)'
<1> DEFINE m == made[d].msg
           F == Fill(d, m)
           data == <<d, "data">>
           f == pending.file
           t == pending.text
<1>1. /\ WriteRest /\ made' = made /\ present' = present /\ sized' = sized
      /\ pending # NoWrite /\ f \in Of(Strings) /\ f \in Files
  BY TypesApart DEF GoOn, WriteRest, FInv, FilesTypeOK
<1>2. CASE made[d].touched BY <1>1, <1>2 DEF Filled
<1>3. CASE ~OnIt(d)
  <2>1. f[1] # d BY <1>1, <1>3 DEF OnIt
  <2>2. \A g \in Files : g # f => val'[g] = val[g]
    BY <1>1 DEF WriteRest, FInv, FilesTypeOK
  <2>3. pending' = NoWrite \/ pending'.file = f
    <3> QED BY <1>1 DEF WriteRest
  <2>4. ~OnIt(d)' BY <2>1, <2>3 DEF OnIt
  <2>5. Undisturbed(d) BY <1>1, <1>3, <2>1, <2>2, <2>4 DEF Undisturbed, FilesOf
  <2> QED BY <2>5, FilledKept
<1>4. CASE OnIt(d) /\ ~made[d].touched
  <2>1. d[1] = "packet_in" /\ m \in Packets BY DEF DirsInv, Made
  <2>2. /\ k = Len(F) - 1 /\ data \in Files
        /\ pending = [file |-> data, at |-> 0, text |-> FromMemory(m, m.total_len)]
        /\ k >= 1 => d \in present
        /\ \A j \in 2 .. Len(F) - 2 : j <= k => sized[F[j].file] /\ val[F[j].file] = F[j].value
        /\ made[d].new /\ 1 <= k => val[data] = << >>
    BY <1>4 DEF Filled
  <2>3. Len(F) \in Nat /\ Len(F) >= 3
    <3>1. FillForm(F, d, m) BY FillShape
    <3> HIDE DEF F
    <3> QED BY <3>1 DEF FillForm
  <2>4. f = data /\ pending.at = 0 /\ t = FromMemory(m, m.total_len) BY <2>2
  <2>5. data \in Of(Strings) /\ TypeOf[data] = "raw" BY <2>1, <2>2, FilesOfPacket
  <2>6. val[data] \in Seq(Chars) BY <2>2, <2>5, TypesApart DEF FInv, FilesTypeOK
  <2>7. /\ t \in Seq(Chars) /\ Len(t) = m.total_len
        /\ Says(data, Overlay(val[data], t, 0), SubSeq(m.data, 1, Copied(m)))
        /\ val[data] = << >> => Len(Overlay(val[data], t, 0)) = m.total_len
    BY <2>1, <2>4, <2>5, <2>6, DataWritten
  <2>8. SubSeq(t, 0 + 1, Len(t)) = t /\ 0 + Len(t) = Len(t) BY <2>7
  <2>9. \A b \in BOOLEAN : Taken(data, t, b) = {t} BY <2>5 DEF Taken
  <2> HIDE DEF F, m, data, f, t
  <2>10. val' = [val EXCEPT ![data] = Overlay(@, t, 0)] /\ pending' = NoWrite
    <3>1. SubSeq(pending.text, pending.at + 1, Len(pending.text)) = t BY <2>4, <2>8 DEF t
    <3>2. PICK b \in BOOLEAN : \E s \in Taken(data, t, b) :
             /\ val' = [val EXCEPT ![data] = Overlay(@, s, 0)]
             /\ pending' = IF s = << >> \/ 0 + Len(s) = Len(t) THEN NoWrite
                           ELSE [pending EXCEPT !.at = 0 + Len(s)]
      BY <1>1, <2>4, <3>1 DEF WriteRest, f, t
    <3>3. Taken(data, t, b) = {t} BY <2>9
    <3>4. PICK s \in {t} :
             /\ val' = [val EXCEPT ![data] = Overlay(@, s, 0)]
             /\ pending' = IF s = << >> \/ 0 + Len(s) = Len(t) THEN NoWrite
                           ELSE [pending EXCEPT !.at = 0 + Len(s)]
      BY <3>2, <3>3
    <3>5. s = t OBVIOUS
    <3> QED BY <2>8, <3>4, <3>5
  <2>11. val'[data] = Overlay(val[data], t, 0) /\ \A g \in Files : g # data => val'[g] = val[g]
    BY <2>2, <2>10 DEF FInv, FilesTypeOK
  <2>12. ~OnIt(d)' BY <2>10 DEF OnIt
  <2>13. ~(k = 0) /\ ~(k < Len(F) - 1) /\ k >= 1 BY <2>2, <2>3
  <2>14. DataSays(d)' BY <1>1, <2>2, <2>7, <2>11, <2>13 DEF DataSays, m, data
  <2>15. \A j \in 2 .. Len(F) - 2 : sized'[F[j].file] /\ val'[F[j].file] = F[j].value
    <3> TAKE j \in 2 .. Len(F) - 2
    <3>1. j \in 1 .. Len(F) /\ j <= k /\ j # 1 /\ j # Len(F) - 1 /\ j # Len(F) BY <2>2, <2>3
    <3>2. LET s == F[j] IN
          /\ s.do \in {"mkdir", "write", "data", "signal"}
          /\ s.do = "mkdir" => j = 1
          /\ s.do = "write" => s.file \in Files /\ s.file[2] # "data"
          /\ s.do = "data" => j = Len(F) - 1
          /\ s.do = "signal" => j = Len(F)
      BY <2>1, <3>1, FillStep DEF F
    <3>3. F[j].file \in Files /\ F[j].file # data BY <3>1, <3>2 DEF data
    <3> QED BY <1>1, <2>2, <2>11, <3>1, <3>3
  <2>16. d \in present' BY <1>1, <2>2, <2>13
  <2> QED BY <1>1, <2>12, <2>13, <2>14, <2>15, <2>16 DEF Filled, F, m, data
<1> QED BY <1>2, <1>3, <1>4

\* What sets a switch up is not about packets.
LEMMA SetupNoPacket ==
    ASSUME NEW T, SetupSteps(T, {SwitchDir} \cup PortDirs)
    PROVE NoPacket(T)
<1>1. \A d \in {SwitchDir} \cup PortDirs : d[1] # "packet_in"
  BY DEF PortDirs, PortDir, SwitchDir
<1> QED BY <1>1 DEF SetupSteps, NoPacket, DirOf

\* Nor is what is left of it.
LEMMA NoPacketLeft ==
    ASSUME StepsInv, NoPacket(task), NEW s, Goes(s)
    PROVE NoPacket(task') /\ (s.do # "throw" => DirOf(s)[1] # "packet_in")
<1>1. /\ s = task[1] /\ 1 \in 1 .. Len(task)
      /\ \A i \in 1 .. Len(task') : task'[i] = task[i + 1] /\ i + 1 \in 1 .. Len(task)
  BY GoesOn
<1> QED BY <1>1 DEF NoPacket

\* All steps of Fill() are gone.
LEMMA CompleteNow ==
    ASSUME NEW d, NEW n, n = Len(Fill(d, made[d].msg)), made'[d].msg = made[d].msg, Filled(d, n)'
    PROVE Complete(d)'
<1>1. n = Len(Fill(d, made'[d].msg)) OBVIOUS
<1>2. Complete(d)' <=> Filled(d, n)' BY <1>1, Zenon DEF Complete, Filled
<1> QED BY <1>2

\* What is said stays as it is if nothing but others' writes happens to it.
LEMMA SaidKept ==
    ASSUME DirsInv, FillInv, DOMAIN made' = DOMAIN made, NEW d \in DOMAIN made,
           made'[d].said => made[d].said, made[d].said => Undisturbed(d),
           made'[d].msg = made[d].msg
    PROVE /\ Copied(made'[d].msg) >= 0
          /\ made'[d].said => Complete(d)'
<1>1. Copied(made[d].msg) >= 0 BY DEF FillInv
<1>2. ASSUME made'[d].said PROVE Complete(d)'
  <2>1. PICK n : n = Len(Fill(d, made[d].msg)) OBVIOUS
  <2>2. n \in Nat BY <2>1, FillShape DEF FillForm
  <2>3. Filled(d, n) /\ Undisturbed(d) BY <1>2, <2>1 DEF FillInv, Complete
  <2>4. Filled(d, n)' BY <2>2, <2>3, FilledKept
  <2> QED BY <2>1, <2>4, CompleteNow
<1> QED BY <1>1, <1>2

\* So does everything if the callback takes no step.
LEMMA FillKept ==
    ASSUME DirsInv, FillInv, DOMAIN made' = DOMAIN made, task' = task,
           \A d \in DOMAIN made : Undisturbed(d) /\ made'[d].said = made[d].said
    PROVE FillInv'
<1>1. \A d \in DOMAIN made :
         /\ Copied(made'[d].msg) >= 0
         /\ made'[d].said => Complete(d)'
  <2> TAKE d \in DOMAIN made
  <2>1. made'[d].msg = made[d].msg BY DEF Undisturbed
  <2> QED BY <2>1, SaidKept
<1>2. ASSUME OnePacket PROVE OnePacket'
  <2>1. PICK d \in DOMAIN made : \E k \in Nat : Filling(d, k) /\ Filled(d, k) /\ ~made[d].said
    BY <1>2 DEF OnePacket
  <2>2. PICK k \in Nat : Filling(d, k) /\ Filled(d, k) /\ ~made[d].said BY <2>1
  <2>3. Filled(d, k)' BY <2>2, FilledKept
  <2>4. Filling(d, k)' BY <2>2 DEF Filling, Undisturbed
  <2> QED BY <2>2, <2>3, <2>4 DEF OnePacket
<1>3. NoPacket(task)' \/ OnePacket' BY <1>2 DEF FillInv
<1> QED BY <1>1, <1>3 DEF FillInv

\* A step of a callback is about one directory.
LEMMA OtherDirs ==
    ASSUME FInv, DirsInv, NEW s, NEW d \in DOMAIN made, d # DirOf(s),
           DoMkdir(s) \/ DoWrite(s) \/ DoIndex(s) \/ DoData(s) \/ DoSignal(s)
    PROVE DOMAIN made' = DOMAIN made /\ Undisturbed(d) /\ made'[d].said = made[d].said
<1>1. pending = NoWrite BY DEF DoMkdir, DoWrite, DoIndex, DoData, DoSignal, Goes
<1>2. CASE DoMkdir(s)
  <2>1. /\ s.dir # d /\ present' = present \cup {s.dir} /\ made' = made
        /\ UNCHANGED fileVars \/ MakeFiles(FilesOf({s.dir}))
    BY <1>2 DEF DoMkdir, DirOf
  <2>2. UNCHANGED pending /\ \A f \in FilesOf({d}) : val'[f] = val[f] /\ sized'[f] = sized[f]
    <3>1. CASE UNCHANGED fileVars BY <3>1 DEF fileVars
    <3>2. CASE MakeFiles(FilesOf({s.dir}))
      <4>1. \A f \in FilesOf({d}) : f \in Files /\ f \notin FilesOf({s.dir})
        BY <2>1 DEF FilesOf
      <4> QED BY <3>2, <4>1 DEF MakeFiles
    <3> QED BY <2>1, <3>1, <3>2
  <2> QED BY <1>1, <2>1, <2>2 DEF Undisturbed, OnIt
<1>3. CASE DoWrite(s) \/ DoData(s)
  <2>1. PICK f : /\ f[1] # d /\ made' = made /\ present' = present
                 /\ UNCHANGED fileVars \/ \E v : WriteFile(f, v)
    <3>1. CASE DoWrite(s)
      <4>1. s.file[1] # d /\ WriteFile(s.file, s.value) /\ made' = made /\ present' = present
        BY <3>1 DEF DoWrite, DirOf
      <4> QED BY <4>1
    <3>2. CASE DoData(s)
      <4>1. <<s.dir, "data">>[1] # d /\ made' = made /\ present' = present
        BY <3>2 DEF DoData, DirOf
      <4>2. \/ UNCHANGED fileVars
            \/ WriteFile(<<s.dir, "data">>,
                         FromMemory(s.msg, ReadNumber(<<s.dir, "total_len">>)))
        BY <3>2 DEF DoData
      <4> QED BY <4>1, <4>2
    <3> QED BY <1>3, <3>1, <3>2
  <2>2. CASE UNCHANGED fileVars BY <1>1, <2>1, <2>2 DEF Undisturbed, OnIt, fileVars
  <2>3. ASSUME NEW v, WriteFile(f, v) PROVE Undisturbed(d)
    <3>1. /\ \A g \in Files : g # f => val'[g] = val[g] /\ sized'[g] = sized[g]
          /\ pending' # NoWrite => pending'.file = f
      BY <1>1, <2>3, WriteFileOfOne
    <3>2. \A g \in FilesOf({d}) : g \in Files /\ g # f BY <2>1 DEF FilesOf
    <3> QED BY <1>1, <2>1, <3>1, <3>2 DEF Undisturbed, OnIt
  <2> QED BY <2>1, <2>2, <2>3
<1>4. CASE DoIndex(s) BY <1>4 DEF DoIndex, Undisturbed, OnIt, fileVars
<1>5. CASE DoSignal(s)
  <2>1. /\ s.dir # d /\ UNCHANGED <<val, sized, pending, present>>
        /\ made' = IF s.dir \in DOMAIN made THEN [made EXCEPT ![s.dir].said = TRUE] ELSE made
    BY <1>5 DEF DoSignal, DirOf, fileVars
  <2>2. DOMAIN made' = DOMAIN made /\ made'[d] = made[d] BY <2>1, MadeKept
  <2> QED BY <2>1, <2>2 DEF Undisturbed, OnIt
<1> QED BY <1>2, <1>3, <1>4, <1>5

\* A step of a callback that is not about a packet.
LEMMA NoPacketStep ==
    ASSUME FInv, StepsInv, DirsInv, FillInv, NoPacket(task), NEW s,
           DoMkdir(s) \/ DoWrite(s) \/ DoIndex(s) \/ DoData(s) \/ DoSignal(s) \/ DoThrow(s)
    PROVE FillInv'
<1>1. Goes(s) BY DEF DoMkdir, DoWrite, DoIndex, DoData, DoSignal, DoThrow
<1>2. NoPacket(task') /\ (s.do # "throw" => DirOf(s)[1] # "packet_in")
  BY <1>1, NoPacketLeft
<1>3. CASE DoMkdir(s) \/ DoWrite(s) \/ DoIndex(s) \/ DoData(s) \/ DoSignal(s)
  <2>1. s.do # "throw" BY <1>3 DEF DoMkdir, DoWrite, DoIndex, DoData, DoSignal
  <2>2. ASSUME NEW d \in DOMAIN made
        PROVE DOMAIN made' = DOMAIN made /\ Undisturbed(d) /\ made'[d].said = made[d].said
    <3>1. d # DirOf(s) BY <1>2, <2>1 DEF DirsInv
    <3> QED BY <1>3, <3>1, OtherDirs
  <2>3. DOMAIN made' = DOMAIN made
    <3>1. CASE DoSignal(s) BY <3>1, MadeKept DEF DoSignal
    <3>2. CASE ~DoSignal(s) BY <1>3, <3>2 DEF DoMkdir, DoWrite, DoIndex, DoData
    <3> QED BY <3>1, <3>2
  <2>4. ASSUME NEW d \in DOMAIN made
        PROVE  /\ Copied(made'[d].msg) >= 0
               /\ made'[d].said => Complete(d)'
    <3>1. Undisturbed(d) /\ made'[d].said = made[d].said BY <2>2
    <3>2. made'[d].msg = made[d].msg BY <3>1 DEF Undisturbed
    <3> QED BY <2>3, <3>1, <3>2, SaidKept
  <2> QED BY <1>2, <2>3, <2>4 DEF FillInv
<1>4. CASE DoThrow(s)
  <2>1. /\ s.do = "throw" /\ UNCHANGED <<val, sized, pending, made>> /\ pending = NoWrite
        /\ present' = IF s.isNew THEN {} ELSE present
    BY <1>4 DEF DoThrow, Goes, fileVars
  <2>2. s.isNew => present \subseteq {SwitchDir}
    <3>1. s = task[1] /\ 1 \in 1 .. Len(task) BY <1>1, GoesOn
    <3>2. task[1].do = "throw" => (task[1].isNew => present \subseteq {SwitchDir})
      BY <3>1 DEF StepsInv
    <3> QED BY <2>1, <3>1, <3>2
  <2>3. ASSUME NEW d \in DOMAIN made, made[d].said PROVE Undisturbed(d)
    <3>1. CASE made[d].touched BY <2>1, <3>1 DEF Undisturbed
    <3>2. CASE ~made[d].touched
      <4> DEFINE n == Len(Fill(d, made[d].msg))
      <4>1. Filled(d, n) BY <2>3 DEF FillInv, Complete
      <4>2. FillForm(Fill(d, made[d].msg), d, made[d].msg) BY FillShape
      <4>3. n \in Nat /\ n >= 3 BY <4>2 DEF FillForm
      <4> HIDE DEF n
      <4>4. n >= 1 BY <4>3
      <4>5. d \in present BY <3>2, <4>1, <4>4 DEF Filled
      <4>6. d # SwitchDir BY DirsApart
      <4>7. present' = present BY <2>1, <2>2, <4>5, <4>6
      <4> QED BY <2>1, <4>7 DEF Undisturbed, OnIt
    <3> QED BY <3>1, <3>2
  <2>4. ASSUME NEW d \in DOMAIN made
        PROVE  /\ Copied(made'[d].msg) >= 0
               /\ made'[d].said => Complete(d)'
    BY <2>1, <2>3, SaidKept
  <2> QED BY <1>2, <2>1, <2>4 DEF FillInv
<1> QED BY <1>3, <1>4

\* A step of the callback that fills a packet's directory.
LEMMA PacketStep ==
    ASSUME FInv, StepsInv, DirsInv, FillInv, OnePacket, NEW s,
           DoMkdir(s) \/ DoWrite(s) \/ DoIndex(s) \/ DoData(s) \/ DoSignal(s) \/ DoThrow(s)
    PROVE FillInv'
<1>1. Goes(s) BY DEF DoMkdir, DoWrite, DoIndex, DoData, DoSignal, DoThrow
<1>2. PICK d \in DOMAIN made : \E k \in Nat : Filling(d, k) /\ Filled(d, k) /\ ~made[d].said
  BY DEF OnePacket
<1>3. PICK k \in Nat : Filling(d, k) /\ Filled(d, k) /\ ~made[d].said BY <1>2
<1>4. PICK m : m = made[d].msg OBVIOUS
<1>5. PICK F : F = Fill(d, m) OBVIOUS
<1>6. d[1] = "packet_in" /\ m \in Packets /\ Copied(m) >= 0 BY <1>4 DEF DirsInv, Made, FillInv
<1>7. /\ DOMAIN made' = DOMAIN made
      /\ \A e \in DOMAIN made :
            /\ made'[e].msg = made[e].msg
            /\ ~DoSignal(s) => made'[e] = made[e]
  <2>1. CASE DoSignal(s)
    <3>1. made' = IF s.dir \in DOMAIN made THEN [made EXCEPT ![s.dir].said = TRUE] ELSE made
      BY <2>1 DEF DoSignal
    <3> QED BY <2>1, <3>1, MadeKept
  <2>2. CASE ~DoSignal(s) BY <2>2 DEF DoMkdir, DoWrite, DoIndex, DoData, DoThrow
  <2> QED BY <2>1, <2>2
<1>8. FillForm(F, d, m) BY <1>5, FillShape
<1>9. /\ k + 1 \in 1 .. Len(F) /\ s = F[k + 1] /\ Len(F) \in Nat /\ Len(F) >= 3
      /\ k + 1 # Len(F) => Filling(d, k + 1)'
      /\ k + 1 = Len(F) => Len(task') = 0
  BY <1>1, <1>3, <1>4, <1>5, <1>7, FillingGoesOn
<1>10. /\ s.do \in {"mkdir", "write", "data", "signal"} /\ DirOf(s) = d
       /\ s.do = "mkdir" => k + 1 = 1
       /\ s.do = "write" => k + 1 \in 2 .. Len(F) - 2
       /\ s.do = "data" => k + 1 = Len(F) - 1
       /\ s.do = "signal" => k + 1 = Len(F)
  BY <1>5, <1>6, <1>9, FillStep
<1>11. DoMkdir(s) \/ DoWrite(s) \/ DoData(s) \/ DoSignal(s)
  BY <1>10 DEF DoIndex, DoThrow
<1>12. \A e \in DOMAIN made : e # d => Undisturbed(e) /\ made'[e].said = made[e].said
  BY <1>10, <1>11, OtherDirs
<1>13. Filled(d, k + 1)'
  <2>1. CASE DoMkdir(s)
    <3>1. k = 0 BY <1>10, <2>1 DEF DoMkdir
    <3>2. s = Mkdir(d) BY <1>8, <1>9, <3>1 DEF FillForm
    <3>3. Filled(d, 0) /\ k + 1 = 1 BY <1>3, <3>1
    <3>4. Filled(d, 1)' BY <2>1, <3>2, <3>3, FillMkdir
    <3> QED BY <3>3, <3>4
  <2>2. CASE DoWrite(s)
    <3>1. k + 1 \in 2 .. Len(F) - 2 BY <1>10, <2>2 DEF DoWrite
    <3> QED BY <1>3, <1>4, <1>5, <1>9, <2>2, <3>1, FillWrite
  <2>3. CASE DoData(s)
    <3>1. k + 1 = Len(F) - 1 BY <1>10, <2>3 DEF DoData
    <3>2. s = Data(d, m) BY <1>8, <1>9, <3>1 DEF FillForm
    <3> QED BY <1>3, <1>4, <1>5, <1>6, <2>3, <3>1, <3>2, FillData
  <2>4. CASE DoSignal(s)
    <3>1. k + 1 = Len(F) BY <1>10, <2>4 DEF DoSignal
    <3>2. s = Signal(d) BY <1>8, <1>9, <3>1 DEF FillForm
    <3> QED BY <1>3, <1>4, <1>5, <2>4, <3>1, <3>2, FillSignal
  <2> QED BY <1>11, <2>1, <2>2, <2>3, <2>4
<1>14. CASE k + 1 # Len(F)
  <2>1. ~DoSignal(s) BY <1>10, <1>14 DEF DoSignal
  <2>2. made'[d] = made[d] BY <1>7, <2>1
  <2>3. OnePacket' BY <1>3, <1>7, <1>9, <1>13, <1>14, <2>2 DEF OnePacket
  <2>4. ASSUME NEW e \in DOMAIN made
        PROVE  /\ Copied(made'[e].msg) >= 0
               /\ made'[e].said => Complete(e)'
    <3>1. CASE e = d BY <1>3, <1>4, <1>6, <1>7, <2>2, <3>1
    <3>2. CASE e # d BY <1>7, <1>12, <3>2, SaidKept
    <3> QED BY <3>1, <3>2
  <2> QED BY <1>7, <2>3, <2>4 DEF FillInv
<1>15. CASE k + 1 = Len(F)
  <2>1. NoPacket(task)'
    <3>1. 1 .. Len(task') = {} BY <1>9, <1>15
    <3> QED BY <3>1, Zenon DEF NoPacket
  <2>2. Complete(d)'
    <3>1. PICK n : n = k + 1 OBVIOUS
    <3>2. n = Len(Fill(d, made[d].msg)) BY <1>4, <1>5, <1>15, <3>1
    <3>3. Filled(d, n)' BY <1>13, <3>1
    <3>4. made'[d].msg = made[d].msg BY <1>7
    <3> QED BY <3>2, <3>3, <3>4, CompleteNow
  <2>3. ASSUME NEW e \in DOMAIN made
        PROVE  /\ Copied(made'[e].msg) >= 0
               /\ made'[e].said => Complete(e)'
    <3>1. CASE e = d BY <1>4, <1>6, <1>7, <2>2, <3>1
    <3>2. CASE e # d BY <1>7, <1>12, <3>2, SaidKept
    <3> QED BY <3>1, <3>2
  <2> QED BY <1>7, <2>1, <2>3 DEF FillInv
<1> QED BY <1>14, <1>15

\* A PACKET_IN comes: its directory is still to be filled.
LEMMA PacketComes ==
    ASSUME StepsInv, DirsInv, BoundsInv, FillInv, NEW m \in Packets, HandlePacketIn(m)
    PROVE FillInv'
<1>1. PICK d : d = <<"packet_in", PortName(m.in_port), counter'[m.in_port]>> OBVIOUS
<1>2. PICK e : e = [msg |-> m, nth |-> nsent, life |-> starts,
                    new |-> d \notin present,
                    said |-> FALSE, touched |-> FALSE]
  OBVIOUS
<1>3. /\ task' = Fill(d, m) /\ made' = Put(made, d, e) /\ Copied(m) >= 0
      /\ UNCHANGED <<val, sized, pending, present>> /\ pending = NoWrite
  BY <1>1, <1>2 DEF HandlePacketIn, Receives, fileVars
<1>4. /\ DOMAIN made' = DOMAIN made \cup {d} /\ made'[d] = e
      /\ \A x \in DOMAIN made : x # d => made'[x] = made[x]
  BY <1>3 DEF Put
<1>5. /\ e.msg = m /\ (e.new => d \notin present) /\ ~e.said /\ ~e.touched BY <1>2
<1>6. PICK F : F = Fill(d, m) OBVIOUS
<1>7. Len(F) \in Nat /\ Len(F) >= 3
  <2>1. FillForm(F, d, m) BY <1>6, FillShape
  <2> QED BY <2>1 DEF FillForm
<1>8. Filling(d, 0)'
  <2>1. 0 \in 0 .. Len(F) - 1 /\ Len(F) = Len(F) - 0 /\ \A i \in 1 .. Len(F) : F[i] = F[0 + i]
    BY <1>7
  <2> QED BY <1>3, <1>4, <1>5, <1>6, <2>1 DEF Filling
<1>9. Filled(d, 0)'
  <2>1. /\ ~(0 >= 1) /\ ~(1 <= 0) /\ ~(0 >= Len(F) - 1) /\ \A j \in 2 .. Len(F) - 2 : ~(j <= 0)
    BY <1>7
  <2>2. ~OnIt(d)' BY <1>3 DEF OnIt
  <2>3. made'[d].msg = m /\ (made'[d].new => d \notin present') BY <1>3, <1>4, <1>5
  <2> QED BY <1>6, <2>1, <2>2, <2>3 DEF Filled
<1>10. OnePacket'
  <2>1. d \in DOMAIN made' /\ ~made'[d].said BY <1>4, <1>5
  <2> QED BY <1>8, <1>9, <2>1 DEF OnePacket
<1>11. ASSUME NEW x \in DOMAIN made'
       PROVE Copied(made'[x].msg) >= 0 /\ (made'[x].said => Complete(x)')
  <2>1. CASE x = d BY <1>3, <1>4, <1>5, <2>1
  <2>2. CASE x # d
    <3>1. x \in DOMAIN made /\ made'[x] = made[x] BY <1>4, <2>2
    <3>2. Undisturbed(x) BY <1>3, <3>1 DEF Undisturbed, OnIt
    <3>3. Copied(made[x].msg) >= 0 BY <3>1 DEF FillInv
    <3>4. ASSUME made[x].said PROVE Complete(x)'
      <4>1. PICK n : n = Len(Fill(x, made[x].msg)) OBVIOUS
      <4>2. n \in Nat BY <4>1, FillShape DEF FillForm
      <4>3. Filled(x, n) BY <3>1, <3>4, <4>1 DEF FillInv, Complete
      <4>4. Filled(x, n)' BY <3>1, <3>2, <4>2, <4>3, FilledKept
      <4> QED BY <3>1, <4>1, <4>4, CompleteNow
    <3> QED BY <3>1, <3>3, <3>4
  <2> QED BY <2>1, <2>2
<1> QED BY <1>10, <1>11 DEF FillInv

\* Every step fills directories in order, and leaves complete what is said.
LEMMA FillInvStep ==
    ASSUME FInv, StepsInv, DirsInv, BoundsInv, FillInv, Next
    PROVE FillInv'
<1>1. CASE UNCHANGED <<val, sized, pending, present, made, task>>
  <2>1. DOMAIN made' = DOMAIN made /\ task' = task BY <1>1
  <2>2. \A d \in DOMAIN made : Undisturbed(d) /\ made'[d].said = made[d].said
    BY <1>1 DEF Undisturbed, OnIt
  <2> QED BY <2>1, <2>2, FillKept
<1>2. ASSUME NEW s,
             DoMkdir(s) \/ DoWrite(s) \/ DoIndex(s) \/ DoData(s) \/ DoSignal(s) \/ DoThrow(s)
      PROVE FillInv'
  <2>1. CASE NoPacket(task) BY <1>2, <2>1, NoPacketStep
  <2>2. CASE OnePacket BY <1>2, <2>2, PacketStep
  <2> QED BY <2>1, <2>2 DEF FillInv
<1>3. ASSUME NoPacket(task'), UNCHANGED <<val, sized, pending, present, made>> PROVE FillInv'
  <2>1. DOMAIN made' = DOMAIN made BY <1>3
  <2>2. ASSUME NEW d \in DOMAIN made
        PROVE Copied(made'[d].msg) >= 0 /\ (made'[d].said => Complete(d)')
    <3>1. Undisturbed(d) BY <1>3 DEF Undisturbed, OnIt
    <3> QED BY <1>3, <3>1, SaidKept
  <2> QED BY <1>3, <2>1, <2>2 DEF FillInv
<1>4. ASSUME NEW r \in Replies, HandleFeatures(r) PROVE FillInv'
  <2>1. task' = SetUp(r) /\ UNCHANGED <<val, sized, pending, present, made>>
    BY <1>4 DEF HandleFeatures, fileVars
  <2>2. NoPacket(task')
    <3>1. SetsUp(task', SwitchDir \notin present) BY <2>1, SetUpShape
    <3>2. CASE SetupSteps(task', {SwitchDir} \cup PortDirs) BY <3>2, SetupNoPacket
    <3>3. ASSUME NEW S, SetupSteps(S, {SwitchDir}),
                 IsConcat(task', S, <<Throw(SwitchDir \notin present)>>)
          PROVE NoPacket(task')
      <4> DEFINE t == Throw(SwitchDir \notin present)
      <4>1. SetupSteps(S, {SwitchDir} \cup PortDirs) BY <3>3 DEF SetupSteps
      <4>2. NoPacket(S) BY <4>1, SetupNoPacket
      <4>3. Len(<<t>>) = 1 /\ <<t>>[1] = t BY OneAny
      <4>4. t.do = "throw" BY DEF Throw
      <4> HIDE DEF t
      <4>5. ASSUME NEW i \in 1 .. Len(task')
            PROVE  (i \in 1 .. Len(S) /\ task'[i] = S[i]) \/ task'[i] = t
        <5>1. CASE i \in 1 .. Len(S) BY <3>3, <5>1 DEF IsConcat
        <5>2. CASE i \notin 1 .. Len(S)
          <6>1. i = Len(S) + 1 /\ 1 \in 1 .. Len(<<t>>) BY <3>3, <4>3, <5>2 DEF IsConcat, t
          <6> QED BY <3>3, <4>3, <6>1 DEF IsConcat, t
        <5> QED BY <5>1, <5>2
      <4> QED BY <4>2, <4>4, <4>5 DEF NoPacket
    <3> QED BY <3>1, <3>2, <3>3 DEF SetsUp
  <2> QED BY <1>3, <2>1, <2>2
<1>5. ASSUME NEW r \in Configs, HandleConfig(r) PROVE FillInv'
  <2>1. /\ task' = WriteAll(SwitchDir, ConfigFiles, r)
        /\ UNCHANGED <<val, sized, pending, present, made>>
    BY <1>5 DEF HandleConfig, fileVars
  <2>2. Typed(SwitchDir, ConfigFiles, r) BY PacketAssumption
  <2>3. SetupSteps(task', {SwitchDir} \cup PortDirs) BY <2>1, <2>2, NamesAny, SetupWrites
  <2>4. NoPacket(task') BY <2>3, SetupNoPacket
  <2> QED BY <1>3, <2>1, <2>4
<1>6. ASSUME NEW m, HandlePacketDies(m) PROVE FillInv'
  <2>1. UNCHANGED <<val, sized, pending, present, made, task>>
    BY <1>6 DEF HandlePacketDies, fileVars
  <2> QED BY <1>1, <2>1
<1>7. CASE AdapterStep
  BY <1>2, <1>4, <1>5, <1>6, <1>7, PacketComes DEF AdapterStep
<1>8. CASE GoOn
  <2>1. UNCHANGED <<present, made, task>> BY <1>8 DEF GoOn
  <2>2. \A d \in DOMAIN made : \A k \in Nat : Filled(d, k) => Filled(d, k)'
    BY <1>8, FillGoesOn DEF FillInv
  <2>3. \A d \in DOMAIN made : Complete(d) => Complete(d)'
    <3> SUFFICES ASSUME NEW d \in DOMAIN made, Complete(d) PROVE Complete(d)' OBVIOUS
    <3>1. PICK n : n = Len(Fill(d, made[d].msg)) OBVIOUS
    <3>2. n \in Nat BY <3>1, FillShape DEF FillForm
    <3>3. Filled(d, n)' BY <2>2, <3>1, <3>2 DEF Complete
    <3> QED BY <2>1, <3>1, <3>3, CompleteNow
  <2>4. OnePacket => OnePacket'
    <3> SUFFICES ASSUME OnePacket PROVE OnePacket' OBVIOUS
    <3>1. PICK d \in DOMAIN made : \E k \in Nat : Filling(d, k) /\ Filled(d, k) /\ ~made[d].said
      BY DEF OnePacket
    <3>2. PICK k \in Nat : Filling(d, k) /\ Filled(d, k) /\ ~made[d].said BY <3>1
    <3>3. Filling(d, k)' BY <2>1, <3>2 DEF Filling
    <3> QED BY <2>1, <2>2, <3>2, <3>3 DEF OnePacket
  <2> QED BY <2>1, <2>3, <2>4 DEF FillInv
<1>9. CASE Restart
  <2>1. /\ task' = << >> /\ pending' = NoWrite /\ UNCHANGED <<val, sized, present, made>>
    BY <1>9 DEF Restart
  <2>2. NoPacket(task)'
    <3>1. 1 .. Len(task') = {} BY <2>1
    <3> QED BY <3>1, Zenon DEF NoPacket
  <2>3. ASSUME NEW d \in DOMAIN made
        PROVE Copied(made'[d].msg) >= 0 /\ (made'[d].said => Complete(d)')
    <3>1. ASSUME made[d].said, ~made[d].touched PROVE ~OnIt(d)
      <4>1. PICK n : n = Len(Fill(d, made[d].msg)) OBVIOUS
      <4>2. Filled(d, n) BY <3>1, <4>1 DEF FillInv, Complete
      <4>3. n \in Nat BY <4>1, FillShape DEF FillForm
      <4>4. OnIt(d) => n = n - 1 BY <3>1, <4>1, <4>2 DEF Filled
      <4> QED BY <4>3, <4>4
    <3>2. made[d].said => Undisturbed(d) BY <2>1, <3>1 DEF Undisturbed, OnIt
    <3> QED BY <2>1, <3>2, SaidKept
  <2> QED BY <2>1, <2>2, <2>3 DEF FillInv
<1>10. CASE AppTakes \/ AppReads \/ AppReturns
  <2>1. UNCHANGED <<val, sized, pending, present, made, task>>
    BY <1>10 DEF AppTakes, AppReads, AppReturns, AppKeeps, fileVars
  <2> QED BY <1>1, <2>1
<1>11. ASSUME NEW f \in Files, OthersWrite(f) PROVE FillInv'
  <2>1. PICK t : Write(f, t) BY <1>11 DEF OthersWrite
  <2>2. UNCHANGED <<task, present>> /\ Touch(f[1]) BY <1>11 DEF OthersWrite, OthersKeep
  <2>3. /\ pending = NoWrite
        /\ \A g \in Files : g # f => val'[g] = val[g] /\ sized'[g] = sized[g]
        /\ pending' # NoWrite => pending'.file = f
    BY <2>1, WriteOfOne
  <2>4. DOMAIN made' = DOMAIN made BY <2>2, MadeKept
  <2>5. ASSUME NEW d \in DOMAIN made PROVE Undisturbed(d) /\ made'[d].said = made[d].said
    <3>1. /\ made'[d].msg = made[d].msg /\ made'[d].new = made[d].new
          /\ made[d].touched => made'[d].touched
          /\ made'[d].said = made[d].said
          /\ d = f[1] => made'[d].touched
      BY <2>2, MadeKept
    <3>2. CASE d = f[1] BY <3>1, <3>2 DEF Undisturbed
    <3>3. CASE d # f[1]
      <4>1. \A g \in FilesOf({d}) : g \in Files /\ g # f BY <3>3 DEF FilesOf
      <4>2. ~OnIt(d) /\ ~OnIt(d)' BY <2>3, <3>3 DEF OnIt
      <4> QED BY <2>2, <2>3, <3>1, <4>1, <4>2 DEF Undisturbed
    <3> QED BY <3>2, <3>3
  <2> QED BY <2>2, <2>4, <2>5, FillKept
<1>12. ASSUME NEW d \in present, OthersRemove(d) PROVE FillInv'
  <2>1. /\ UNCHANGED <<val, sized, pending, task>> /\ Touch(d) /\ present' = present \ {d}
    BY <1>12 DEF OthersRemove, OthersKeep, fileVars
  <2>2. DOMAIN made' = DOMAIN made BY <2>1, MadeKept
  <2>3. ASSUME NEW e \in DOMAIN made PROVE Undisturbed(e) /\ made'[e].said = made[e].said
    <3>1. /\ made'[e].msg = made[e].msg /\ made'[e].new = made[e].new
          /\ made[e].touched => made'[e].touched
          /\ made'[e].said = made[e].said
          /\ e = d => made'[e].touched
      BY <2>1, MadeKept
    <3> QED BY <2>1, <3>1 DEF Undisturbed, OnIt
  <2> QED BY <2>1, <2>2, <2>3, FillKept
<1> QED BY <1>7, <1>8, <1>9, <1>10, <1>11, <1>12 DEF Next

-----------------------------------------------------------------------------
(* Counters *)

\* What is known of a directory whose counter is not behind it.
LEMMA CountedNow ==
    ASSUME NEW x, NEW q, q = made'[x].msg.in_port,
           made'[x].life <= starts', made'[x].nth < nsent',
           made'[x].life = starts' =>
              /\ DOMAIN ports_by_no' # {}
              /\ q \in DOMAIN counter' /\ x[3] \in Int /\ x[3] <= counter'[q]
    PROVE Counted(x)'
BY DEF Counted

\* Every step keeps the counters ahead of the directories.
LEMMA CountStep ==
    ASSUME StepsInv, DirsInv, BoundsInv, CountInv, Next
    PROVE CountInv'
<1> DEFINE Same == /\ DOMAIN made' = DOMAIN made
                   /\ \A d \in DOMAIN made :
                         /\ made'[d].msg = made[d].msg /\ made'[d].nth = made[d].nth
                         /\ made'[d].life = made[d].life
<1>1. CASE Same /\ UNCHANGED <<counter, ports_by_no, reply, starts>> /\ nsent' \in {nsent, nsent + 1}
  BY <1>1 DEF CountInv, Counted, BoundsInv, DirsInv, Made
<1>2. CASE Same /\ DOMAIN ports_by_no = {} /\ UNCHANGED <<counter, starts>>
           /\ nsent' \in {nsent, nsent + 1}
  BY <1>2 DEF CountInv, Counted, BoundsInv, DirsInv, Made
<1>3. ASSUME NEW s, DoMkdir(s) \/ DoWrite(s) \/ DoData(s) PROVE CountInv'
  <2>1. Same /\ UNCHANGED <<counter, ports_by_no, reply, starts, nsent>>
    BY <1>3 DEF DoMkdir, DoWrite, DoData
  <2> QED BY <1>1, <2>1
<1>4. ASSUME NEW s, DoIndex(s) PROVE CountInv'
  <2>1. /\ UNCHANGED <<counter, reply, starts, nsent, made>>
        /\ ports_by_no' = Put(ports_by_no, ReadNumber(<<s.dir, "port_no">>), s.dir)
    BY <1>4 DEF DoIndex
  <2>2. DOMAIN ports_by_no' # {} BY <2>1 DEF Put
  <2> QED BY <2>1, <2>2 DEF CountInv, Counted
<1>5. ASSUME NEW s, DoSignal(s) PROVE CountInv'
  <2>1. /\ made' = IF s.dir \in DOMAIN made THEN [made EXCEPT ![s.dir].said = TRUE] ELSE made
        /\ UNCHANGED <<counter, ports_by_no, reply, starts, nsent>>
    BY <1>5 DEF DoSignal
  <2>2. Same BY <2>1, MadeKept
  <2> QED BY <1>1, <2>1, <2>2
<1>6. ASSUME NEW s, DoThrow(s) PROVE CountInv'
  <2>1. Goes(s) /\ s.do = "throw" /\ Same /\ UNCHANGED <<counter, starts, nsent>>
    BY <1>6 DEF DoThrow
  <2>2. s = task[1] /\ 1 \in 1 .. Len(task) BY <2>1, GoesOn
  <2>3. task[1].do = "throw" => DOMAIN ports_by_no = {} BY <2>2 DEF StepsInv
  <2> QED BY <1>2, <2>1, <2>2, <2>3
<1>7. ASSUME NEW r, HandleFeatures(r) PROVE CountInv'
  <2>1. Same /\ reply = NoReply /\ UNCHANGED <<counter, starts>> /\ nsent' = nsent + 1
    BY <1>7 DEF HandleFeatures, Receives
  <2>2. DOMAIN ports_by_no = {} BY <2>1 DEF DirsInv
  <2> QED BY <1>2, <2>1, <2>2
<1>8. ASSUME NEW r, HandleConfig(r) PROVE CountInv'
  <2>1. Same /\ UNCHANGED <<counter, ports_by_no, reply, starts>> /\ nsent' = nsent + 1
    BY <1>8 DEF HandleConfig, Receives
  <2> QED BY <1>1, <2>1
<1>9. ASSUME NEW m, HandlePacketDies(m) PROVE CountInv'
  <2>1. Same /\ UNCHANGED <<counter, ports_by_no, reply, starts>> /\ nsent' = nsent + 1
    BY <1>9 DEF HandlePacketDies, Receives
  <2> QED BY <1>1, <2>1
<1>10. ASSUME NEW m \in Packets, HandlePacketIn(m) PROVE CountInv'
  <2>1. PICK d : d = <<"packet_in", PortName(m.in_port), counter'[m.in_port]>> OBVIOUS
  <2>2. PICK e : e = [msg |-> m, nth |-> nsent, life |-> starts,
                      new |-> d \notin present,
                      said |-> FALSE, touched |-> FALSE]
    OBVIOUS
  <2>3. PICK p : p = m.in_port OBVIOUS
  <2>4. PICK n : n = Get(counter, p, 0) OBVIOUS
  <2>5. /\ made' = Put(made, d, e) /\ p \in DOMAIN ports_by_no
        /\ counter' = Put(counter, p, n + 1)
        /\ UNCHANGED <<ports_by_no, reply, starts>> /\ nsent' = nsent + 1
    BY <1>10, <2>1, <2>2, <2>3, <2>4 DEF HandlePacketIn, Receives, Count
  <2>6. n \in Nat /\ (p \in DOMAIN counter => n = counter[p]) /\ nsent \in Nat /\ starts \in Nat
    BY <2>4 DEF Get, BoundsInv
  <2>7. /\ DOMAIN made' = DOMAIN made \cup {d} /\ made'[d] = e
        /\ \A x \in DOMAIN made : x # d => made'[x] = made[x]
    BY <2>5 DEF Put
  <2>8. /\ DOMAIN counter' = DOMAIN counter \cup {p} /\ counter'[p] = n + 1
        /\ \A q \in DOMAIN counter : q # p => counter'[q] = counter[q]
    BY <2>5 DEF Put
  <2>9. \A q \in DOMAIN counter : counter[q] \in Nat /\ counter[q] <= counter'[q]
    BY <2>6, <2>8 DEF BoundsInv
  <2>10. /\ e.life = starts /\ e.nth = nsent /\ e.msg.in_port = p
         /\ d[3] = n + 1
    BY <2>1, <2>2, <2>3, <2>8
  <2>11. ASSUME NEW x \in DOMAIN made' PROVE Counted(x)'
    <3>1. CASE x = d
      <4>1. /\ p = made'[x].msg.in_port /\ made'[x].life = starts' /\ made'[x].nth = nsent
            /\ x[3] = n + 1
        BY <2>5, <2>7, <2>10, <3>1
      <4>2. /\ made'[x].life <= starts' /\ made'[x].nth < nsent' /\ DOMAIN ports_by_no' # {}
            /\ p \in DOMAIN counter' /\ x[3] \in Int /\ x[3] <= counter'[p]
        BY <2>5, <2>6, <2>8, <4>1
      <4> QED BY <4>1, <4>2, CountedNow
    <3>2. CASE x # d
      <4>1. x \in DOMAIN made /\ made'[x] = made[x] /\ made[x].nth \in Nat
        BY <2>7, <3>2 DEF DirsInv, Made
      <4>2. PICK q : q = made[x].msg.in_port OBVIOUS
      <4>3. made[x].life <= starts /\ made[x].nth < nsent BY <4>1 DEF CountInv, Counted
      <4>4. made[x].life = starts =>
               q \in DOMAIN counter /\ x[3] \in Int /\ x[3] <= counter[q]
        BY <4>1, <4>2 DEF CountInv, Counted
      <4>5. ASSUME made[x].life = starts
            PROVE  /\ DOMAIN ports_by_no' # {}
                   /\ q \in DOMAIN counter' /\ x[3] \in Int /\ x[3] <= counter'[q]
        <5>1. counter[q] \in Nat /\ counter[q] <= counter'[q] /\ counter'[q] \in Int
          BY <2>6, <2>8, <2>9, <4>4, <4>5
        <5>2. x[3] <= counter'[q] BY <4>4, <4>5, <5>1
        <5> QED BY <2>5, <2>8, <4>4, <4>5, <5>2
      <4>6. made[x].nth < nsent' BY <2>5, <2>6, <4>1, <4>3
      <4>7. UNCHANGED starts BY <2>5
      <4> QED BY <4>1, <4>2, <4>3, <4>5, <4>6, <4>7, CountedNow
    <3> QED BY <3>1, <3>2
  <2> QED BY <2>11 DEF CountInv
<1>11. CASE AdapterStep
  BY <1>3, <1>4, <1>5, <1>6, <1>7, <1>8, <1>9, <1>10, <1>11 DEF AdapterStep
<1>12. CASE GoOn
  <2>1. Same /\ UNCHANGED <<counter, ports_by_no, reply, starts, nsent>> BY <1>12 DEF GoOn
  <2> QED BY <1>1, <2>1
<1>13. CASE Restart
  <2>1. starts' = starts + 1 /\ Same /\ nsent' = nsent BY <1>13 DEF Restart
  <2>2. starts \in Nat /\ \A d \in DOMAIN made : made[d].life \in Nat
    BY DEF BoundsInv, DirsInv, Made
  <2>3. \A d \in DOMAIN made : made[d].life <= starts /\ made[d].nth < nsent BY DEF CountInv, Counted
  <2>4. \A d \in DOMAIN made : made[d].life <= starts' /\ made[d].life # starts'
    BY <2>1, <2>2, <2>3
  <2> QED BY <2>1, <2>3, <2>4 DEF CountInv, Counted
<1>14. CASE AppTakes \/ AppReads \/ AppReturns
  <2>1. Same /\ UNCHANGED <<counter, ports_by_no, reply, starts, nsent>>
    BY <1>14 DEF AppTakes, AppReads, AppReturns, AppKeeps
  <2> QED BY <1>1, <2>1
<1>15. ASSUME NEW d, Touch(d), OthersKeep PROVE CountInv'
  <2>1. UNCHANGED <<counter, ports_by_no, reply, starts, nsent>> BY <1>15 DEF OthersKeep
  <2>2. Same BY <1>15, MadeKept
  <2> QED BY <1>1, <2>1, <2>2
<1>16. ASSUME NEW f, OthersWrite(f) PROVE CountInv' BY <1>15, <1>16 DEF OthersWrite
<1>17. ASSUME NEW d, OthersRemove(d) PROVE CountInv' BY <1>15, <1>17 DEF OthersRemove
<1> QED BY <1>11, <1>12, <1>13, <1>14, <1>16, <1>17 DEF Next

-----------------------------------------------------------------------------
(* Names of ports *)

\* The steps that are left after the first of them.
LEMMA StepAt ==
    ASSUME StepsInv, NEW s, Goes(s)
    PROVE /\ s = task[1] /\ 1 \in 1 .. Len(task) /\ Len(task) \in Nat
          /\ Len(task') = Len(task) - 1
          /\ \A i \in 1 .. Len(task') : task'[i] = task[i + 1] /\ i + 1 \in 1 .. Len(task)
BY GoesOn

\* A request of a name: it is not longer than the text, and when the last of
\* it was taken as it is, the file says the text.
LEMMA NameGoesOn ==
    ASSUME FInv, FInv', WriteRest, NEW f \in Of({"str"}), pending.file = f,
           Len(val[f]) <= Len(pending.text)
    PROVE /\ pending' # NoWrite =>
                /\ pending'.file = f /\ pending'.text = pending.text
                /\ Len(val'[f]) <= Len(pending.text)
          /\ pending' = NoWrite /\ asked'[f] # Unsure => val'[f] = pending.text
          /\ \A g \in Files : g # f => val'[g] = val[g]
<1> DEFINE t == pending.text
           o == pending.at
           r == SubSeq(t, o + 1, Len(t))
<1>1. pending # NoWrite BY DEF WriteRest
<1>2. /\ f \in Of(Strings) /\ f \in Files /\ t \in Seq(Chars) /\ o \in 0 .. Len(t) - 1
      /\ val[f] \in Seq(Chars)
  BY <1>1, TypesApart DEF FInv, FilesTypeOK, Of, Strings
<1>3. r \in Seq(Chars) /\ Len(r) = Len(t) - o BY <1>2, RestLemma
<1> DEFINE Result(s) ==
             /\ val' = [val EXCEPT ![f] = Overlay(@, s, o)]
             /\ pending' = IF s = << >> \/ o + Len(s) = Len(t) THEN NoWrite
                           ELSE [pending EXCEPT !.at = o + Len(s)]
             /\ Promise(f, IF o + Len(s) = Len(t) /\ Plain(f, t) THEN t ELSE Unsure)
<1>4. PICK b \in BOOLEAN : \E s \in Taken(f, r, b) : Result(s) BY DEF WriteRest
<1>5. PICK s \in Taken(f, r, b) : Result(s) BY <1>4
<1>6. s \in Seq(Chars) /\ Len(s) <= Len(r) BY <1>2, <1>3, <1>5, TakenType
<1> DEFINE v == Overlay(val[f], s, o)
<1>7. val'[f] = v /\ \A g \in Files : g # f => val'[g] = val[g]
  BY <1>2, <1>5 DEF FInv, FilesTypeOK
<1>8. asked'[f] # Unsure => asked'[f] = t
  BY <1>2, <1>5 DEF FInv, FilesTypeOK, Promise
<1>9. pending' # NoWrite => pending' = [pending EXCEPT !.at = o + Len(s)] BY <1>5
<1> HIDE DEF Result, r
<1>10. Len(v) <= Len(t)
  <2>1. Len(v) = IF o + Len(s) > Len(val[f]) THEN o + Len(s) ELSE Len(val[f])
    <3>1. Len(s) \in Nat /\ Len(val[f]) \in Nat /\ o \in Nat BY <1>2, <1>6
    <3> QED BY <3>1 DEF Overlay
  <2>2. Len(t) \in Nat /\ Len(s) \in Nat /\ o \in Nat BY <1>2, <1>6
  <2> HIDE DEF v, t, o
  <2> QED BY <1>3, <1>6, <2>1, <2>2 DEF t
<1>11. ASSUME asked'[f] # Unsure PROVE v = t
  <2>1. Says(f, v, t)
    <3>1. Says(f, val'[f], asked'[f]) BY <1>2, <1>11 DEF FInv, PromisesHold
    <3> QED BY <1>7, <1>8, <1>11, <3>1
  <2>2. v \in Seq(Chars)
    <3>1. f \notin Of(Ints) /\ f \notin Of(Addrs) BY <1>2, TypesApart
    <3>2. val'[f] \in Seq(Chars) BY <1>2, <3>1 DEF FInv, FilesTypeOK
    <3> QED BY <1>7, <3>2
  <2> HIDE DEF v, t
  <2>3. Len(t) <= Len(v) /\ SubSeq(v, 1, Len(t)) = t BY <1>2, <2>1 DEF Says
  <2>4. Len(t) = Len(v) BY <1>2, <1>10, <2>2, <2>3
  <2>5. SubSeq(v, 1, Len(v)) = v BY <2>2
  <2> QED BY <2>3, <2>4, <2>5
<1>12. pending' # NoWrite => pending'.file = f /\ pending'.text = t
  <2>1. pending' = NoWrite \/ (pending'.file = pending.file /\ pending'.text = pending.text)
    BY DEF WriteRest
  <2> QED BY <2>1
<1> QED BY <1>7, <1>10, <1>11, <1>12

\* What the file of one port's name says, step by step: nothing, its name, or
\* what was taken of it so far.
LEMMA NameStep ==
    ASSUME FInv, FInv', StepsInv, WritesNames(task), Next, ~mislabelled', NEW r \in Replies,
           NEW i \in DOMAIN r.ports, NEW d, d = PortDir(r.ports[i]), SaysName(d)
    PROVE SaysName(d)' /\ (Labelled(d) /\ d \in present' => Labelled(d)')
<1> DEFINE f == NameOf(d)
<1>1. /\ d \in PortDirs /\ d = <<"ports", d[2], 0>> /\ f \in Files /\ f \in Of({"str"})
      /\ f \in Of(Strings) /\ f[1] = d /\ f[2] = "name" /\ Label(f)
  BY PortNames DEF NameOf, Label
<1> HIDE DEF f
<1>2. CASE val'[f] = val[f] /\ UNCHANGED pending
  BY <1>2 DEF SaysName, Labelled, Naming, f
<1>3. CASE val'[f] = val[f] /\ ~Naming(d) /\ ~Naming(d)'
  BY <1>3 DEF SaysName, Labelled, f
<1>4. ASSUME NEW s, DoMkdir(s) PROVE SaysName(d)' /\ (Labelled(d) => Labelled(d)')
  <2>1. /\ pending = NoWrite /\ present' = present \cup {s.dir}
        /\ IF s.dir \in present THEN UNCHANGED fileVars ELSE MakeFiles(FilesOf({s.dir}))
    BY <1>4 DEF DoMkdir, Goes
  <2>2. CASE s.dir \in present
    <3>1. d \in present => d \in present' BY <2>1
    <3> QED BY <1>2, <2>1, <2>2, <3>1 DEF fileVars, Labelled
  <2>3. CASE s.dir \notin present
    <3>1. UNCHANGED pending
          /\ val'[f] = IF f \in FilesOf({s.dir}) THEN NewVal(f) ELSE val[f]
      BY <1>1, <2>1, <2>3 DEF MakeFiles
    <3>2. NewVal(f) = << >> BY <1>1, TypesApart DEF NewVal
    <3>3. CASE s.dir = d
      <4>1. val'[f] = << >> BY <1>1, <3>1, <3>2, <3>3 DEF FilesOf
      <4>2. ~Naming(d)' BY <2>1, <3>1 DEF Naming
      <4>3. ~Labelled(d) BY <2>3, <3>3 DEF Labelled
      <4> QED BY <4>1, <4>2, <4>3 DEF SaysName, f
    <3>4. CASE s.dir # d
      <4>1. val'[f] = val[f] BY <1>1, <3>1, <3>4 DEF FilesOf
      <4>2. SaysName(d)' BY <1>2, <3>1, <4>1
      <4>3. ~Naming(d) BY <2>1 DEF Naming
      <4> QED BY <2>1, <3>1, <4>1, <4>2, <4>3 DEF Labelled, f
    <3> QED BY <3>3, <3>4
  <2> QED BY <2>2, <2>3
<1>5. ASSUME NEW s, DoWrite(s) PROVE SaysName(d)' /\ (Labelled(d) => Labelled(d)')
  <2>1. Goes(s) /\ s.do = "write" /\ WriteFile(s.file, s.value) /\ UNCHANGED present
    BY <1>5 DEF DoWrite
  <2>2. pending = NoWrite /\ s = task[1] /\ 1 \in 1 .. Len(task) BY <2>1, StepAt DEF Goes
  <2>3. ~Naming(d) BY <2>2 DEF Naming
  <2>4. CASE s.file # f
    <3>1. val'[f] = val[f] /\ (pending' # NoWrite => pending'.file = s.file)
      BY <1>1, <2>1, <2>2, <2>4, WriteFileOfOne
    <3>2. ~Naming(d)' BY <2>4, <3>1 DEF Naming, f
    <3> QED BY <1>3, <2>1, <2>3, <3>1, <3>2 DEF Labelled
  <2>5. CASE s.file = f
    <3>1. s.value \in {<< >>, d[2]}
      BY <1>1, <2>1, <2>2, <2>5 DEF WritesNames, f
    <3>2. CASE UNCHANGED fileVars BY <1>2, <2>1, <3>2 DEF fileVars, Labelled
    <3>3. CASE s.value # << >> /\ Write(f, s.value)
      <4>1. s.value = d[2] /\ val[f] \in {<< >>, d[2]}
        BY <2>3, <3>1, <3>3 DEF SaysName, f
      <4>2. BeginString(f, s.value) BY <1>1, <3>3, TypesApart
          DEF Write, SetNumber, SetAddress, SetMacNumber, Refuse, Of, Addrs, Ints
      <4>3. pending' = [file |-> f, text |-> d[2], at |-> 0] /\ val' = val
        BY <4>1, <4>2 DEF BeginString
      <4>4. pending' # NoWrite /\ pending'.text = d[2] /\ pending'.file = f
        <5>1. d[2] \in Seq(Chars)
          <6>1. IsValue(s.file, s.value) BY <2>1, <2>2 DEF StepsInv
          <6> QED BY <1>1, <2>5, <4>1, <6>1, TypesApart DEF IsValue
        <5>2. pending' \in [file : Files, text : Seq(Chars), at : Nat] BY <1>1, <4>3, <5>1
        <5> QED BY <4>3, <5>2, FilesAssumption
      <4>5. Len(val'[f]) <= Len(d[2])
        <5>1. d[2] \in Seq(Chars)
          <6>1. IsValue(s.file, s.value) BY <2>1, <2>2 DEF StepsInv
          <6> QED BY <1>1, <2>5, <4>1, <6>1, TypesApart DEF IsValue
        <5>2. Len(<< >>) = 0 /\ Len(d[2]) \in Nat BY <5>1
        <5>3. CASE val[f] = << >> BY <4>3, <5>2, <5>3
        <5>4. CASE val[f] = d[2] BY <4>3, <5>2, <5>4
        <5> QED BY <4>1, <5>3, <5>4
      <4> QED BY <2>1, <4>4, <4>5 DEF SaysName, Labelled, Naming, f
    <3> QED BY <1>1, <2>1, <2>5, <3>2, <3>3 DEF WriteFile
  <2> QED BY <2>4, <2>5
<1>6. ASSUME NEW s, DoData(s) PROVE SaysName(d)' /\ (Labelled(d) => Labelled(d)')
  <2>1. Goes(s) /\ UNCHANGED present /\ pending = NoWrite
        /\ \/ UNCHANGED fileVars
           \/ WriteFile(<<s.dir, "data">>, FromMemory(s.msg, ReadNumber(<<s.dir, "total_len">>)))
    BY <1>6 DEF DoData, Goes
  <2>2. <<s.dir, "data">> # f BY DEF f, NameOf
  <2>3. CASE UNCHANGED fileVars BY <1>2, <2>1, <2>3 DEF fileVars, Labelled
  <2>4. CASE WriteFile(<<s.dir, "data">>, FromMemory(s.msg, ReadNumber(<<s.dir, "total_len">>)))
    <3>1. val'[f] = val[f] /\ (pending' # NoWrite => pending'.file = <<s.dir, "data">>)
      BY <1>1, <2>1, <2>2, <2>4, WriteFileOfOne
    <3>2. ~Naming(d)' /\ ~Naming(d) BY <2>1, <2>2, <3>1 DEF Naming, f
    <3> QED BY <1>3, <2>1, <3>1, <3>2 DEF Labelled
  <2> QED BY <2>1, <2>3, <2>4
<1>7. ASSUME NEW s, DoIndex(s) \/ DoSignal(s) \/ DoThrow(s) PROVE UNCHANGED fileVars
  BY <1>7 DEF DoIndex, DoSignal, DoThrow
<1>8. CASE UNCHANGED fileVars BY <1>2, <1>8 DEF fileVars, Labelled
<1>9. ASSUME NEW g, OthersWrite(g) PROVE SaysName(d)' /\ (Labelled(d) => Labelled(d)')
  <2>1. PICK t \in Texts[g] : Write(g, t) BY <1>9 DEF OthersWrite
  <2>2. g # f /\ UNCHANGED present BY <1>1, <1>9 DEF OthersWrite
  <2>3. CASE g \in Files
    <3>1. /\ pending = NoWrite /\ val'[f] = val[f]
          /\ pending' # NoWrite => pending'.file = g
      BY <1>1, <2>1, <2>2, <2>3, WriteOfOne
    <3>2. ~Naming(d) /\ ~Naming(d)' BY <2>2, <3>1 DEF Naming, f
    <3> QED BY <1>3, <2>2, <3>1, <3>2 DEF Labelled
  <2>4. CASE g \notin Files
    <3>1. FALSE BY <2>1, <2>4, FilesAssumption
        DEF Write, SetNumber, SetAddress, SetMacNumber, Refuse, BeginString, Of
    <3> QED BY <3>1
  <2> QED BY <2>3, <2>4
<1>10. CASE GoOn
  <2>1. WriteRest /\ pending # NoWrite /\ UNCHANGED present
        /\ ~(Label(pending.file) /\ pending' = NoWrite /\ asked'[pending.file] = Unsure)
    BY <1>10 DEF GoOn, WriteRest
  <2>2. CASE pending.file = f
    <3>1. pending.text = d[2] /\ Len(val[f]) <= Len(pending.text)
      BY <2>1, <2>2 DEF SaysName, Naming, f
    <3>2. /\ pending' # NoWrite =>
                /\ pending'.file = f /\ pending'.text = pending.text
                /\ Len(val'[f]) <= Len(pending.text)
          /\ pending' = NoWrite /\ asked'[f] # Unsure => val'[f] = pending.text
      BY <1>1, <2>1, <2>2, <3>1, NameGoesOn
    <3>3. pending' = NoWrite => val'[f] = d[2] BY <1>1, <2>1, <2>2, <3>1, <3>2
    <3> QED BY <2>1, <3>1, <3>2, <3>3 DEF SaysName, Labelled, Naming, f
  <2>3. CASE pending.file # f
    <3>1. val'[f] = val[f]
      BY <1>1, <2>1, <2>3 DEF WriteRest, FInv, FilesTypeOK
    <3>2. pending' # NoWrite => pending'.file = pending.file
      BY <2>1 DEF WriteRest
    <3>3. ~Naming(d) /\ ~Naming(d)' BY <2>3, <3>2 DEF Naming, f
    <3> QED BY <1>3, <2>1, <3>1, <3>3 DEF Labelled
  <2> QED BY <2>2, <2>3
<1>11. CASE Restart
  <2>1. /\ pending' = NoWrite /\ UNCHANGED <<val, present>>
        /\ ~(pending # NoWrite /\ Label(pending.file))
    BY <1>11 DEF Restart
  <2>2. ~Naming(d) /\ ~Naming(d)' BY <1>1, <2>1 DEF Naming, f
  <2> QED BY <1>3, <2>1, <2>2 DEF Labelled
<1>12. CASE AdapterStep
  <2>1. ASSUME NEW q, HandleFeatures(q) \/ HandleConfig(q) PROVE UNCHANGED fileVars
    BY <2>1 DEF HandleFeatures, HandleConfig
  <2>2. ASSUME NEW m, HandlePacketIn(m) \/ HandlePacketDies(m) PROVE UNCHANGED fileVars
    BY <2>2 DEF HandlePacketIn, HandlePacketDies
  <2> QED BY <1>4, <1>5, <1>6, <1>7, <1>8, <1>12, <2>1, <2>2 DEF AdapterStep
<1>13. CASE AppTakes \/ AppReads \/ AppReturns
  <2>1. UNCHANGED fileVars BY <1>13 DEF AppTakes, AppReads, AppReturns, AppKeeps
  <2> QED BY <1>8, <2>1
<1>14. ASSUME NEW e, OthersRemove(e) PROVE UNCHANGED fileVars BY <1>14 DEF OthersRemove
<1> QED BY <1>8, <1>9, <1>10, <1>11, <1>12, <1>13, <1>14 DEF Next

\* read_switch_config() writes no name.
LEMMA ConfigLabels ==
    ASSUME NEW r
    PROVE LabelSteps(WriteAll(SwitchDir, ConfigFiles, r), r, {})
<1>1. SwitchDir \notin PortDirs BY DEF SwitchDir, PortDirs, PortDir
<1>2. Sequence(ConfigFiles)
  <2>1. ConfigFiles \in Seq({"flags", "miss_send_len"}) BY DEF ConfigFiles
  <2> QED BY <2>1 DEF Sequence
<1> QED BY <1>1, <1>2, LabelWrites

\* Nor does OFPacketIn's constructor, and it indexes nothing.
LEMMA PacketLabels ==
    ASSUME NEW m \in Packets, HandlePacketIn(m)
    PROVE WritesNames(task') /\ \A k \in 1 .. Len(task') : task'[k].do # "index"
<1>1. PICK d : /\ d = <<"packet_in", PortName(m.in_port), counter'[m.in_port]>>
               /\ task' = Fill(d, m)
  BY DEF HandlePacketIn
<1>2. d[1] = "packet_in" BY <1>1
<1>3. ASSUME NEW k \in 1 .. Len(task')
      PROVE task'[k].do # "index" /\ (task'[k].do = "write" => task'[k].file[1] = d)
  BY <1>1, <1>2, <1>3, FillStep
<1>4. \A e \in PortDirs : e[1] = "ports" BY DEF PortDirs, PortDir
<1>5. ASSUME NEW k \in 1 .. Len(task'), NEW e \in PortDirs, task'[k].do = "write"
      PROVE task'[k].file # NameOf(e)
  BY <1>2, <1>3, <1>4, <1>5 DEF NameOf
<1> QED BY <1>3, <1>5 DEF WritesNames

\* The steps after the first write names as well.
LEMMA NamesStep ==
    ASSUME StepsInv, DirsInv, WritesNames(task), Next
    PROVE WritesNames(task)'
<1>1. CASE UNCHANGED task BY <1>1 DEF WritesNames
<1>2. ASSUME NEW s, Goes(s) PROVE WritesNames(task)'
  BY <1>2, StepAt DEF WritesNames
<1>3. ASSUME NEW s, DoMkdir(s) \/ DoWrite(s) \/ DoIndex(s) \/ DoData(s) \/ DoSignal(s) \/ DoThrow(s)
      PROVE WritesNames(task)'
  <2>1. Goes(s) BY <1>3 DEF DoMkdir, DoWrite, DoIndex, DoData, DoSignal, DoThrow
  <2> QED BY <1>2, <2>1
<1>4. ASSUME NEW r \in Replies, HandleFeatures(r) PROVE WritesNames(task)'
  BY <1>4, SetUpLabels DEF HandleFeatures, LabelSteps
<1>5. ASSUME NEW r \in Configs, HandleConfig(r) PROVE WritesNames(task)'
  BY <1>5, ConfigLabels DEF HandleConfig, LabelSteps
<1>6. ASSUME NEW m \in Packets, HandlePacketIn(m) PROVE WritesNames(task)'
  BY <1>6, PacketLabels
<1>7. ASSUME NEW m, HandlePacketDies(m) PROVE UNCHANGED task BY <1>7 DEF HandlePacketDies
<1>8. CASE AdapterStep BY <1>1, <1>3, <1>4, <1>5, <1>6, <1>7, <1>8 DEF AdapterStep
<1>9. CASE Restart BY <1>9, LabelNone DEF Restart, LabelSteps
<1>10. CASE GoOn \/ AppTakes \/ AppReads \/ AppReturns
  BY <1>1, <1>10 DEF GoOn, AppTakes, AppReads, AppReturns, AppKeeps
<1>11. ASSUME NEW e, OthersWrite(e) \/ OthersRemove(e) PROVE UNCHANGED task
  BY <1>11 DEF OthersWrite, OthersRemove, OthersKeep
<1> QED BY <1>1, <1>8, <1>9, <1>10, <1>11 DEF Next

\* What the files of ports say goes on being their names.
LEMMA LabelsKept ==
    ASSUME FInv, FInv', StepsInv, LabelInv, Next, ~mislabelled, ~mislabelled',
           NEW d \in PortDirs
    PROVE SaysName(d) /\ SaysName(d)' /\ (Labelled(d) /\ d \in present' => Labelled(d)')
<1>1. PICK r \in Replies : \E i \in DOMAIN r.ports : d = PortDir(r.ports[i]) BY DEF PortDirs
<1>2. PICK i \in DOMAIN r.ports : d = PortDir(r.ports[i]) BY <1>1
<1>3. SaysName(d) /\ WritesNames(task) BY DEF LabelInv
<1> QED BY <1>2, <1>3, NameStep

\* A port's directory is only taken away by the exception.
LEMMA PortDirStays ==
    ASSUME Next, \A s : ~DoThrow(s), NEW d \in PortDirs, d \in present
    PROVE d \in present'
<1>1. d[1] = "ports" BY DEF PortDirs, PortDir
<1>2. ASSUME NEW s, DoMkdir(s) PROVE d \in present' BY <1>2 DEF DoMkdir
<1>3. ASSUME NEW s, DoWrite(s) \/ DoIndex(s) \/ DoData(s) \/ DoSignal(s) PROVE UNCHANGED present
  BY <1>3 DEF DoWrite, DoIndex, DoData, DoSignal
<1>4. ASSUME NEW r, HandleFeatures(r) \/ HandleConfig(r) \/ HandlePacketIn(r)
                    \/ HandlePacketDies(r)
      PROVE UNCHANGED present
  BY <1>4 DEF HandleFeatures, HandleConfig, HandlePacketIn, HandlePacketDies
<1>5. CASE AdapterStep BY <1>2, <1>3, <1>4, <1>5 DEF AdapterStep
<1>6. CASE GoOn \/ Restart \/ AppTakes \/ AppReads \/ AppReturns
  BY <1>6 DEF GoOn, Restart, AppTakes, AppReads, AppReturns, AppKeeps
<1>7. ASSUME NEW f, OthersWrite(f) PROVE UNCHANGED present BY <1>7 DEF OthersWrite
<1>8. ASSUME NEW e, OthersRemove(e) PROVE d \in present' BY <1>1, <1>8 DEF OthersRemove
<1> QED BY <1>5, <1>6, <1>7, <1>8 DEF Next

\* The write of a name into the file of a port's directory that is there.
LEMMA NameWritten ==
    ASSUME FInv, NEW r \in Replies, NEW i \in DOMAIN r.ports, NEW s, DoWrite(s),
           r.ports[i].name # << >>, PortDir(r.ports[i]) \in present,
           s = WriteTo(PortDir(r.ports[i]), "name", r.ports[i].name)
    PROVE Labelled(PortDir(r.ports[i]))'
<1> DEFINE d == PortDir(r.ports[i])
           v == r.ports[i].name
           f == NameOf(d)
<1>1. f \in Files /\ f \in Of({"str"}) /\ f \in Of(Strings) /\ v \in Seq(Chars) /\ f[1] = d
  BY PortNames DEF NameOf
<1>2. s.file = f /\ s.value = v BY DEF WriteTo, NameOf
<1> HIDE DEF d, v, f
<1>3. Write(f, v) /\ UNCHANGED present BY <1>1, <1>2 DEF DoWrite, WriteFile, d, v
<1>4. BeginString(f, v)
  BY <1>1, <1>3, TypesApart
      DEF Write, SetNumber, SetAddress, SetMacNumber, Refuse, Of, Addrs, Ints
<1>5. pending' = [file |-> f, text |-> v, at |-> 0] BY <1>4 DEF BeginString
<1>6. pending' \in [file : Files, text : Seq(Chars), at : Nat] BY <1>1, <1>5
<1>7. pending' # NoWrite /\ pending'.file = f BY <1>5, <1>6, FilesAssumption
<1> QED BY <1>3, <1>7 DEF Labelled, Naming, f, d

\* What was to be written before a port is indexed is written, or still is to
\* be.
LEMMA ReadyGoesOn ==
    ASSUME StepsInv, NEW s, Goes(s), NEW p, NEW k \in 1 .. Len(task'),
           IndexReady(k + 1, p),
           Labelled(PortDir(p)) => Labelled(PortDir(p))',
           PortDir(p) \in present => PortDir(p) \in present',
           s = Mkdir(PortDir(p)) => PortDir(p) \in present',
           /\ p.name # << >> /\ PortDir(p) \in present
           /\ s = WriteTo(PortDir(p), "name", p.name)
           => Labelled(PortDir(p))'
    PROVE IndexReady(k, p)'
<1> DEFINE d == PortDir(p)
           w == WriteTo(d, "name", p.name)
<1>1. /\ s = task[1] /\ Len(task) \in Nat /\ Len(task') = Len(task) - 1
      /\ \A i \in 1 .. Len(task') : task'[i] = task[i + 1] /\ i + 1 \in 1 .. Len(task)
  BY StepAt
<1>2. task[k + 1].dir = d /\ task'[k].dir = d BY <1>1 DEF IndexReady
<1> SUFFICES ASSUME p.name # << >>
             PROVE \/ Labelled(d)'
                   \/ \E j \in 1 .. k - 1 : /\ task'[j] = w
                                            /\ \/ d \in present'
                                               \/ \E l \in 1 .. j - 1 : task'[l] = Mkdir(d)
  BY <1>2 DEF IndexReady
<1>3. CASE Labelled(d) BY <1>3
<1>4. CASE ~Labelled(d)
  <2>1. PICK j \in 1 .. (k + 1) - 1 :
           task[j] = w /\ (d \in present \/ \E l \in 1 .. j - 1 : task[l] = Mkdir(d))
    BY <1>4 DEF IndexReady
  <2>2. CASE j = 1
    <3>1. 1 .. j - 1 = {} BY <2>2
    <3>2. d \in present /\ s = w BY <1>1, <2>1, <2>2, <3>1
    <3> QED BY <3>2
  <2>3. CASE j # 1
    <3>1. j - 1 \in 1 .. k - 1 /\ j - 1 \in 1 .. Len(task') /\ (j - 1) + 1 = j BY <1>1, <2>3
    <3>2. task'[j - 1] = w BY <1>1, <2>1, <3>1
    <3>3. CASE d \in present BY <3>1, <3>2, <3>3
    <3>4. ASSUME NEW l \in 1 .. j - 1, task[l] = Mkdir(d)
          PROVE d \in present' \/ \E n \in 1 .. (j - 1) - 1 : task'[n] = Mkdir(d)
      <4>1. CASE l = 1 BY <1>1, <3>4, <4>1
      <4>2. CASE l # 1
        <5>1. l - 1 \in 1 .. (j - 1) - 1 /\ l - 1 \in 1 .. Len(task') /\ (l - 1) + 1 = l
          BY <1>1, <3>1, <4>2
        <5>2. task'[l - 1] = Mkdir(d) BY <1>1, <3>4, <5>1
        <5> QED BY <5>1, <5>2
      <4> QED BY <4>1, <4>2
    <3>5. d \in present' \/ \E n \in 1 .. (j - 1) - 1 : task'[n] = Mkdir(d)
      BY <2>1, <3>3, <3>4
    <3> QED BY <3>1, <3>2, <3>5
  <2> QED BY <2>2, <2>3
<1> QED BY <1>3, <1>4

\* A step of a callback but the exception: the port that is indexed is the first
\* that was to be.
LEMMA IndexGoesOn ==
    ASSUME FInv, StepsInv, DirsInv, reply \in Replies, IndexInv, NEW s, Goes(s),
           reply' = reply, present \subseteq present',
           s.do = "mkdir" => s.dir \in present',
           s.do = "write" => DoWrite(s),
           \/ UNCHANGED ports_by_no /\ s.do # "index"
           \/ s.do = "index" /\ DoIndex(s),
           \A d \in PortDirs : Labelled(d) => Labelled(d)'
    PROVE IndexInv'
<1>0. PICK r : r = reply OBVIOUS
<1> DEFINE ports == r.ports
<1>1. /\ s = task[1] /\ 1 \in 1 .. Len(task) /\ Len(task) \in Nat /\ Len(task') = Len(task) - 1
      /\ \A i \in 1 .. Len(task') : task'[i] = task[i + 1] /\ i + 1 \in 1 .. Len(task)
  BY StepAt
<1>2. ASSUME NEW k \in 1 .. Len(task'), task'[k].do = "index"
      PROVE \E i \in DOMAIN ports : IndexReady(k, ports[i])'
  <2>1. PICK i \in DOMAIN ports : IndexReady(k + 1, ports[i]) BY <1>0, <1>1, <1>2 DEF IndexInv
  <2> DEFINE p == ports[i]
  <2>2. r \in Replies /\ PortDir(p) \in PortDirs BY <1>0, PortNames
  <2>3. s = Mkdir(PortDir(p)) => PortDir(p) \in present'
    <3>1. Mkdir(PortDir(p)).do = "mkdir" /\ Mkdir(PortDir(p)).dir = PortDir(p) BY DEF Mkdir
    <3> QED BY <3>1
  <2>4. ASSUME p.name # << >>, PortDir(p) \in present, s = WriteTo(PortDir(p), "name", p.name)
        PROVE Labelled(PortDir(p))'
    <3>1. s.do = "write" BY <2>4 DEF WriteTo
    <3> QED BY <2>2, <2>4, <3>1, NameWritten
  <2>5. Labelled(PortDir(p)) => Labelled(PortDir(p))' BY <2>2
  <2>6. PortDir(p) \in present => PortDir(p) \in present' OBVIOUS
  <2> HIDE DEF p
  <2>7. IndexReady(k, p)' BY <2>1, <2>3, <2>4, <2>5, <2>6, ReadyGoesOn DEF p
  <2> QED BY <2>7 DEF p
<1>3. ASSUME NEW q \in DOMAIN ports_by_no, NEW i \in DOMAIN ports, IsPort(q, i),
             ports_by_no'[q] = ports_by_no[q]
      PROVE IsPort(q, i)'
  <2>1. ports_by_no[q] \in PortDirs BY DEF DirsInv
  <2> QED BY <1>0, <1>3, <2>1 DEF IsPort
<1>4. CASE UNCHANGED ports_by_no /\ s.do # "index"
  <2>1. \A q \in DOMAIN ports_by_no' : \E i \in DOMAIN ports : IsPort(q, i)'
    BY <1>0, <1>3, <1>4 DEF IndexInv
  <2>2. NamesDiffer(reply) => IndexedOnce(task')
    BY <1>1 DEF IndexInv, IndexedOnce
  <2>3. NamesDiffer(reply) =>
           \A q \in DOMAIN ports_by_no :
              /\ \A k \in 1 .. Len(task') :
                    task'[k].do = "index" => task'[k].dir # ports_by_no[q]
              /\ \A p \in DOMAIN ports_by_no : ports_by_no[p] = ports_by_no[q] => p = q
    BY <1>1 DEF IndexInv
  <2> QED BY <1>0, <1>2, <1>4, <2>1, <2>2, <2>3 DEF IndexInv
<1>5. CASE s.do = "index" /\ DoIndex(s)
  <2>1. PICK n : n = ReadNumber(<<s.dir, "port_no">>) OBVIOUS
  <2>2. ports_by_no' = Put(ports_by_no, n, s.dir) BY <1>5, <2>1 DEF DoIndex
  <2>3. /\ DOMAIN ports_by_no' = DOMAIN ports_by_no \cup {n} /\ ports_by_no'[n] = s.dir
        /\ \A q \in DOMAIN ports_by_no : q # n => ports_by_no'[q] = ports_by_no[q]
    BY <2>2 DEF Put
  <2>4. PICK i \in DOMAIN ports : IndexReady(1, ports[i]) BY <1>0, <1>1, <1>5 DEF IndexInv
  <2>5. IsPort(n, i)'
    <3>1. s.dir = PortDir(ports[i]) BY <1>1, <2>4 DEF IndexReady
    <3>2. ports[i].name # << >> => Labelled(s.dir)
      <4>1. 1 .. 1 - 1 = {} OBVIOUS
      <4> QED BY <2>4, <3>1, <4>1 DEF IndexReady
    <3>3. s.dir \in PortDirs BY <1>0, <3>1, PortNames
    <3> QED BY <1>0, <2>3, <3>1, <3>2, <3>3 DEF IsPort
  <2>6. ASSUME NEW q \in DOMAIN ports_by_no' PROVE \E j \in DOMAIN ports : IsPort(q, j)'
    <3>1. CASE q = n BY <2>5, <3>1
    <3>2. CASE q # n
      <4>1. PICK j \in DOMAIN ports : IsPort(q, j) BY <1>0, <2>3, <3>2 DEF IndexInv
      <4> QED BY <1>3, <2>3, <3>2, <4>1
    <3> QED BY <3>1, <3>2
  <2>7. NamesDiffer(reply) => IndexedOnce(task')
    BY <1>1 DEF IndexInv, IndexedOnce
  <2>8. ASSUME NamesDiffer(reply), NEW q \in DOMAIN ports_by_no', NEW k \in 1 .. Len(task'),
               task'[k].do = "index"
        PROVE task'[k].dir # ports_by_no'[q]
    <3>1. /\ task'[k] = task[k + 1] /\ k + 1 \in 1 .. Len(task) /\ k + 1 # 1
      BY <1>1
    <3>2. task[k + 1].dir # s.dir
      BY <1>1, <1>5, <2>8, <3>1 DEF IndexInv, IndexedOnce
    <3>3. q # n => task[k + 1].dir # ports_by_no[q] BY <2>3, <2>8, <3>1 DEF IndexInv
    <3> QED BY <2>3, <3>1, <3>2, <3>3
  <2>9. ASSUME NamesDiffer(reply), NEW q \in DOMAIN ports_by_no', NEW p \in DOMAIN ports_by_no',
               ports_by_no'[p] = ports_by_no'[q]
        PROVE p = q
    <3>1. \A x \in DOMAIN ports_by_no : ports_by_no[x] # s.dir
      BY <1>1, <1>5, <2>9 DEF IndexInv
    <3>2. \A x, y \in DOMAIN ports_by_no : ports_by_no[x] = ports_by_no[y] => x = y
      BY <2>9 DEF IndexInv
    <3> QED BY <2>3, <2>9, <3>1, <3>2
  <2> QED BY <1>0, <1>2, <2>6, <2>7, <2>8, <2>9 DEF IndexInv
<1> QED BY <1>4, <1>5

\* Other steps leave what is to do.
LEMMA IndexKept ==
    ASSUME DirsInv, IndexInv, UNCHANGED <<task, ports_by_no, reply>>,
           \A d \in PortDirs : (Labelled(d) => Labelled(d)') /\ (d \in present => d \in present')
    PROVE IndexInv'
<1> SUFFICES ASSUME reply \in Replies PROVE IndexInv' BY DEF IndexInv
<1>1. ASSUME NEW k \in 1 .. Len(task), NEW i \in DOMAIN reply.ports, IndexReady(k, reply.ports[i])
      PROVE IndexReady(k, reply.ports[i])'
  <2>1. PortDir(reply.ports[i]) \in PortDirs BY PortNames
  <2> QED BY <1>1, <2>1 DEF IndexReady
<1>2. ASSUME NEW q \in DOMAIN ports_by_no, NEW i \in DOMAIN reply.ports, IsPort(q, i)
      PROVE IsPort(q, i)'
  <2>1. ports_by_no[q] \in PortDirs BY DEF DirsInv
  <2> QED BY <1>2, <2>1 DEF IsPort
<1> QED BY <1>1, <1>2 DEF IndexInv

\* The ports that are indexed are those of the reply, whose names are in their
\* files.
LEMMA IndexStep ==
    ASSUME FInv, FInv', StepsInv, DirsInv, LabelInv, Next, ~mislabelled, ~mislabelled'
    PROVE IndexInv'
<1>1. IndexInv BY DEF LabelInv
<1>2. ASSUME \A s : ~DoThrow(s)
      PROVE \A d \in PortDirs : (Labelled(d) => Labelled(d)') /\ (d \in present => d \in present')
  <2> TAKE d \in PortDirs
  <2>1. d \in present => d \in present' BY <1>2, PortDirStays
  <2>2. Labelled(d) => d \in present BY DEF Labelled
  <2>3. Labelled(d) /\ d \in present' => Labelled(d)' BY LabelsKept
  <2> QED BY <2>1, <2>2, <2>3
<1>3. CASE \E s : DoThrow(s)
  <2>1. reply' = NoReply BY <1>3 DEF DoThrow
  <2> QED BY <2>1, PacketAssumption DEF IndexInv
<1>4. CASE \A s : ~DoThrow(s)
  <2>1. CASE UNCHANGED <<task, ports_by_no, reply>> BY <1>1, <1>2, <1>4, <2>1, IndexKept
  <2>2. ASSUME NEW s, DoMkdir(s) \/ DoWrite(s) \/ DoIndex(s) \/ DoData(s) \/ DoSignal(s)
        PROVE IndexInv'
    <3>1. /\ Goes(s) /\ reply' = reply /\ present \subseteq present'
          /\ s.do = "mkdir" => s.dir \in present'
          /\ s.do = "write" => DoWrite(s)
          /\ \/ UNCHANGED ports_by_no /\ s.do # "index"
             \/ s.do = "index" /\ DoIndex(s)
      BY <2>2 DEF DoMkdir, DoWrite, DoIndex, DoData, DoSignal
    <3>2. reply \in Replies BY <3>1 DEF Goes, DirsInv
    <3>3. \A d \in PortDirs : Labelled(d) => Labelled(d)' BY <1>2, <1>4
    <3> QED BY <1>1, <3>1, <3>2, <3>3, IndexGoesOn
  <2>3. ASSUME NEW r \in Replies, HandleFeatures(r) PROVE IndexInv'
    <3>1. reply = NoReply /\ task' = SetUp(r) /\ reply' = r /\ ports_by_no' = ports_by_no
      BY <2>3 DEF HandleFeatures
    <3>2. DOMAIN ports_by_no' = {} BY <3>1 DEF DirsInv
    <3>3. LabelSteps(task', r, DOMAIN r.ports) BY <3>1, SetUpLabels
    <3>4. ASSUME NEW k \in 1 .. Len(task'), NEW i \in DOMAIN r.ports, Labels(task', k, r.ports[i])
          PROVE IndexReady(k, r.ports[i])'
      BY <3>4 DEF Labels, IndexReady
    <3>5. \A k \in 1 .. Len(task') :
             task'[k].do = "index" => \E i \in DOMAIN r.ports : IndexReady(k, r.ports[i])'
      BY <3>3, <3>4 DEF LabelSteps
    <3>6. NamesDiffer(r) => IndexedOnce(task') BY <3>3 DEF LabelSteps
    <3> QED BY <3>1, <3>2, <3>5, <3>6 DEF IndexInv
  <2>4. ASSUME \A k \in 1 .. Len(task') : task'[k].do # "index",
               UNCHANGED <<ports_by_no, reply>>
        PROVE IndexInv'
    <3> SUFFICES ASSUME reply \in Replies PROVE IndexInv' BY <2>4 DEF IndexInv
    <3>1. ASSUME NEW q \in DOMAIN ports_by_no, NEW i \in DOMAIN reply.ports, IsPort(q, i)
          PROVE IsPort(q, i)'
      <4>1. ports_by_no[q] \in PortDirs BY DEF DirsInv
      <4> QED BY <1>2, <1>4, <2>4, <3>1, <4>1 DEF IsPort
    <3>2. \A q \in DOMAIN ports_by_no : \E i \in DOMAIN reply.ports : IsPort(q, i)'
      BY <1>1, <3>1 DEF IndexInv
    <3>3. NamesDiffer(reply) =>
             \A q, p \in DOMAIN ports_by_no : ports_by_no[p] = ports_by_no[q] => p = q
      BY <1>1 DEF IndexInv
    <3>4. IndexedOnce(task') BY <2>4 DEF IndexedOnce
    <3> QED BY <2>4, <3>2, <3>3, <3>4 DEF IndexInv
  <2>5. ASSUME NEW r \in Configs, HandleConfig(r) PROVE IndexInv'
    <3>1. /\ \A k \in 1 .. Len(task') : task'[k].do # "index"
          /\ UNCHANGED <<ports_by_no, reply>>
      BY <2>5, ConfigLabels DEF HandleConfig, LabelSteps
    <3> QED BY <2>4, <3>1
  <2>6. ASSUME NEW m \in Packets, HandlePacketIn(m) PROVE IndexInv'
    <3>1. UNCHANGED <<ports_by_no, reply>> BY <2>6 DEF HandlePacketIn
    <3> QED BY <2>4, <2>6, <3>1, PacketLabels
  <2>7. ASSUME NEW m, HandlePacketDies(m) PROVE UNCHANGED <<task, ports_by_no, reply>>
    BY <2>7 DEF HandlePacketDies
  <2>8. CASE AdapterStep BY <1>4, <2>1, <2>2, <2>3, <2>5, <2>6, <2>7, <2>8 DEF AdapterStep
  <2>9. CASE Restart BY <2>9, PacketAssumption DEF Restart, IndexInv
  <2>10. CASE GoOn \/ AppTakes \/ AppReads \/ AppReturns
    BY <2>1, <2>10 DEF GoOn, AppTakes, AppReads, AppReturns, AppKeeps
  <2>11. ASSUME NEW e, OthersWrite(e) \/ OthersRemove(e) PROVE UNCHANGED <<task, ports_by_no, reply>>
    BY <2>11 DEF OthersWrite, OthersRemove, OthersKeep
  <2> QED BY <2>1, <2>8, <2>9, <2>10, <2>11 DEF Next
<1> QED BY <1>3, <1>4

\* A packet is named after the directory of its port, or not at all.
LEMMA NamedStep ==
    ASSUME FInv, StepsInv, DirsInv, BoundsInv, CountInv, LabelInv, Next, ~mislabelled,
           NEW d \in DOMAIN made'
    PROVE PacketNamed(d)'
<1> DEFINE Same == /\ DOMAIN made' = DOMAIN made
                   /\ made'[d].msg = made[d].msg /\ made'[d].life = made[d].life
<1>1. CASE Same /\ UNCHANGED <<task, ports_by_no, reply, starts>>
  BY <1>1 DEF LabelInv, PacketNamed
<1>2. CASE Same /\ DOMAIN ports_by_no = {} /\ starts' = starts
  BY <1>2 DEF LabelInv, PacketNamed
<1>3. CASE Same /\ UNCHANGED <<ports_by_no, reply, starts>>
           /\ \A k \in 1 .. Len(task') : task'[k].do # "index"
  BY <1>3 DEF LabelInv, PacketNamed
<1>4. ASSUME NEW s, Goes(s), Same, starts' = starts, s.do = "index" PROVE PacketNamed(d)'
  <2>1. s = task[1] /\ 1 \in 1 .. Len(task) BY <1>4, StepAt
  <2>2. made[d].life # starts BY <1>4, <2>1 DEF LabelInv, PacketNamed
  <2> QED BY <1>4, <2>2 DEF PacketNamed
<1>5. ASSUME NEW s, Goes(s), Same, UNCHANGED <<ports_by_no, reply, starts>> PROVE PacketNamed(d)'
  <2>1. \A k \in 1 .. Len(task') : task'[k] = task[k + 1] /\ k + 1 \in 1 .. Len(task)
    BY <1>5, StepAt
  <2>2. CASE made[d].life = starts
    <3>1. \A k \in 1 .. Len(task) : task[k].do # "index"
      BY <1>5, <2>2 DEF LabelInv, PacketNamed
    <3> QED BY <1>3, <1>5, <2>1, <3>1
  <2>3. CASE made[d].life # starts BY <1>5, <2>3 DEF PacketNamed
  <2> QED BY <2>2, <2>3
<1>6. ASSUME NEW e, \/ Touch(e)
                    \/ made' = IF e \in DOMAIN made THEN [made EXCEPT ![e].said = TRUE] ELSE made
      PROVE Same
  BY <1>6, MadeKept
<1>7. ASSUME NEW s, DoMkdir(s) \/ DoWrite(s) \/ DoData(s) PROVE PacketNamed(d)'
  <2>1. Goes(s) /\ Same /\ UNCHANGED <<ports_by_no, reply, starts>>
    BY <1>7 DEF DoMkdir, DoWrite, DoData
  <2> QED BY <1>5, <2>1
<1>8. ASSUME NEW s, DoIndex(s) PROVE PacketNamed(d)'
  <2>1. Goes(s) /\ Same /\ starts' = starts /\ s.do = "index" BY <1>8 DEF DoIndex
  <2> QED BY <1>4, <2>1
<1>9. ASSUME NEW s, DoSignal(s) PROVE PacketNamed(d)'
  <2>1. /\ made' = IF s.dir \in DOMAIN made THEN [made EXCEPT ![s.dir].said = TRUE] ELSE made
        /\ Goes(s) /\ UNCHANGED <<ports_by_no, reply, starts>>
    BY <1>9 DEF DoSignal
  <2>2. Same BY <1>6, <2>1
  <2> QED BY <1>5, <2>1, <2>2
<1>10. ASSUME NEW s, DoThrow(s) PROVE PacketNamed(d)'
  <2>1. Goes(s) /\ s.do = "throw" /\ Same /\ starts' = starts BY <1>10 DEF DoThrow
  <2>2. s = task[1] /\ 1 \in 1 .. Len(task) BY <2>1, StepAt
  <2>3. task[1].do = "throw" => DOMAIN ports_by_no = {} BY <2>2 DEF StepsInv
  <2> QED BY <1>2, <2>1, <2>2, <2>3
<1>11. ASSUME NEW r, HandleFeatures(r) PROVE PacketNamed(d)'
  <2>1. Same /\ reply = NoReply /\ starts' = starts BY <1>11 DEF HandleFeatures
  <2>2. DOMAIN ports_by_no = {} BY <2>1 DEF DirsInv
  <2> QED BY <1>2, <2>1, <2>2
<1>12. ASSUME NEW r \in Configs, HandleConfig(r) PROVE PacketNamed(d)'
  <2>1. Same /\ UNCHANGED <<ports_by_no, reply, starts>> BY <1>12 DEF HandleConfig
  <2>2. \A k \in 1 .. Len(task') : task'[k].do # "index"
    BY <1>12, ConfigLabels DEF HandleConfig, LabelSteps
  <2> QED BY <1>3, <2>1, <2>2
<1>13. ASSUME NEW m, HandlePacketDies(m) PROVE PacketNamed(d)'
  <2>1. Same /\ UNCHANGED <<task, ports_by_no, reply, starts>> BY <1>13 DEF HandlePacketDies
  <2> QED BY <1>1, <2>1
<1>14. ASSUME NEW m \in Packets, HandlePacketIn(m) PROVE PacketNamed(d)'
  <2>1. PICK p : p = m.in_port OBVIOUS
  <2>2. PICK e : e = <<"packet_in", PortName(p), counter'[p]>> OBVIOUS
  <2>3. PICK new : new = [msg |-> m, nth |-> nsent, life |-> starts,
                          new |-> e \notin present,
                          said |-> FALSE, touched |-> FALSE]
    OBVIOUS
  <2>4. /\ made' = Put(made, e, new) /\ p \in DOMAIN ports_by_no /\ pending = NoWrite
        /\ UNCHANGED <<ports_by_no, reply, starts>>
    BY <1>14, <2>1, <2>2, <2>3 DEF HandlePacketIn, Receives
  <2>5. \A k \in 1 .. Len(task') : task'[k].do # "index" BY <1>14, PacketLabels
  <2>6. CASE d # e
    <3>1. d \in DOMAIN made /\ made'[d] = made[d] BY <2>4, <2>6 DEF Put
    <3>2. CASE made[d].life = starts BY <2>4, <2>5, <3>1, <3>2 DEF LabelInv, PacketNamed
    <3>3. CASE made[d].life # starts BY <2>4, <3>1, <3>3 DEF PacketNamed
    <3> QED BY <3>2, <3>3
  <2>7. CASE d = e
    <3>1. made'[d] = new BY <2>4, <2>7 DEF Put
    <3>2. made'[d].msg.in_port = p BY <2>1, <2>3, <3>1
    <3>3. PICK q : q = ports_by_no[p] OBVIOUS
    <3>4. reply \in Replies /\ q \in PortDirs BY <2>4, <3>3 DEF DirsInv
    <3>5. PICK i \in DOMAIN reply.ports : IsPort(p, i) BY <2>4, <3>4 DEF LabelInv, IndexInv
    <3>6. q = PortDir(reply.ports[i]) /\ (reply.ports[i].name # << >> => Labelled(q))
      BY <3>3, <3>5 DEF IsPort
    <3>7. ~Naming(q) BY <2>4 DEF Naming
    <3>8. d[2] = val[NameOf(q)] BY <2>2, <2>7, <3>3 DEF PortName, ReadText, NameOf
    <3>9. val[NameOf(q)] \in {<< >>, q[2]} BY <3>4, <3>7 DEF LabelInv, SaysName
    <3>10. reply.ports[i].name # << >> => d[2] = q[2] BY <3>6, <3>7, <3>8 DEF Labelled
    <3>11. \/ d[2] = ports_by_no[p][2]
           \/ d[2] = << >> /\ \E j \in DOMAIN reply.ports :
                 reply.ports[j].name = << >> /\ ports_by_no[p] = PortDir(reply.ports[j])
      BY <3>3, <3>6, <3>8, <3>9, <3>10
    <3> QED BY <2>4, <2>5, <3>2, <3>11 DEF PacketNamed
  <2> QED BY <2>6, <2>7
<1>15. CASE AdapterStep
  BY <1>7, <1>8, <1>9, <1>10, <1>11, <1>12, <1>13, <1>14, <1>15 DEF AdapterStep
<1>16. CASE GoOn \/ AppTakes \/ AppReads \/ AppReturns
  BY <1>1, <1>16 DEF GoOn, AppTakes, AppReads, AppReturns, AppKeeps
<1>17. CASE Restart
  <2>1. starts' = starts + 1 /\ made' = made BY <1>17 DEF Restart
  <2>2. made[d].life <= starts /\ made[d].life \in Nat /\ starts \in Nat
    BY <2>1 DEF CountInv, Counted, DirsInv, Made, BoundsInv
  <2>3. made'[d].life # starts' BY <2>1, <2>2
  <2> QED BY <2>3 DEF PacketNamed
<1>18. ASSUME NEW e, Touch(e), OthersKeep PROVE PacketNamed(d)'
  BY <1>1, <1>6, <1>18 DEF OthersKeep
<1>19. ASSUME NEW f, OthersWrite(f) PROVE PacketNamed(d)' BY <1>18, <1>19 DEF OthersWrite
<1>20. ASSUME NEW e, OthersRemove(e) PROVE PacketNamed(d)' BY <1>18, <1>20 DEF OthersRemove
<1> QED BY <1>15, <1>16, <1>17, <1>19, <1>20 DEF Next

\* A name stays lost.
LEMMA LabelStep ==
    ASSUME Inv, FInv', Next
    PROVE LabelInv'
<1> USE DEF Inv
<1>1. mislabelled' \in BOOLEAN /\ (mislabelled => mislabelled')
  <2>1. mislabelled \in BOOLEAN BY DEF LabelInv
  <2>2. CASE UNCHANGED mislabelled BY <2>1, <2>2
  <2>3. ASSUME NEW P, mislabelled' = (mislabelled \/ P)
        PROVE mislabelled' \in BOOLEAN /\ (mislabelled => mislabelled')
    BY <2>1, <2>3
  <2>4. ASSUME NEW s, DoMkdir(s) \/ DoWrite(s) \/ DoIndex(s) \/ DoData(s) \/ DoSignal(s) \/ DoThrow(s)
        PROVE UNCHANGED mislabelled
    BY <2>4 DEF DoMkdir, DoWrite, DoIndex, DoData, DoSignal, DoThrow
  <2>5. ASSUME NEW r, HandleFeatures(r) \/ HandleConfig(r) \/ HandlePacketIn(r)
                      \/ HandlePacketDies(r)
        PROVE UNCHANGED mislabelled
    BY <2>5 DEF HandleFeatures, HandleConfig, HandlePacketIn, HandlePacketDies
  <2>6. CASE AdapterStep BY <2>2, <2>4, <2>5, <2>6 DEF AdapterStep
  <2>7. CASE GoOn BY <2>3, <2>7, Zenon DEF GoOn
  <2>8. CASE Restart BY <2>3, <2>8, Zenon DEF Restart
  <2>9. CASE AppTakes \/ AppReads \/ AppReturns
    BY <2>2, <2>9 DEF AppTakes, AppReads, AppReturns, AppKeeps
  <2>10. ASSUME NEW f, OthersWrite(f) PROVE mislabelled' \in BOOLEAN /\ (mislabelled => mislabelled')
    BY <2>3, <2>10, Zenon DEF OthersWrite
  <2>11. ASSUME NEW e, OthersRemove(e) PROVE UNCHANGED mislabelled
    BY <2>11 DEF OthersRemove
  <2> QED BY <2>2, <2>6, <2>7, <2>8, <2>9, <2>10, <2>11 DEF Next
<1> SUFFICES ASSUME ~mislabelled'
             PROVE /\ WritesNames(task)' /\ \A d \in PortDirs : SaysName(d)'
                   /\ IndexInv' /\ \A d \in DOMAIN made' : PacketNamed(d)'
  BY <1>1 DEF LabelInv
<1>2. ~mislabelled BY <1>1
<1>3. WritesNames(task)' BY <1>2, NamesStep DEF LabelInv
<1>4. \A d \in PortDirs : SaysName(d)' BY <1>2, LabelsKept
<1>5. IndexInv' BY <1>2, IndexStep
<1>6. \A d \in DOMAIN made' : PacketNamed(d)' BY <1>2, NamedStep
<1> QED BY <1>3, <1>4, <1>5, <1>6

-----------------------------------------------------------------------------
(* The application *)

\* A file of a packet but the one for the frame is a number.
LEMMA NumberOfPacket ==
    ASSUME NEW d, d[1] = "packet_in", NEW m \in Packets,
           NEW x, <<d, x>> \in Files, x # "data"
    PROVE /\ <<d, x>> \in Of(Ints)
          /\ \E i \in 1 .. Len(PacketFiles) : x = PacketFiles[i]
BY FilesOfPacket

\* A file of a packet that is said and that nobody else was about: what it says.
LEMMA SaidFile ==
    ASSUME DirsInv, FillInv, NEW d \in DOMAIN made, Intact(d), NEW f \in Files, f[1] = d
    PROVE LET m == made[d].msg IN
          /\ d \in present /\ m \in Packets /\ Copied(m) >= 0
          /\ f[2] # "data" => /\ f \in Of(Ints) /\ sized[f] /\ val[f] = m[f[2]]
          /\ f[2] = "data" => f = <<d, "data">> /\ f \in Of(Strings) /\ DataSays(d)
<1> DEFINE m == made[d].msg
           F == Fill(d, m)
<1>1. d[1] = "packet_in" /\ m \in Packets /\ Copied(m) >= 0 BY DEF DirsInv, Made, FillInv
<1>2. f = <<d, f[2]>> BY PacketAssumption
<1>3. FillForm(F, d, m) BY FillShape
<1>4. Filled(d, Len(F)) /\ ~made[d].touched BY DEF FillInv, Complete, Intact
<1>5. PICK n : n = Len(F) OBVIOUS
<1>6. n \in Nat /\ n >= 3
  <2> HIDE DEF F
  <2> QED BY <1>3, <1>5 DEF FillForm
<1>7. /\ n >= 1 => d \in present
      /\ \A j \in 2 .. n - 2 : j <= n => sized[F[j].file] /\ val[F[j].file] = F[j].value
      /\ OnIt(d) => n = n - 1
      /\ <<d, "data">> \in Files /\ n >= n - 1 /\ ~OnIt(d) => DataSays(d)
  BY <1>4, <1>5 DEF Filled
<1>8. n >= 1 /\ n # n - 1 /\ n >= n - 1 /\ \A j \in 2 .. n - 2 : j <= n BY <1>6
<1>9. /\ d \in present /\ (<<d, "data">> \in Files => DataSays(d))
      /\ \A j \in 2 .. n - 2 : sized[F[j].file] /\ val[F[j].file] = F[j].value
  BY <1>7, <1>8
<1>10. CASE f[2] = "data"
  <2>1. f = <<d, "data">> BY <1>2, <1>10
  <2>2. f \in Of(Strings) BY <1>1, <2>1, FilesOfPacket
  <2> QED BY <1>1, <1>9, <1>10, <2>1, <2>2
<1>11. CASE f[2] # "data"
  <2>1. PICK x : x = f[2] OBVIOUS
  <2>2. f = <<d, x>> /\ x # "data" /\ <<d, x>> \in Files BY <1>2, <1>11, <2>1
  <2>3. <<d, x>> \in Of(Ints) /\ \E i \in 1 .. Len(PacketFiles) : x = PacketFiles[i]
    BY <1>1, <2>2, NumberOfPacket
  <2>4. PICK i \in 1 .. Len(PacketFiles) : x = PacketFiles[i] BY <2>3
  <2> HIDE DEF F, m
  <2>5. PICK j \in 2 .. n - 2 : F[j] = WriteTo(d, PacketFiles[i], m[PacketFiles[i]])
    BY <1>3, <1>5, <2>2, <2>4 DEF FillForm
  <2>6. F[j].file = f /\ F[j].value = m[f[2]] BY <2>1, <2>2, <2>4, <2>5 DEF WriteTo
  <2> QED BY <1>1, <1>9, <1>11, <2>2, <2>3, <2>6 DEF m
<1> QED BY <1>10, <1>11

\* What strip() leaves of a text that does not begin with white space is a
\* beginning of it.
LEMMA StripIs ==
    ASSUME NEW s \in Seq(Chars)
    PROVE /\ Strip(s) \in Seq(Chars)
          /\ Len(s) >= 1 /\ s[1] # Blank =>
                /\ Len(Strip(s)) <= Len(s)
                /\ \A i \in 1 .. Len(Strip(s)) : Strip(s)[i] = s[i]
<1> DEFINE solid == {i \in DOMAIN s : s[i] # Blank}
           first == CHOOSE i \in solid : \A j \in solid : i <= j
           last == CHOOSE i \in solid : \A j \in solid : j <= i
<1>1. CASE solid = {}
  <2>1. Strip(s) = << >> BY <1>1 DEF Strip
  <2>2. << >> \in Seq(Chars) OBVIOUS
  <2>3. ~(Len(s) >= 1 /\ s[1] # Blank)
    <3>1. Len(s) >= 1 => 1 \in DOMAIN s OBVIOUS
    <3> QED BY <1>1, <3>1
  <2> QED BY <2>1, <2>2, <2>3
<1>2. CASE solid # {}
  <2>1. Strip(s) = SubSeq(s, first, last) BY <1>2 DEF Strip
  <2>2. solid \in SUBSET (1 .. Len(s)) /\ Len(s) \in Nat OBVIOUS
  <2>3. 1 <= Len(s) /\ s[1] # Blank => 1 \in solid OBVIOUS
  <2> HIDE DEF solid
  <2>4. \E i \in solid : \A j \in solid : i <= j
    <3>1. solid \in SUBSET Nat BY <2>2
    <3> QED BY <1>2, <3>1, LeastNatural
  <2>5. \E i \in solid : \A j \in solid : j <= i
    <3> DEFINE Over == {Len(s) - i : i \in solid}
    <3>1. Over \in SUBSET Nat /\ Over # {}
      <4>1. \A i \in solid : Len(s) - i \in Nat BY <2>2
      <4>2. PICK i : i \in solid BY <1>2
      <4>3. Len(s) - i \in Over BY <4>2
      <4> QED BY <4>1, <4>3
    <3> HIDE DEF Over
    <3>2. PICK x \in Over : \A y \in Over : x <= y BY <3>1, LeastNatural
    <3>3. PICK i \in solid : x = Len(s) - i BY <3>2 DEF Over
    <3>4. ASSUME NEW j \in solid PROVE j <= i
      <4>1. Len(s) - i <= Len(s) - j BY <3>2, <3>3, <3>4 DEF Over
      <4> QED BY <2>2, <4>1
    <3> QED BY <3>4
  <2>6. first \in solid /\ \A j \in solid : first <= j BY <2>4
  <2>7. last \in solid /\ \A j \in solid : j <= last BY <2>5
  <2> HIDE DEF first, last
  <2>8. first \in 1 .. Len(s) /\ last \in 1 .. Len(s) BY <2>2, <2>6, <2>7
  <2>9. SubSeq(s, first, last) \in Seq(Chars) BY <2>8
  <2>10. ASSUME Len(s) >= 1, s[1] # Blank
         PROVE  /\ Len(Strip(s)) <= Len(s)
                /\ \A i \in 1 .. Len(Strip(s)) : Strip(s)[i] = s[i]
    <3>1. 1 \in solid BY <2>2, <2>3, <2>10
    <3>2. first = 1 BY <2>6, <2>8, <3>1
    <3>3. Len(SubSeq(s, 1, last)) = last /\ \A i \in 1 .. last : SubSeq(s, 1, last)[i] = s[i]
      BY <2>8
    <3> QED BY <2>1, <2>8, <3>2, <3>3
  <2> QED BY <2>1, <2>9, <2>10
<1> QED BY <1>1, <1>2

\* What load() finds in a file of such a packet.
LEMMA LoadedIs ==
    ASSUME FInv, DirsInv, FillInv, NEW d \in DOMAIN made, Intact(d), NEW f \in Files, f[1] = d
    PROVE ReadsPacket(made[d].msg, [file |-> f, val |-> Loaded(f)])
<1> DEFINE m == made[d].msg
           v == Loaded(f)
           s == val[f]
           frame == Strip(s)
<1>1. /\ d \in present /\ m \in Packets
      /\ f[2] # "data" => /\ f \in Of(Ints) /\ sized[f] /\ val[f] = m[f[2]]
      /\ f[2] = "data" => f = <<d, "data">> /\ f \in Of(Strings) /\ DataSays(d)
  BY SaidFile
<1>2. CASE f[2] # "data"
  <2>1. Loaded(f) = m[f[2]] BY <1>1, <1>2 DEF Loaded, ShownNumber
  <2> QED BY <1>1, <1>2, <2>1 DEF ReadsPacket
<1>3. CASE f[2] = "data"
  <2>1. f \notin Of(Ints) /\ s \in Seq(Chars) BY <1>1, <1>3, TypesApart DEF FInv, FilesTypeOK
  <2>2. v = IF Len(frame) < HdrLen THEN Undef ELSE SubSeq(frame, 1, HdrLen)
    BY <1>1, <2>1 DEF Loaded, ShownData
  <2>3. frame \in Seq(Chars) BY <2>1, StripIs
  <2>4. ASSUME v # Undef, Copied(m) >= HdrLen, m.data[1] # Blank
        PROVE v = SubSeq(m.data, 1, HdrLen)
    <3>1. /\ m.data \in Seq(Chars) /\ Copied(m) \in Int /\ Copied(m) <= Len(m.data)
          /\ HdrLen \in Nat
      BY <1>1, CopiedIs, PacketAssumption
    <3>2. PICK c : c = Copied(m) OBVIOUS
    <3>3. c \in Nat /\ c <= Len(m.data) /\ HdrLen <= c BY <2>4, <3>1, <3>2
    <3>4. /\ Len(SubSeq(m.data, 1, c)) <= Len(s)
          /\ SubSeq(s, 1, Len(SubSeq(m.data, 1, c))) = SubSeq(m.data, 1, c)
      BY <1>1, <1>3, <3>2 DEF DataSays, Says
    <3>5. c <= Len(s) /\ \A i \in 1 .. c : s[i] = m.data[i]
      <4>1. Len(SubSeq(m.data, 1, c)) = c /\ \A i \in 1 .. c : SubSeq(m.data, 1, c)[i] = m.data[i]
        BY <3>1, <3>3
      <4>2. c <= Len(s) /\ SubSeq(s, 1, c) = SubSeq(m.data, 1, c) BY <3>4, <4>1
      <4>3. \A i \in 1 .. c : SubSeq(s, 1, c)[i] = s[i] BY <2>1, <3>3, <4>2
      <4> QED BY <4>1, <4>2, <4>3
    <3>6. Len(frame) >= HdrLen /\ v = SubSeq(frame, 1, HdrLen) BY <2>2, <2>3, <2>4, <3>1
    <3> HIDE DEF frame, v, s
    <3>7. CASE HdrLen = 0
      <4>1. SubSeq(frame, 1, 0) = << >> /\ SubSeq(m.data, 1, 0) = << >> BY <2>3, <3>1
      <4> QED BY <3>6, <3>7, <4>1
    <3>8. CASE HdrLen # 0
      <4>1. c >= 1 /\ 1 \in 1 .. c BY <3>1, <3>3, <3>8
      <4>2. s[1] # Blank BY <2>4, <3>5, <4>1
      <4>3. Len(s) >= 1 BY <2>1, <3>3, <3>5, <4>1
      <4>4. \A i \in 1 .. Len(frame) : frame[i] = s[i] BY <2>1, <4>2, <4>3, StripIs DEF frame
      <4>5. \A i \in 1 .. HdrLen : frame[i] = m.data[i] BY <2>3, <3>1, <3>3, <3>5, <3>6, <4>4
      <4>6. SubSeq(frame, 1, HdrLen) \in Seq(Chars) /\ Len(SubSeq(frame, 1, HdrLen)) = HdrLen
              /\ \A i \in 1 .. HdrLen : SubSeq(frame, 1, HdrLen)[i] = frame[i]
        BY <2>3, <3>1, <3>6
      <4>7. SubSeq(m.data, 1, HdrLen) \in Seq(Chars) /\ Len(SubSeq(m.data, 1, HdrLen)) = HdrLen
              /\ \A i \in 1 .. HdrLen : SubSeq(m.data, 1, HdrLen)[i] = m.data[i]
        BY <3>1, <3>3
      <4> QED BY <3>6, <4>5, <4>6, <4>7
    <3> QED BY <3>7, <3>8
  <2> HIDE DEF v
  <2>5. ReadsPacket(m, [file |-> f, val |-> v]) BY <2>1, <2>4 DEF ReadsPacket
  <2> QED BY <2>5 DEF v
<1> QED BY <1>2, <1>3

\* The application goes on reading the packet it began with.
LEMMA AppStep ==
    ASSUME FInv, DirsInv, BoundsInv, FillInv, CountInv, AppInv, Next
    PROVE AppInv'
<1> DEFINE Same == /\ DOMAIN made' = DOMAIN made
                   /\ \A d \in DOMAIN made :
                         /\ made'[d].msg = made[d].msg /\ made'[d].nth = made[d].nth
                         /\ made[d].said => made'[d].said
                         /\ made[d].touched => made'[d].touched
<1>1. CASE Same /\ app' = app /\ nsent' \in {nsent, nsent + 1}
  BY <1>1 DEF AppInv, Intact, BoundsInv
<1>2. ASSUME NEW s,
             DoMkdir(s) \/ DoWrite(s) \/ DoIndex(s) \/ DoData(s) \/ DoSignal(s) \/ DoThrow(s)
      PROVE AppInv'
  <2>1. app' = app /\ nsent' = nsent
    BY <1>2 DEF DoMkdir, DoWrite, DoIndex, DoData, DoSignal, DoThrow
  <2>2. Same
    <3>1. CASE DoSignal(s)
      <4>1. made' = IF s.dir \in DOMAIN made THEN [made EXCEPT ![s.dir].said = TRUE] ELSE made
        BY <3>1 DEF DoSignal
      <4> QED BY <4>1, MadeKept
    <3>2. CASE ~DoSignal(s) BY <1>2, <3>2 DEF DoMkdir, DoWrite, DoIndex, DoData, DoThrow
    <3> QED BY <3>1, <3>2
  <2> QED BY <1>1, <2>1, <2>2
<1>3. ASSUME NEW r, HandleFeatures(r) \/ HandleConfig(r) PROVE AppInv'
  <2>1. Same /\ app' = app /\ nsent' = nsent + 1
    BY <1>3 DEF HandleFeatures, HandleConfig, Receives
  <2> QED BY <1>1, <2>1
<1>4. ASSUME NEW m, HandlePacketDies(m) PROVE AppInv'
  <2>1. Same /\ app' = app /\ nsent' = nsent + 1 BY <1>4 DEF HandlePacketDies, Receives
  <2> QED BY <1>1, <2>1
<1>5. ASSUME NEW m \in Packets, HandlePacketIn(m) PROVE AppInv'
  <2>1. PICK d : d = <<"packet_in", PortName(m.in_port), counter'[m.in_port]>> OBVIOUS
  <2>2. PICK e : e = [msg |-> m, nth |-> nsent, life |-> starts,
                      new |-> d \notin present,
                      said |-> FALSE, touched |-> FALSE]
    OBVIOUS
  <2>3. made' = Put(made, d, e) /\ app' = app /\ nsent' = nsent + 1
    BY <1>5, <2>1, <2>2 DEF HandlePacketIn, Receives
  <2>4. /\ DOMAIN made' = DOMAIN made \cup {d} /\ made'[d] = e /\ e.nth = nsent
        /\ \A x \in DOMAIN made : x # d => made'[x] = made[x]
    BY <2>2, <2>3 DEF Put
  <2>5. nsent \in Nat BY DEF BoundsInv
  <2>6. ASSUME app # NoLoad, app.by # NoLoad
        PROVE  /\ app.dir \in DOMAIN made' /\ app.by.nth \in 0 .. nsent' - 1
               /\ made'[app.dir].nth = app.by.nth =>
                    app.dir # d /\ made'[app.dir] = made[app.dir]
    <3>1. app.dir \in DOMAIN made /\ app.by.nth \in 0 .. nsent - 1 BY <2>6 DEF AppInv
    <3> QED BY <2>3, <2>4, <2>5, <3>1
  <2> QED BY <2>3, <2>6 DEF AppInv, Intact
<1>6. CASE AdapterStep BY <1>2, <1>3, <1>4, <1>5, <1>6 DEF AdapterStep
<1>7. CASE GoOn \/ Restart
  <2>1. Same /\ app' = app /\ nsent' = nsent BY <1>7 DEF GoOn, Restart
  <2> QED BY <1>1, <2>1
<1>8. CASE AppTakes
  <2>1. PICK d : d = Head(toApp) OBVIOUS
  <2>2. PICK names : names = IF d = SwitchDir THEN SwitchLoad ELSE PacketLoad OBVIOUS
  <2>3. PICK todo : todo = Tracked(d, names) OBVIOUS
  <2>4. PICK by : by = Get(made, d, NoLoad) OBVIOUS
  <2>5. app' = [dir |-> d, got |-> << >>, todo |-> todo, by |-> by] /\ UNCHANGED <<made, nsent>>
    BY <1>8, <2>1, <2>2, <2>3, <2>4 DEF AppTakes, AppKeeps
  <2>6. Sequence(names) BY <2>2, NamesAny
  <2>7. Sequence(todo) /\ \A i \in 1 .. Len(todo) : <<d, todo[i]>> \in Files
    BY <2>3, <2>6, TrackedKeeps DEF KeepsFiles
  <2>8. Sequence(<< >>) /\ 1 .. Len(<< >>) = {}
    <3>1. << >> \in Seq({}) OBVIOUS
    <3> QED BY <3>1 DEF Sequence
  <2>9. by # NoLoad => /\ d \in DOMAIN made /\ by = made[d] /\ by.nth \in 0 .. nsent - 1
    <3> SUFFICES ASSUME by # NoLoad
                 PROVE d \in DOMAIN made /\ by = made[d] /\ by.nth \in 0 .. nsent - 1
      OBVIOUS
    <3>1. d \in DOMAIN made /\ by = made[d] BY <2>4 DEF Get
    <3>2. made[d].nth \in Nat /\ made[d].nth < nsent
      BY <3>1 DEF DirsInv, Made, CountInv, Counted
    <3> QED BY <3>1, <3>2 DEF BoundsInv
  <2>10. /\ app'.dir = d /\ app'.got = << >> /\ app'.todo = todo /\ app'.by = by BY <2>5
  <2>11. \A i \in 1 .. Len(app'.got) : ReadsPacket(app'.by.msg, app'.got[i])
    BY <2>8, <2>10, Zenon
  <2> QED BY <2>5, <2>7, <2>8, <2>9, <2>10, <2>11 DEF AppInv
<1>9. CASE AppReads
  <2>1. PICK f : f = <<app.dir, Head(app.todo)>> OBVIOUS
  <2>2. PICK v : v = Loaded(f) OBVIOUS
  <2>3. PICK r : r = [file |-> f, val |-> v] OBVIOUS
  <2>4. PICK todo : todo = IF v = Undef THEN << >> ELSE Tail(app.todo) OBVIOUS
  <2>5. app # NoLoad /\ app.todo # << >> /\ UNCHANGED <<made, nsent>>
    BY <1>9 DEF AppReads, AppKeeps
  <2>6. /\ app = [dir |-> app.dir, got |-> app.got, todo |-> app.todo, by |-> app.by]
        /\ Sequence(app.got) /\ Sequence(app.todo)
        /\ \A i \in 1 .. Len(app.todo) : <<app.dir, app.todo[i]>> \in Files
    BY <2>5 DEF AppInv
  <2>7. app' = [dir |-> app.dir, got |-> Append(app.got, r), todo |-> todo, by |-> app.by]
    <3>1. app' = [app EXCEPT !.got = Append(@, r), !.todo = todo]
      BY <1>9, <2>1, <2>2, <2>3, <2>4 DEF AppReads
    <3> QED BY <2>6, <3>1
  <2>8. /\ Sequence(Tail(app.todo)) /\ Len(app.todo) \in Nat \ {0}
        /\ Len(Tail(app.todo)) = Len(app.todo) - 1 /\ Head(app.todo) = app.todo[1]
        /\ \A i \in 1 .. Len(app.todo) - 1 : Tail(app.todo)[i] = app.todo[i + 1]
    BY <2>5, <2>6, TailAny
  <2>9. f \in Files /\ f[1] = app.dir
    <3>1. 1 \in 1 .. Len(app.todo) BY <2>8
    <3> QED BY <2>1, <2>6, <2>8, <3>1
  <2>10. Sequence(todo) /\ \A i \in 1 .. Len(todo) : <<app.dir, todo[i]>> \in Files
    <3>1. CASE v = Undef
      <4>1. Sequence(<< >>) /\ 1 .. Len(<< >>) = {}
        <5>1. << >> \in Seq({}) OBVIOUS
        <5> QED BY <5>1 DEF Sequence
      <4> QED BY <2>4, <3>1, <4>1
    <3>2. CASE v # Undef
      <4>1. \A i \in 1 .. Len(app.todo) - 1 : i + 1 \in 1 .. Len(app.todo) BY <2>8
      <4> QED BY <2>4, <2>6, <2>8, <3>2, <4>1
    <3> QED BY <3>1, <3>2
  <2>11. /\ Sequence(Append(app.got, r)) /\ Len(app.got) \in Nat
         /\ Len(Append(app.got, r)) = Len(app.got) + 1
         /\ Append(app.got, r)[Len(app.got) + 1] = r
         /\ \A i \in 1 .. Len(app.got) : Append(app.got, r)[i] = app.got[i]
    BY <2>6, AppendAny, SequenceAny
  <2>12. ASSUME app.by # NoLoad, made[app.dir].nth = app.by.nth, app.by.said, Intact(app.dir)
         PROVE  \A i \in 1 .. Len(Append(app.got, r)) :
                   ReadsPacket(app.by.msg, Append(app.got, r)[i])
    <3>1. app.dir \in DOMAIN made /\ app.by.msg = made[app.dir].msg
            /\ \A i \in 1 .. Len(app.got) : ReadsPacket(app.by.msg, app.got[i])
      BY <2>5, <2>12 DEF AppInv
    <3>2. ReadsPacket(app.by.msg, r) BY <2>2, <2>3, <2>9, <2>12, <3>1, LoadedIs
    <3>3. \A i \in 1 .. Len(Append(app.got, r)) : i \in 1 .. Len(app.got) \/ i = Len(app.got) + 1
      BY <2>11
    <3> QED BY <2>11, <3>1, <3>2, <3>3
  <2>13. /\ app'.dir = app.dir /\ app'.got = Append(app.got, r) /\ app'.todo = todo
         /\ app'.by = app.by
    BY <2>7
  <2> QED BY <2>5, <2>7, <2>10, <2>11, <2>12, <2>13 DEF AppInv, Intact
<1>10. CASE AppReturns BY <1>10 DEF AppReturns, AppInv
<1>11. ASSUME NEW d, Touch(d), OthersKeep PROVE AppInv'
  <2>1. app' = app /\ nsent' = nsent BY <1>11 DEF OthersKeep
  <2>2. Same BY <1>11, MadeKept
  <2> QED BY <1>1, <2>1, <2>2
<1>12. ASSUME NEW f, OthersWrite(f) PROVE AppInv' BY <1>11, <1>12 DEF OthersWrite
<1>13. ASSUME NEW d, OthersRemove(d) PROVE AppInv' BY <1>11, <1>13 DEF OthersRemove
<1> QED BY <1>6, <1>7, <1>8, <1>9, <1>10, <1>12, <1>13 DEF Next

-----------------------------------------------------------------------------
(* Theorems *)

\* The initial states satisfy the invariant.
LEMMA InitInv == Init => Inv
<1> SUFFICES ASSUME Init PROVE Inv OBVIOUS
<1>1. FInv BY FilesInitInv DEF Init
<1>2. Sequence(<< >>) /\ 1 .. Len(<< >>) = {}
  <2>1. << >> \in Seq({}) OBVIOUS
  <2> QED BY <2>1 DEF Sequence
<1>3. task = << >> /\ toApp = << >> /\ present = {} /\ reply = NoReply /\ app = NoLoad
  BY DEF Init
<1>4. DOMAIN made = {} /\ DOMAIN ports_by_no = {} /\ DOMAIN counter = {} BY DEF Init
<1>5. StepsInv BY <1>2, <1>3, Zenon DEF StepsInv
<1>6. DirsInv
  <2>1. << >> \in Seq({SwitchDir} \cup DOMAIN made) OBVIOUS
  <2> QED BY <1>3, <1>4, <2>1 DEF DirsInv
<1>7. BoundsInv BY <1>4, PacketAssumption DEF BoundsInv, Init
<1>8. FillInv
  <2>1. NoPacket(task) BY <1>2, <1>3, Zenon DEF NoPacket
  <2> QED BY <1>4, <2>1 DEF FillInv
<1>9. CountInv BY <1>4 DEF CountInv
<1>10. AppInv BY <1>3 DEF AppInv
<1>11. LabelInv
  <2>1. WritesNames(task) BY <1>3, LabelNone DEF LabelSteps
  <2>2. ASSUME NEW d \in PortDirs PROVE SaysName(d)
    <3>1. PICK r \in Replies : \E i \in DOMAIN r.ports : d = PortDir(r.ports[i]) BY DEF PortDirs
    <3>2. NameOf(d) \in Files /\ NameOf(d) \in Of(Strings) BY <3>1, PortNames
    <3>3. pending = NoWrite /\ val = [f \in Files |-> NewVal(f)] BY DEF Init, FilesInit
    <3>4. val[NameOf(d)] = << >> BY <3>2, <3>3, TypesApart DEF NewVal
    <3> QED BY <3>3, <3>4 DEF SaysName, Naming
  <2>3. IndexInv BY <1>3, PacketAssumption DEF IndexInv
  <2>4. mislabelled = FALSE BY DEF Init
  <2> QED BY <1>4, <2>1, <2>2, <2>3, <2>4 DEF LabelInv
<1> QED BY <1>1, <1>5, <1>6, <1>7, <1>8, <1>9, <1>10, <1>11 DEF Inv

\* What keeps all variables keeps the invariant.
LEMMA InvKept ==
    ASSUME Inv, UNCHANGED vars
    PROVE Inv'
<1>1. /\ UNCHANGED fileVars
      /\ UNCHANGED <<up, present, ports_by_no, counter, task, reply, starts, toApp, app, made,
                     mislabelled, nsent, writes>>
  BY DEF vars
<1>2. FInv' BY <1>1, FilesKept DEF Inv
<1>3. StepsInv' /\ DirsInv' BY <1>1 DEF Inv, StepsInv, DirsInv, Dirs
<1>4. BoundsInv' BY <1>1 DEF Inv, BoundsInv
<1>5. FillInv'
  <2>1. \A d \in DOMAIN made : Undisturbed(d) /\ made'[d].said = made[d].said
    BY <1>1 DEF Undisturbed, OnIt, fileVars
  <2> QED BY <1>1, <2>1, FillKept DEF Inv
<1>6. CountInv' BY <1>1 DEF Inv, CountInv, Counted
<1>7. AppInv' BY <1>1 DEF Inv, AppInv, Intact
<1>8. LabelInv'
  <2>1. IndexInv => IndexInv'
    BY <1>1, IndexKept DEF Inv, Labelled, Naming, fileVars
  <2>2. WritesNames(task)' = WritesNames(task) BY <1>1 DEF WritesNames
  <2>3. \A d : SaysName(d) => SaysName(d)' BY <1>1 DEF SaysName, Naming, fileVars
  <2>4. \A d : PacketNamed(d) => PacketNamed(d)' BY <1>1 DEF PacketNamed
  <2> QED BY <1>1, <2>1, <2>2, <2>3, <2>4 DEF Inv, LabelInv
<1> QED BY <1>2, <1>3, <1>4, <1>5, <1>6, <1>7, <1>8 DEF Inv

\* Each step keeps the invariant.
LEMMA InvStep ==
    ASSUME Inv, [Next]_vars
    PROVE Inv'
<1>1. CASE Next
  <2>1. FInv' BY <1>1, FilesStep
  <2>2. StepsInv' /\ DirsInv' BY <1>1, StepsStep DEF Inv
  <2>3. BoundsInv' BY <1>1, BoundsStep DEF Inv
  <2>4. FillInv' BY <1>1, FillInvStep DEF Inv
  <2>5. CountInv' BY <1>1, CountStep DEF Inv
  <2>6. AppInv' BY <1>1, AppStep DEF Inv
  <2>7. LabelInv' BY <1>1, <2>1, LabelStep
  <2> QED BY <2>1, <2>2, <2>3, <2>4, <2>5, <2>6, <2>7 DEF Inv
<1> QED BY <1>1, InvKept

\* The invariant holds of every behaviour.
LEMMA InvInvariant == Spec => []Inv
<1>1. Inv /\ [Next]_vars => Inv' BY InvStep
<1> QED BY <1>1, InitInv, PTL DEF Spec

\* The adapter makes, indexes, counts and signals no directory but those of
\* messages, and knows a switch only when its directory is there
\* (OFSwitch::OFSwitch(), handle_packet_in()), for every set of messages.
THEOREM TypeCorrect == Spec => []TypeOK
<1>1. Inv => TypeOK
  <2> SUFFICES ASSUME Inv PROVE TypeOK OBVIOUS
  <2>1. FilesTypeOK /\ up \in BOOLEAN BY DEF Inv, FInv, BoundsInv
  <2>2. present \subseteq {SwitchDir} \cup PortDirs \cup DOMAIN made BY DEF Inv, DirsInv, Dirs
  <2>3. \A p \in DOMAIN ports_by_no : ports_by_no[p] \in present BY DEF Inv, DirsInv
  <2>4. \A p \in DOMAIN counter : counter[p] \in 1 .. MaxMsgs
    <3>1. nsent \in 0 .. MaxMsgs /\ MaxMsgs \in Nat BY PacketAssumption DEF Inv, BoundsInv
    <3> QED BY <3>1 DEF Inv, BoundsInv
  <2>5. reply \in Replies \cup {NoReply} /\ (reply # NoReply /\ task = << >> => SwitchDir \in present)
    BY DEF Inv, DirsInv
  <2>6. \A i \in DOMAIN toApp : toApp[i] \in {SwitchDir} \cup DOMAIN made
    <3>1. PICK D : D = {SwitchDir} \cup DOMAIN made OBVIOUS
    <3>2. toApp \in Seq(D) BY <3>1 DEF Inv, DirsInv
    <3>3. \A i \in DOMAIN toApp : toApp[i] \in D BY <3>2
    <3> QED BY <3>1, <3>3
  <2>7. starts \in 1 .. MaxStarts /\ nsent \in 0 .. MaxMsgs /\ writes \in 0 .. MaxWrites
    BY DEF Inv, BoundsInv
  <2>8. mislabelled \in BOOLEAN BY DEF Inv, LabelInv
  <2> QED BY <2>1, <2>2, <2>3, <2>4, <2>5, <2>6, <2>7, <2>8 DEF TypeOK
<1> QED BY <1>1, InvInvariant, PTL

\* The files of a packet that is announced say what its message said, whatever
\* others write to other files while OFPacketIn's constructor fills them,
\* and however often the adapter was started.
THEOREM PacketsSayFiles == Spec => []FilesSayPacket
<1>1. Inv => FilesSayPacket
  <2> SUFFICES ASSUME Inv, NEW d \in DOMAIN made, Intact(d), NEW f \in FilesOf({d})
               PROVE LET m == made[d].msg IN
                     IF f[2] = "data"
                     THEN /\ Says(f, ShownData(f), SubSeq(m.data, 1, Copied(m)))
                          /\ made[d].new => Len(ShownData(f)) = m.total_len
                     ELSE ShownNumber(f) = m[f[2]]
    BY DEF FilesSayPacket
  <2>1. f \in Files /\ f[1] = d BY DEF FilesOf
  <2>2. /\ f[2] # "data" => /\ f \in Of(Ints) /\ sized[f] /\ val[f] = made[d].msg[f[2]]
        /\ f[2] = "data" => f = <<d, "data">> /\ f \in Of(Strings) /\ DataSays(d)
    BY <2>1, SaidFile DEF Inv
  <2>3. CASE f[2] = "data" BY <2>2, <2>3 DEF DataSays, ShownData
  <2>4. CASE f[2] # "data" BY <2>2, <2>4 DEF ShownNumber
  <2> QED BY <2>3, <2>4
<1> QED BY <1>1, InvInvariant, PTL

\* What an application finds in a directory that was complete when it began is
\* what the switch sent, also when the adapter, started again, puts another
\* packet over it or others write or remove other directories meanwhile.
THEOREM AppSees == Spec => []AppSeesPacket
<1>1. Inv => AppSeesPacket
  <2> SUFFICES ASSUME Inv, app # NoLoad, app.by # NoLoad, app.by.said,
                      made[app.dir].nth = app.by.nth, Intact(app.dir), NEW i \in DOMAIN app.got
               PROVE ReadsPacket(app.by.msg, app.got[i])
    BY DEF AppSeesPacket, ReadsPacket
  <2>1. Sequence(app.got)
          /\ \A j \in 1 .. Len(app.got) : ReadsPacket(app.by.msg, app.got[j])
    BY DEF Inv, AppInv
  <2>2. DOMAIN app.got = 1 .. Len(app.got) BY <2>1, SequenceAny
  <2> QED BY <2>1, <2>2
<1> QED BY <1>1, InvInvariant, PTL

\* Two packets of one start of the adapter get the same name and the same count
\* only if they came in at different ports (OFPacketIn::_counter is never behind
\* a directory of its port), and only if the switch did not give its ports names
\* of their own or the file of a port's name did not say it, whatever the
\* names, the ports and the packets are.
THEOREM PacketsApartHolds == Spec => PacketsApart
<1> DEFINE Apart ==
      \A d \in DOMAIN made :
          made'[d].nth # made[d].nth /\ made'[d].life = made[d].life =>
              /\ made'[d].msg.in_port # made[d].msg.in_port
              /\ NamesDiffer(reply) => mislabelled
<1>1. Inv /\ [Next]_vars => [Apart]_vars
  <2> SUFFICES ASSUME Inv, Next, NEW d \in DOMAIN made, made'[d].nth # made[d].nth,
                      made'[d].life = made[d].life
               PROVE  /\ made'[d].msg.in_port # made[d].msg.in_port
                      /\ NamesDiffer(reply) => mislabelled
    OBVIOUS
  <2>1. PICK m \in Packets : HandlePacketIn(m)
    <3> SUFFICES ASSUME \A m \in Packets : ~HandlePacketIn(m) PROVE made'[d].nth = made[d].nth
      OBVIOUS
    <3> USE DEF Inv
    <3>1. ASSUME NEW x, Touch(x) PROVE made'[d].nth = made[d].nth BY <3>1, MadeKept
    <3>2. ASSUME NEW s, DoSignal(s) PROVE made'[d].nth = made[d].nth
      <4>1. made' = IF s.dir \in DOMAIN made THEN [made EXCEPT ![s.dir].said = TRUE] ELSE made
        BY <3>2 DEF DoSignal
      <4> QED BY <4>1, MadeKept
    <3>3. ASSUME NEW s, DoMkdir(s) \/ DoWrite(s) \/ DoIndex(s) \/ DoData(s) \/ DoThrow(s)
          PROVE made' = made
      BY <3>3 DEF DoMkdir, DoWrite, DoIndex, DoData, DoThrow
    <3>4. ASSUME NEW r, HandleFeatures(r) \/ HandleConfig(r) \/ HandlePacketDies(r)
          PROVE made' = made
      BY <3>4 DEF HandleFeatures, HandleConfig, HandlePacketDies
    <3>5. CASE AdapterStep BY <3>2, <3>3, <3>4, <3>5 DEF AdapterStep
    <3>6. CASE GoOn \/ Restart \/ AppTakes \/ AppReads \/ AppReturns
      BY <3>6 DEF GoOn, Restart, AppTakes, AppReads, AppReturns, AppKeeps
    <3>7. ASSUME NEW f, OthersWrite(f) PROVE made'[d].nth = made[d].nth
      BY <3>1, <3>7 DEF OthersWrite
    <3>8. ASSUME NEW x, OthersRemove(x) PROVE made'[d].nth = made[d].nth
      BY <3>1, <3>8 DEF OthersRemove
    <3> QED BY <3>5, <3>6, <3>7, <3>8 DEF Next
  <2>2. PICK q : q = m.in_port OBVIOUS
  <2>3. PICK e : e = <<"packet_in", PortName(q), counter'[q]>> OBVIOUS
  <2>4. PICK new : new = [msg |-> m, nth |-> nsent, life |-> starts,
                          new |-> e \notin present,
                          said |-> FALSE, touched |-> FALSE]
    OBVIOUS
  <2>5. made' = Put(made, e, new) /\ counter' = Put(counter, q, Get(counter, q, 0) + 1)
    BY <2>1, <2>2, <2>3, <2>4 DEF HandlePacketIn, Count
  <2>6. d = e /\ made'[d] = new BY <2>5 DEF Put
  <2>7. new.life = starts /\ new.msg = m /\ e[3] = counter'[q]
    BY <2>3, <2>4
  <2>8. PICK p : p = made[d].msg.in_port OBVIOUS
  <2>9. made[d].life = starts /\ p \in DOMAIN counter /\ d[3] \in Int /\ d[3] <= counter[p]
    <3>1. made[d].life = starts BY <2>6, <2>7
    <3> QED BY <2>8, <3>1 DEF Inv, CountInv, Counted
  <2>10. p # q
    <3> SUFFICES ASSUME p = q PROVE FALSE OBVIOUS
    <3>1. counter'[q] = counter[q] + 1 BY <2>5, <2>9 DEF Put, Get
    <3>2. counter[q] \in Nat BY <2>9 DEF Inv, BoundsInv
    <3> QED BY <2>6, <2>7, <2>9, <3>1, <3>2
  <2>11. ASSUME NamesDiffer(reply), ~mislabelled PROVE FALSE
    <3>1. /\ made'[d].life = starts' /\ made'[d].msg.in_port = q /\ q \in DOMAIN ports_by_no
          /\ UNCHANGED <<ports_by_no, reply, starts, mislabelled>>
      BY <2>1, <2>2, <2>6, <2>7, <2>9 DEF HandlePacketIn
    <3>2. PacketNamed(d) /\ PacketNamed(d)'
      <4>1. d \in DOMAIN made' BY <2>5, <2>6 DEF Put
      <4> QED BY <2>11, <4>1, NamedStep DEF Inv, LabelInv
    <3>3. /\ p \in DOMAIN ports_by_no
          /\ \/ d[2] = ports_by_no[p][2]
             \/ d[2] = << >> /\ \E i \in DOMAIN reply.ports :
                   /\ reply.ports[i].name = << >> /\ ports_by_no[p] = PortDir(reply.ports[i])
      BY <2>8, <2>9, <3>2 DEF PacketNamed
    <3>4. \/ d[2] = ports_by_no[q][2]
          \/ d[2] = << >> /\ \E j \in DOMAIN reply.ports :
                /\ reply.ports[j].name = << >> /\ ports_by_no[q] = PortDir(reply.ports[j])
      BY <3>1, <3>2 DEF PacketNamed
    <3>5. reply \in Replies /\ ports_by_no[p] \in PortDirs /\ ports_by_no[q] \in PortDirs
      BY <3>1, <3>3 DEF Inv, DirsInv
    <3>6. \A x \in PortDirs : x = <<"ports", x[2], 0>> /\ x[2] # << >>
      <4> TAKE x \in PortDirs
      <4>1. PICK r \in Replies : \E i \in DOMAIN r.ports : x = PortDir(r.ports[i]) BY DEF PortDirs
      <4> QED BY <4>1, PortNames
    <3>7. ports_by_no[p] = ports_by_no[q]
      <4>1. CASE d[2] = << >>
        <5>1. PICK i \in DOMAIN reply.ports :
                 reply.ports[i].name = << >> /\ ports_by_no[p] = PortDir(reply.ports[i])
          BY <3>3, <3>5, <3>6, <4>1
        <5>2. PICK j \in DOMAIN reply.ports :
                 reply.ports[j].name = << >> /\ ports_by_no[q] = PortDir(reply.ports[j])
          BY <3>4, <3>5, <3>6, <4>1
        <5>3. i = j BY <2>11, <5>1, <5>2 DEF NamesDiffer
        <5> QED BY <5>1, <5>2, <5>3
      <4>2. CASE d[2] # << >>
        <5>1. ports_by_no[p][2] = d[2] /\ ports_by_no[q][2] = d[2] BY <3>3, <3>4, <4>2
        <5> QED BY <3>5, <3>6, <5>1
      <4> QED BY <4>1, <4>2
    <3>8. p = q BY <2>11, <3>1, <3>3, <3>5, <3>7 DEF Inv, LabelInv, IndexInv
    <3> QED BY <2>10, <3>8
  <2> QED BY <2>2, <2>6, <2>7, <2>8, <2>10, <2>11
<1>2. Spec => [][Apart]_vars BY <1>1, InvInvariant, PTL DEF Spec
<1> QED BY <1>2 DEF PacketsApart

=============================================================================
