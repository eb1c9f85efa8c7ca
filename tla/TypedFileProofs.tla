--------------------------- MODULE TypedFileProofs ---------------------------
(***************************************************************************)
(* Files that hold one value keep an invariant of their own (FInv),        *)
(* whoever writes them: a promise that was made of a file is kept, and what*)
(* a string that is being written has put into its file is a prefix of the *)
(* text, the rest of which does not begin with white space.  FlowPath and  *)
(* PacketPath rest on it.                                                  *)
(***************************************************************************)
EXTENDS TypedFile, SequenceTheorems, TLAPS

-----------------------------------------------------------------------------
(* Arithmetic and sequences *)

\* The remainder of a number by a larger one.
LEMMA SmallRemainder ==
    ASSUME NEW n \in Nat, NEW m \in Nat, n < m
    PROVE n % m = n
OBVIOUS

\* The remainder of a negative number by one that is as large.
LEMMA NegativeRemainder ==
    ASSUME NEW n \in Int, NEW m \in Nat, n < 0, -m <= n
    PROVE n % m = n + m
OBVIOUS

\* Wrap() returns integers, and a number that fits as it is.
LEMMA WrapFits ==
    ASSUME NEW t \in Ints, NEW n \in Int
    PROVE /\ Wrap(t, n) \in Int
          /\ Fits(t, n) => Wrap(t, n) = n
<1> DEFINE M == Modulus[t]
<1>1. M \in Nat /\ M > 0 BY FilesAssumption
<1>2. n % M \in 0 .. M - 1 BY <1>1
<1> HIDE DEF M
<1>3. Wrap(t, n) = IF t \in Signed /\ 2 * (n % M) >= M THEN (n % M) - M ELSE n % M
  BY DEF Wrap, M
<1>4. Wrap(t, n) \in Int BY <1>1, <1>2, <1>3
<1>5. ASSUME Fits(t, n) PROVE Wrap(t, n) = n
  <2>1. CASE t \in Signed /\ n < 0
    <3>1. -M <= 2 * n BY <1>5, <2>1 DEF Fits, M
    <3>2. n % M = n + M BY <1>1, <2>1, <3>1, NegativeRemainder
    <3> QED BY <1>1, <1>3, <2>1, <3>1, <3>2
  <2>2. CASE t \in Signed /\ n >= 0
    <3>1. 2 * n < M BY <1>5, <2>2 DEF Fits, M
    <3>2. n % M = n BY <1>1, <2>2, <3>1, SmallRemainder
    <3> QED BY <1>1, <1>3, <2>2, <3>1, <3>2
  <2>3. CASE t \notin Signed
    <3>1. 0 <= n /\ n < M BY <1>5, <2>3 DEF Fits, M
    <3>2. n % M = n BY <1>1, <3>1, SmallRemainder
    <3> QED BY <1>3, <2>3, <3>2
  <2> QED BY <2>1, <2>2, <2>3
<1> QED BY <1>4, <1>5

\* Data laid over data that reaches at least to its front.
LEMMA OverlayLemma ==
    ASSUME NEW S, NEW old \in Seq(S), NEW new \in Seq(S), NEW o \in 0 .. Len(old)
    PROVE LET v == Overlay(old, new, o) IN
          /\ v \in Seq(S)
          /\ o + Len(new) <= Len(v)
          /\ \A i \in 1 .. o : v[i] = old[i]
          /\ \A i \in 1 .. Len(new) : v[o + i] = new[i]
<1> DEFINE L == IF o + Len(new) > Len(old) THEN o + Len(new) ELSE Len(old)
           v == Overlay(old, new, o)
<1>1. L \in Nat /\ o + Len(new) <= L /\ Len(old) <= L OBVIOUS
<1>2. v = [i \in 1 .. L |-> IF o < i /\ i <= o + Len(new) THEN new[i - o] ELSE old[i]]
  BY DEF Overlay
<1>3. \A i \in 1 .. L : v[i] \in S
  <2> SUFFICES ASSUME NEW i \in 1 .. L PROVE v[i] \in S OBVIOUS
  <2>1. CASE o < i /\ i <= o + Len(new)
    <3>1. i - o \in 1 .. Len(new) BY <2>1
    <3> QED BY <1>2, <2>1, <3>1
  <2>2. CASE ~(o < i /\ i <= o + Len(new))
    <3>1. i \in 1 .. Len(old) BY <2>2
    <3> QED BY <1>2, <2>2, <3>1
  <2> QED BY <2>1, <2>2
<1>4. v \in Seq(S) /\ Len(v) = L
  <2> HIDE DEF L, v
  <2>1. v \in [1 .. L -> S] BY <1>2, <1>3
  <2> QED BY <1>1, <2>1
<1>5. \A i \in 1 .. o : v[i] = old[i]
  <2> SUFFICES ASSUME NEW i \in 1 .. o PROVE v[i] = old[i] OBVIOUS
  <2>1. i \in 1 .. L /\ ~(o < i) BY <1>1
  <2> QED BY <1>2, <2>1
<1>6. \A i \in 1 .. Len(new) : v[o + i] = new[i]
  <2> SUFFICES ASSUME NEW i \in 1 .. Len(new) PROVE v[o + i] = new[i] OBVIOUS
  <2>1. o + i \in 1 .. L /\ o < o + i /\ o + i <= o + Len(new) /\ (o + i) - o = i BY <1>1
  <2> QED BY <1>2, <2>1
<1> QED BY <1>1, <1>4, <1>5, <1>6

\* A sequence, whatever it is of.
Sequence(s) == \E S : s \in Seq(S)

\* Sequences are functions on their indices.
LEMMA SequenceAny ==
    ASSUME NEW s, Sequence(s)
    PROVE Len(s) \in Nat /\ DOMAIN s = 1 .. Len(s) /\ s = [i \in 1 .. Len(s) |-> s[i]]
<1>1. PICK S : s \in Seq(S) BY DEF Sequence
<1> QED BY <1>1

\* And functions on the first numbers are sequences.
LEMMA FunctionAny ==
    ASSUME NEW n \in Nat, NEW s, s = [i \in 1 .. n |-> s[i]]
    PROVE Sequence(s) /\ Len(s) = n
<1> DEFINE S == {s[i] : i \in 1 .. n}
<1>1. \A i \in 1 .. n : s[i] \in S OBVIOUS
<1> HIDE DEF S
<1>2. s \in [1 .. n -> S] BY <1>1
<1>3. s \in Seq(S) /\ Len(s) = n BY <1>2
<1> QED BY <1>3 DEF Sequence

\* One more in a sequence.
LEMMA AppendAny ==
    ASSUME NEW s, Sequence(s), NEW e
    PROVE /\ Sequence(Append(s, e))
          /\ Len(Append(s, e)) = Len(s) + 1 /\ Append(s, e)[Len(s) + 1] = e
          /\ \A i \in 1 .. Len(s) : Append(s, e)[i] = s[i]
          /\ \A i \in DOMAIN Append(s, e) :
                \/ i \in DOMAIN s /\ Append(s, e)[i] = s[i]
                \/ Append(s, e)[i] = e
<1>1. PICK S : s \in Seq(S) BY DEF Sequence
<1> DEFINE T == S \cup {e}
           a == Append(s, e)
<1>2. s \in Seq(T) /\ e \in T
  <2>1. s \in [1 .. Len(s) -> S] /\ Len(s) \in Nat BY <1>1
  <2>2. s \in [1 .. Len(s) -> T] BY <2>1
  <2> QED BY <2>1, <2>2
<1> HIDE DEF T
<1>3. /\ a \in Seq(T) /\ Len(a) = Len(s) + 1
      /\ \A i \in 1 .. Len(s) : a[i] = s[i]
      /\ a[Len(s) + 1] = e
  BY <1>2, AppendProperties
<1> HIDE DEF a
<1>4. DOMAIN a = 1 .. Len(s) + 1 /\ DOMAIN s = 1 .. Len(s) /\ Len(s) \in Nat BY <1>2, <1>3
<1>5. \A i \in DOMAIN a : (i \in DOMAIN s /\ a[i] = s[i]) \/ a[i] = e BY <1>3, <1>4
<1>6. Sequence(a) BY <1>3 DEF Sequence
<1> QED BY <1>3, <1>5, <1>6 DEF a

\* What is left of a sequence.
LEMMA TailAny ==
    ASSUME NEW s, Sequence(s), s # << >>
    PROVE /\ Sequence(Tail(s)) /\ Len(Tail(s)) = Len(s) - 1 /\ Len(s) \in Nat \ {0}
          /\ Head(s) = s[1]
          /\ \A i \in 1 .. Len(s) - 1 : Tail(s)[i] = s[i + 1]
<1>1. PICK S : s \in Seq(S) BY DEF Sequence
<1>2. Tail(s) \in Seq(S) BY <1>1
<1>3. Len(s) \in Nat \ {0} BY <1>1
<1> QED BY <1>1, <1>2, <1>3 DEF Sequence

\* u is s and then t.
IsConcat(u, s, t) ==
    /\ Sequence(u) /\ Len(u) = Len(s) + Len(t)
    /\ Len(s) \in Nat /\ Len(t) \in Nat
    /\ \A i \in 1 .. Len(s) : u[i] = s[i]
    /\ \A i \in 1 .. Len(t) : u[Len(s) + i] = t[i]

\* One sequence after the other.
LEMMA ConcatAny ==
    ASSUME NEW s, Sequence(s), NEW t, Sequence(t)
    PROVE IsConcat(s \o t, s, t)
<1>1. PICK S : s \in Seq(S) BY DEF Sequence
<1>2. PICK T : t \in Seq(T) BY DEF Sequence
<1> DEFINE U == S \cup T
<1>3. s \in Seq(U) /\ t \in Seq(U)
  <2>1. s \in [1 .. Len(s) -> S] /\ Len(s) \in Nat BY <1>1
  <2>2. t \in [1 .. Len(t) -> T] /\ Len(t) \in Nat BY <1>2
  <2>3. s \in [1 .. Len(s) -> U] /\ t \in [1 .. Len(t) -> U] BY <2>1, <2>2
  <2> QED BY <2>1, <2>2, <2>3
<1> HIDE DEF U
<1>4. s \o t \in Seq(U) /\ Len(s \o t) = Len(s) + Len(t)
        /\ \A i \in 1 .. Len(s) + Len(t) :
              (s \o t)[i] = IF i <= Len(s) THEN s[i] ELSE t[i - Len(s)]
  BY <1>3, ConcatProperties
<1>5. Len(s) \in Nat /\ Len(t) \in Nat BY <1>3
<1>6. \A i \in 1 .. Len(s) : (s \o t)[i] = s[i] BY <1>4, <1>5
<1>7. \A i \in 1 .. Len(t) : (s \o t)[Len(s) + i] = t[i]
  <2> TAKE i \in 1 .. Len(t)
  <2>1. Len(s) + i \in 1 .. Len(s) + Len(t) /\ ~(Len(s) + i <= Len(s))
          /\ (Len(s) + i) - Len(s) = i
    BY <1>5
  <2> QED BY <1>4, <2>1
<1>8. Sequence(s \o t) BY <1>4 DEF Sequence
<1> QED BY <1>4, <1>5, <1>6, <1>7, <1>8 DEF IsConcat

\* A sequence of one.
LEMMA OneAny ==
    ASSUME NEW e
    PROVE Sequence(<<e>>) /\ Len(<<e>>) = 1 /\ <<e>>[1] = e
<1>1. <<e>> \in Seq({e}) OBVIOUS
<1> QED BY <1>1 DEF Sequence

-----------------------------------------------------------------------------
(* Files *)

\* The values of a file.
Vals(f) == IF f \in Of(Ints) THEN Int
           ELSE IF f \in Of(Addrs) THEN Nat \X Nat \X Nat ELSE Seq(Chars)

\* What is read of a string or of data that was never written is empty.
StringsSized == \A f \in Of(Strings) : sized[f]

PromisesHold == \A f \in Files : asked[f] # Unsure => sized[f] /\ Says(f, val[f], asked[f])

\* How far the string being written has come.
Underway ==
    pending # NoWrite =>
        LET f == pending.file
            t == pending.text
            at == pending.at
        IN /\ at <= Len(val[f])
           /\ Plain(f, t) => \A i \in 1 .. at : val[f][i] = t[i]
           /\ Plain(f, t) /\ TypeOf[f] = "str" => t[at + 1] # Blank

FInv == FilesTypeOK /\ StringsSized /\ PromisesHold /\ Underway

\* The types of files exclude each other.
LEMMA TypesApart ==
    /\ \A f \in Of(Strings) : f \in Files /\ f \notin Of(Ints) /\ f \notin Of(Addrs)
    /\ \A f \in Of(Addrs) : f \in Files /\ f \notin Of(Ints)
    /\ \A f \in Files : f \in Of(Ints) \/ f \in Of(Addrs) \/ f \in Of(Strings)
BY FilesAssumption DEF Of, Ints, Signed, Addrs, Strings

\* The files' invariant holds at first.
LEMMA FilesInitInv == FilesInit => FInv
<1> SUFFICES ASSUME FilesInit PROVE FInv OBVIOUS
<1>1. FilesTypeOK
  <2>1. \A f \in Files : val[f] \in Vals(f)
    <3> SUFFICES ASSUME NEW f \in Files PROVE val[f] \in Vals(f) OBVIOUS
    <3>1. << >> \in Seq(Chars) OBVIOUS
    <3>2. Zero \in Nat \X Nat \X Nat BY DEF Zero
    <3>3. CASE f \in Of(Ints) BY <3>3 DEF FilesInit, NewVal, NewSized, Vals
    <3>4. CASE f \in Of(Addrs) BY <3>2, <3>4, TypesApart DEF FilesInit, NewVal, NewSized, Vals
    <3>5. CASE f \in Of(Strings) BY <3>1, <3>5, TypesApart DEF FilesInit, NewVal, NewSized, Vals
    <3> QED BY <3>3, <3>4, <3>5, TypesApart
  <2> QED BY <2>1 DEF FilesInit, NewVal, NewSized, FilesTypeOK, Vals
<1>2. StringsSized BY TypesApart DEF FilesInit, NewVal, NewSized, StringsSized
<1>3. PromisesHold /\ Underway BY DEF FilesInit, NewVal, NewSized, PromisesHold, Underway
<1> QED BY <1>1, <1>2, <1>3 DEF FInv

\* No file changes.
LEMMA FilesKept == FInv /\ UNCHANGED fileVars => FInv'
BY DEF fileVars, FInv, FilesTypeOK, StringsSized, PromisesHold, Underway, Says, Plain

\* A whole value is put into a file of numbers or addresses.
LEMMA StoreInv ==
    ASSUME FInv, pending = NoWrite, NEW f \in Files, f \notin Of(Strings),
           NEW v \in Vals(f), NEW p,
           val' = [val EXCEPT ![f] = v], sized' \in {sized, [sized EXCEPT ![f] = TRUE]},
           p # Unsure => sized'[f] /\ Says(f, v, p),
           Promise(f, p), UNCHANGED pending
    PROVE FInv'
<1> USE DEF FInv
<1>1. FilesTypeOK'
  <2>1. val' = [g \in Files |-> val'[g]] BY DEF FilesTypeOK
  <2>2. \A g \in Files : val'[g] \in Vals(g) BY DEF FilesTypeOK, Vals
  <2>3. sized' \in [Files -> BOOLEAN] BY DEF FilesTypeOK
  <2>4. asked' = [g \in Files |-> asked'[g]] BY DEF FilesTypeOK, Promise
  <2> QED BY <2>1, <2>2, <2>3, <2>4 DEF FilesTypeOK, Vals
<1>2. StringsSized' BY TypesApart DEF StringsSized, FilesTypeOK
<1>3. PromisesHold'
  <2> SUFFICES ASSUME NEW g \in Files, asked'[g] # Unsure
               PROVE sized'[g] /\ Says(g, val'[g], asked'[g])
    BY DEF PromisesHold, Says
  <2>1. CASE g = f BY <2>1 DEF Promise, FilesTypeOK
  <2>2. CASE g # f
    <3>1. val'[g] = val[g] /\ asked'[g] = asked[g] /\ sized'[g] = sized[g]
      BY <2>2 DEF Promise, FilesTypeOK
    <3> QED BY <3>1 DEF PromisesHold
  <2> QED BY <2>1, <2>2
<1>4. Underway' BY DEF Underway
<1> QED BY <1>1, <1>2, <1>3, <1>4

\* A text of the kind that f takes.
IsText(f, t) ==
    /\ f \in Of(Ints) => t.n \in Int
    /\ f \in Of(Addrs) => t.n \in Nat \X Octets /\ t.mask \in Masks \cup {-1}
    /\ f \in Of(Strings) => t \in Seq(Chars) \ {<< >>}

\* What clients write are such texts.
LEMMA TextsAreTexts == \A f \in Files : \A t \in Texts[f] : IsText(f, t)
BY FilesAssumption DEF IsText

\* Numbers and addresses, whether they parse or not.
LEMMA WriteValueInv ==
    ASSUME FInv, pending = NoWrite, NEW f \in Files, NEW t, IsText(f, t),
           UNCHANGED pending,
           SetNumber(f, t) \/ SetAddress(f, t) \/ SetMacNumber(f, t) \/ Refuse(f, t)
    PROVE FInv'
<1>1. CASE SetNumber(f, t)
  <2>1. f \in Of(Ints) /\ TypeOf[f] \in Ints /\ t.n \in Int
    BY <1>1 DEF SetNumber, Of, IsText
  <2> DEFINE v == Wrap(TypeOf[f], t.n)
             p == IF Fits(TypeOf[f], t.n) THEN t.n ELSE Unsure
  <2>2. v \in Int /\ (Fits(TypeOf[f], t.n) => v = t.n) BY <2>1, WrapFits
  <2>3. v \in Vals(f) /\ f \notin Of(Strings) BY <2>1, <2>2, TypesApart DEF Vals
  <2>4. val' = [val EXCEPT ![f] = v] /\ sized' = [sized EXCEPT ![f] = TRUE] /\ Promise(f, p)
    BY <1>1 DEF SetNumber, Store
  <2>5. p # Unsure => sized'[f] /\ Says(f, v, p)
    BY <2>2, <2>3, <2>4 DEF Says, FInv, FilesTypeOK
  <2> HIDE DEF v, p
  <2> QED BY <2>3, <2>4, <2>5, StoreInv
<1>2. CASE SetAddress(f, t)
  <2>1. f \in Of(Addrs) /\ f \notin Of(Strings) /\ f \notin Of(Ints)
    BY <1>2, TypesApart DEF SetAddress
  <2>2. t.n \in Nat \X Octets /\ t.mask \in Masks \cup {-1}
    BY <2>1 DEF IsText
  <2>3. t.n[1] \in Nat /\ t.n[2] \in Octets /\ Octets \subseteq Nat /\ Masks \subseteq Nat
          /\ 32 \in Masks
    BY <2>2, FilesAssumption
  <2>4. PICK v \in Scanned(f, t) : Store(f, v) BY <1>2 DEF SetAddress
  <2> DEFINE p == IF t.closed THEN Meant(f, t) ELSE Unsure
  <2>5. Last(t) \subseteq Nat BY <2>3 DEF Last
  <2>6. v \in Nat \X Nat \X Nat
    <3>1. CASE TypeOf[f] = "eth" BY <2>3, <2>4, <2>5, <3>1 DEF Scanned
    <3>2. CASE TypeOf[f] # "eth" /\ t.mask # -1
      <4>1. \A m \in IF t.closed THEN {t.mask} ELSE Masks : m \in Nat BY <2>2, <2>3, <3>2
      <4>2. PICK m \in IF t.closed THEN {t.mask} ELSE Masks : v = <<t.n[1], t.n[2], m>>
        BY <2>4, <3>2 DEF Scanned
      <4> QED BY <2>3, <4>1, <4>2
    <3>3. CASE TypeOf[f] # "eth" /\ t.mask = -1
      <4>1. \A m \in IF t.closed THEN {32} ELSE Masks : m \in Nat BY <2>3
      <4>2. PICK l \in Last(t), m \in IF t.closed THEN {32} ELSE Masks : v = <<t.n[1], l, m>>
        BY <2>4, <3>3 DEF Scanned
      <4> QED BY <2>3, <2>5, <4>1, <4>2
    <3> QED BY <3>1, <3>2, <3>3
  <2>7. v \in Vals(f) BY <2>1, <2>6 DEF Vals
  <2>8. t.closed => v = Meant(f, t) BY <2>4 DEF Scanned, Meant, Last
  <2>9. Promise(f, p) BY <1>2 DEF SetAddress
  <2>10. p # Unsure => sized'[f] /\ Says(f, v, p)
    BY <2>1, <2>4, <2>8 DEF Says, FInv, FilesTypeOK, Store
  <2> HIDE DEF p
  <2> QED BY <2>1, <2>4, <2>7, <2>9, <2>10, StoreInv DEF Store
<1>3. CASE SetMacNumber(f, t)
  <2>1. f \in Of(Addrs) /\ f \notin Of(Strings) /\ f \notin Of(Ints)
    BY <1>3, TypesApart DEF SetMacNumber, Of, Addrs
  <2>2. t.n[1] \in Nat /\ t.n[2] \in Octets /\ Octets \subseteq Nat
    BY <2>1, FilesAssumption DEF IsText
  <2>3. PICK l \in Last(t) : val' = [val EXCEPT ![f] = <<t.n[1], l, 0>>]
    BY <1>3 DEF SetMacNumber
  <2> DEFINE v == <<t.n[1], l, 0>>
  <2>4. v \in Vals(f) BY <2>1, <2>2 DEF Vals, Last
  <2>5. Promise(f, Unsure) /\ sized' = sized /\ val' = [val EXCEPT ![f] = v]
    BY <1>3, <2>3 DEF SetMacNumber
  <2> HIDE DEF v
  <2> QED BY <2>1, <2>4, <2>5, StoreInv
<1>4. CASE Refuse(f, t)
  BY <1>4 DEF Refuse, FInv, FilesTypeOK, StringsSized, PromisesHold, Underway, Says
<1> QED BY <1>1, <1>2, <1>3, <1>4

\* The write of a string begins.
LEMMA BeginStringInv ==
    ASSUME FInv, NEW f \in Files, NEW t, IsText(f, t), BeginString(f, t)
    PROVE FInv'
<1> USE DEF FInv
<1>1. f \in Of(Strings) /\ t \in Seq(Chars) /\ t # << >>
  BY DEF BeginString, IsText
<1>2. pending' = [file |-> f, text |-> t, at |-> 0] /\ UNCHANGED <<val, sized>>
        /\ asked' = [asked EXCEPT ![f] = Unsure]
  BY DEF BeginString, Promise
<1>3. 0 \in 0 .. Len(t) - 1 BY <1>1
<1>4. FilesTypeOK' BY <1>1, <1>2, <1>3 DEF FilesTypeOK
<1>5. StringsSized' BY <1>2 DEF StringsSized
<1>6. PromisesHold'
  BY <1>2 DEF PromisesHold, Says, FilesTypeOK
<1>7. Underway'
  <2>1. val[f] \in Seq(Chars) BY <1>1, TypesApart DEF FilesTypeOK
  <2>2. 0 <= Len(val[f]) BY <2>1
  <2>3. Plain(f, t) /\ TypeOf[f] = "str" => t[0 + 1] # Blank BY DEF Plain
  <2> QED BY <1>2, <2>2, <2>3 DEF Underway, Plain
<1> QED BY <1>4, <1>5, <1>6, <1>7

\* A write keeps the invariant, whatever becomes of it.
LEMMA WriteInv ==
    ASSUME FInv, NEW f \in Files, NEW t, IsText(f, t), Write(f, t)
    PROVE FInv'
<1>1. CASE BeginString(f, t) BY <1>1, BeginStringInv
<1>2. CASE /\ SetNumber(f, t) \/ SetAddress(f, t) \/ SetMacNumber(f, t) \/ Refuse(f, t)
           /\ UNCHANGED pending
  <2>1. pending = NoWrite BY DEF Write
  <2> QED BY <1>2, <2>1, WriteValueInv
<1> QED BY <1>1, <1>2 DEF Write

\* So does making a directory, while no string is written.
LEMMA MakeFilesInv ==
    ASSUME FInv, pending = NoWrite, NEW D, MakeFiles(D)
    PROVE FInv'
<1> USE DEF FInv
<1>1. \A f \in Files : NewVal(f) \in Vals(f)
  <2> SUFFICES ASSUME NEW f \in Files PROVE NewVal(f) \in Vals(f) OBVIOUS
  <2>1. CASE f \in Of(Ints) BY <2>1 DEF NewVal, Vals
  <2>2. CASE f \in Of(Addrs)
    <3>1. Zero \in Nat \X Nat \X Nat BY DEF Zero
    <3> QED BY <2>2, <3>1, TypesApart DEF NewVal, Vals
  <2>3. CASE f \in Of(Strings)
    <3>1. << >> \in Seq(Chars) OBVIOUS
    <3> QED BY <2>3, <3>1, TypesApart DEF NewVal, Vals
  <2> QED BY <2>1, <2>2, <2>3, TypesApart
<1>2. FilesTypeOK'
  <2>1. \A f \in Files : val'[f] \in Vals(f)
    BY <1>1 DEF MakeFiles, FilesTypeOK, Vals
  <2>2. sized' \in [Files -> BOOLEAN]
    <3>1. \A f \in Files : NewSized(f) \in BOOLEAN BY DEF NewSized
    <3> QED BY <3>1 DEF MakeFiles, FilesTypeOK
  <2> QED BY <2>1, <2>2 DEF MakeFiles, FilesTypeOK, Vals
<1>3. StringsSized' BY TypesApart DEF MakeFiles, StringsSized, NewSized
<1>4. PromisesHold' BY DEF MakeFiles, PromisesHold, Says
<1>5. Underway' BY DEF MakeFiles, Underway
<1> QED BY <1>2, <1>3, <1>4, <1>5

\* The white space a text begins with, when it begins with none.
LEMMA NoBlanks ==
    ASSUME NEW s \in Seq(Chars), s # << >>, s[1] # Blank
    PROVE Blanks(s) = {0}
<1>1. \A n \in Blanks(s) : n = 0
  <2> SUFFICES ASSUME NEW n \in Blanks(s), n # 0 PROVE FALSE OBVIOUS
  <2>1. n \in 0 .. Len(s) /\ \A i \in 1 .. n : s[i] = Blank BY DEF Blanks
  <2>2. 1 \in 1 .. n BY <2>1
  <2> QED BY <2>1, <2>2
<1>2. 0 \in Blanks(s)
  <2>1. 0 \in 0 .. Len(s) OBVIOUS
  <2>2. s[0 + 1] # Blank OBVIOUS
  <2> QED BY <2>1, <2>2 DEF Blanks
<1> QED BY <1>1, <1>2

\* What is taken of a request is no longer than it.
LEMMA TakenType ==
    ASSUME NEW f \in Files, NEW r \in Seq(Chars), NEW b \in BOOLEAN, NEW s \in Taken(f, r, b)
    PROVE s \in Seq(Chars) /\ Len(s) <= Len(r)
<1>1. CASE TypeOf[f] # "str" BY <1>1 DEF Taken
<1>2. CASE TypeOf[f] = "str"
  <2>1. PICK k \in Blanks(r) : \E n \in Kept(SubSeq(r, k + 1, Len(r)), b) :
                                  s = SubSeq(r, k + 1, k + n)
    BY <1>2 DEF Taken
  <2> DEFINE u == SubSeq(r, k + 1, Len(r))
  <2>2. k \in 0 .. Len(r) BY <2>1 DEF Blanks
  <2>3. u \in Seq(Chars) /\ Len(u) = Len(r) - k BY <2>2
  <2> HIDE DEF u
  <2>4. PICK n \in Kept(u, b) : s = SubSeq(r, k + 1, k + n) BY <2>1 DEF u
  <2>5. n \in 0 .. Len(u) BY <2>3, <2>4 DEF Kept
  <2> QED BY <2>2, <2>3, <2>4, <2>5
<1> QED BY <1>1, <1>2

\* A string that is written from a character that is not white space is taken
\* to its end, or to the next such character, or not at all.
LEMMA TakenPlain ==
    ASSUME NEW f \in Files, NEW r \in Seq(Chars), NEW b \in BOOLEAN, NEW s \in Taken(f, r, b),
           r # << >>, TypeOf[f] = "str" => r[1] # Blank
    PROVE /\ \A i \in 1 .. Len(s) : s[i] = r[i]
          /\ s # << >> /\ Len(s) < Len(r) /\ TypeOf[f] = "str" => r[Len(s) + 1] # Blank
<1>1. CASE TypeOf[f] # "str" BY <1>1 DEF Taken
<1>2. CASE TypeOf[f] = "str"
  <2>1. Blanks(r) = {0} BY <1>2, NoBlanks
  <2>2. SubSeq(r, 0 + 1, Len(r)) = r OBVIOUS
  <2>3. PICK n \in Kept(r, b) : s = SubSeq(r, 0 + 1, 0 + n) BY <1>2, <2>1, <2>2 DEF Taken
  <2>4. n \in 0 .. Len(r) BY <2>3 DEF Kept
  <2>5. Len(s) = n /\ \A i \in 1 .. n : s[i] = r[i] BY <2>3, <2>4
  <2>6. n > 0 /\ n < Len(r) => r[n + 1] # Blank BY <2>3, <2>4 DEF Kept
  <2>7. s # << >> => n > 0 BY <2>3, <2>4
  <2> QED BY <2>5, <2>6, <2>7
<1> QED BY <1>1, <1>2

\* The rest of a text.
LEMMA RestLemma ==
    ASSUME NEW S, NEW t \in Seq(S), NEW o \in 0 .. Len(t) - 1
    PROVE LET r == SubSeq(t, o + 1, Len(t)) IN
          /\ r \in Seq(S) /\ Len(r) = Len(t) - o /\ r # << >>
          /\ \A i \in 1 .. Len(r) : r[i] = t[o + i]
<1> DEFINE r == SubSeq(t, o + 1, Len(t))
<1>1. Len(t) \in Nat /\ o + 1 \in 1 .. Len(t) OBVIOUS
<1>2. r \in Seq(S) /\ Len(r) = Len(t) - o BY <1>1
<1>3. \A i \in 1 .. Len(r) : r[i] = t[o + i] BY <1>1, <1>2
<1>4. r # << >>
  <2> HIDE DEF r
  <2>1. Len(r) # 0 BY <1>1, <1>2
  <2> QED BY <2>1
<1> QED BY <1>2, <1>3, <1>4

\* A request of a string, or of raw data.
LEMMA WriteRestInv ==
    ASSUME FInv, WriteRest
    PROVE FInv'
<1> USE DEF FInv
<1> DEFINE f == pending.file
           t == pending.text
           o == pending.at
           r == SubSeq(t, o + 1, Len(t))
<1>1. pending # NoWrite BY DEF WriteRest
<1>2. f \in Of(Strings) /\ f \in Files /\ f \notin Of(Ints) /\ f \notin Of(Addrs)
        /\ t \in Seq(Chars) /\ o \in 0 .. Len(t) - 1
  BY <1>1, TypesApart DEF FilesTypeOK
<1>3. val[f] \in Seq(Chars) /\ o <= Len(val[f])
  BY <1>1, <1>2 DEF FilesTypeOK, Underway
<1>4. r \in Seq(Chars) /\ Len(r) = Len(t) - o /\ r # << >>
        /\ \A i \in 1 .. Len(r) : r[i] = t[o + i]
  BY <1>2, RestLemma
<1> DEFINE Result(s) ==
             /\ val' = [val EXCEPT ![f] = Overlay(@, s, o)]
             /\ pending' = IF s = << >> \/ o + Len(s) = Len(t) THEN NoWrite
                           ELSE [pending EXCEPT !.at = o + Len(s)]
             /\ Promise(f, IF o + Len(s) = Len(t) /\ Plain(f, t) THEN t ELSE Unsure)
             /\ UNCHANGED sized
<1>15. PICK b \in BOOLEAN : \E s \in Taken(f, r, b) : Result(s)
  BY DEF WriteRest
<1>5. PICK s \in Taken(f, r, b) : Result(s)
  BY <1>15
<1>6. s \in Seq(Chars) /\ Len(s) <= Len(r) BY <1>2, <1>4, <1>5, TakenType
<1> DEFINE v == Overlay(val[f], s, o)
           at == o + Len(s)
           P == Plain(f, t)
<1> HIDE DEF f, t, o, r, v, P
<1>7. /\ v \in Seq(Chars) /\ at <= Len(v)
      /\ \A i \in 1 .. o : v[i] = val[f][i]
      /\ \A i \in 1 .. Len(s) : v[o + i] = s[i]
  <2>1. o \in 0 .. Len(val[f]) BY <1>2, <1>3
  <2> QED BY <1>3, <1>6, <2>1, OverlayLemma DEF v
<1>8. /\ val' = [val EXCEPT ![f] = v]
      /\ asked' = [asked EXCEPT ![f] = IF at = Len(t) /\ P THEN t ELSE Unsure]
      /\ sized' = sized
  BY <1>5 DEF v, P, Promise, FilesTypeOK
<1>9. P => /\ \A i \in 1 .. o : val[f][i] = t[i]
           /\ TypeOf[f] = "str" => t[o + 1] # Blank
  BY <1>1 DEF Underway, P, f, t, o
<1>10. P => \A i \in 1 .. at : v[i] = t[i]
  <2> SUFFICES ASSUME P, NEW i \in 1 .. at PROVE v[i] = t[i] OBVIOUS
  <2>1. CASE i <= o
    <3>1. i \in 1 .. o BY <1>2, <2>1
    <3> QED BY <1>7, <1>9, <3>1
  <2>2. CASE i > o
    <3> DEFINE j == i - o
    <3>1. j \in 1 .. Len(s) /\ i = o + j /\ j \in 1 .. Len(r) BY <1>2, <1>4, <1>6, <2>2
    <3>2. TypeOf[f] = "str" => r[1] # Blank
      <4>1. 1 \in 1 .. Len(r) BY <1>2, <1>4
      <4> QED BY <1>4, <1>9, <4>1
    <3>3. s[j] = r[j] BY <1>2, <1>4, <1>5, <3>1, <3>2, TakenPlain
    <3>4. v[o + j] = s[j] BY <1>7, <3>1
    <3>5. r[j] = t[o + j] BY <1>4, <3>1
    <3> HIDE DEF j
    <3> QED BY <3>1, <3>3, <3>4, <3>5
  <2> QED BY <1>2, <1>6, <2>1, <2>2
<1>11. FilesTypeOK'
  <2>1. val' = [g \in Files |-> val'[g]] BY <1>8 DEF FilesTypeOK
  <2>2. \A g \in Files : val'[g] \in Vals(g)
    BY <1>2, <1>7, <1>8 DEF FilesTypeOK, Vals
  <2>3. asked' = [g \in Files |-> asked'[g]] BY <1>8 DEF FilesTypeOK
  <2>4. pending' # NoWrite => /\ pending'.file \in Of(Strings)
                              /\ pending'.text \in Seq(Chars)
                              /\ pending'.at \in 0 .. Len(pending'.text) - 1
    <3> SUFFICES ASSUME pending' # NoWrite
                 PROVE /\ pending'.file \in Of(Strings) /\ pending'.text \in Seq(Chars)
                       /\ pending'.at \in 0 .. Len(pending'.text) - 1
      OBVIOUS
    <3>1. at # Len(t) /\ pending' = [pending EXCEPT !.at = at] BY <1>5 DEF f, t, o
    <3>2. at \in 0 .. Len(t) - 1 BY <1>2, <1>4, <1>6, <3>1
    <3> QED BY <1>2, <3>1, <3>2 DEF f, t, o
  <2> QED BY <1>8, <2>1, <2>2, <2>3, <2>4 DEF FilesTypeOK, Vals
<1>12. StringsSized' BY <1>8 DEF StringsSized
<1>13. PromisesHold'
  <2> SUFFICES ASSUME NEW g \in Files, asked'[g] # Unsure
               PROVE sized'[g] /\ Says(g, val'[g], asked'[g])
    BY DEF PromisesHold, Says
  <2>1. CASE g # f
    <3>1. val'[g] = val[g] /\ asked'[g] = asked[g] BY <1>8, <2>1 DEF FilesTypeOK
    <3> QED BY <1>8, <3>1 DEF PromisesHold
  <2>2. CASE g = f
    <3>1. at = Len(t) /\ P /\ asked'[f] = t BY <1>2, <1>8, <2>2 DEF FilesTypeOK
    <3>2. val'[f] = v BY <1>2, <1>8 DEF FilesTypeOK
    <3>3. Len(t) <= Len(v) /\ SubSeq(v, 1, Len(t)) = t
      <4>1. Len(t) \in Nat /\ Len(t) <= Len(v) BY <1>2, <1>7, <3>1
      <4>2. \A i \in 1 .. Len(t) : v[i] = t[i] BY <1>10, <3>1
      <4>3. SubSeq(v, 1, Len(t)) \in Seq(Chars) /\ Len(SubSeq(v, 1, Len(t))) = Len(t)
        BY <1>7, <4>1
      <4>4. \A i \in 1 .. Len(t) : SubSeq(v, 1, Len(t))[i] = t[i] BY <1>7, <4>1, <4>2
      <4> QED BY <1>2, <4>1, <4>3, <4>4
    <3>4. sized[f] BY <1>2 DEF StringsSized
    <3> QED BY <1>2, <1>8, <2>2, <3>1, <3>2, <3>3, <3>4 DEF Says
  <2> QED BY <2>1, <2>2
<1>14. Underway'
  <2> SUFFICES ASSUME pending' # NoWrite PROVE Underway' BY DEF Underway
  <2>1. s # << >> /\ at # Len(t) /\ pending' = [pending EXCEPT !.at = at] BY <1>5 DEF f, t, o
  <2>2. pending'.file = f /\ pending'.text = t /\ pending'.at = at
    BY <1>1, <2>1 DEF f, t, o, FilesTypeOK
  <2>3. val'[f] = v BY <1>2, <1>8 DEF FilesTypeOK
  <2>4. P /\ TypeOf[f] = "str" => t[at + 1] # Blank
    <3> SUFFICES ASSUME P, TypeOf[f] = "str" PROVE t[at + 1] # Blank OBVIOUS
    <3>1. Len(s) < Len(r) /\ Len(s) + 1 \in 1 .. Len(r) BY <1>2, <1>4, <1>6, <2>1
    <3>2. r[1] # Blank
      <4>1. 1 \in 1 .. Len(r) BY <3>1
      <4> QED BY <1>4, <1>9, <4>1
    <3>3. r[Len(s) + 1] # Blank BY <1>2, <1>4, <1>5, <2>1, <3>1, <3>2, TakenPlain
    <3>4. o + (Len(s) + 1) = at + 1 BY <1>2, <1>6
    <3> QED BY <1>4, <3>1, <3>3, <3>4
  <2> QED BY <1>7, <1>10, <2>2, <2>3, <2>4 DEF Underway, P, Plain
<1> QED BY <1>11, <1>12, <1>13, <1>14

=============================================================================
