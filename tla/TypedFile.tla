------------------------------ MODULE TypedFile ------------------------------
(***************************************************************************)
(* Files that hold one value: the get and set functions of fs/types.c      *)
(* behind schemafs's read, write, getattr and open, and what the C++       *)
(* bindings (Dirent, DirentEth, DirentIP32, DirentRaw) make of them.       *)
(*                                                                         *)
(* An entry keeps a value and a size.  A write parses the text into the    *)
(* value; a read formats the value again and the kernel cuts the text to   *)
(* the size.  truncate() does nothing, so opening a file to write it over  *)
(* empties nothing.  A write that is taken in part goes on with the rest,  *)
(* one request after the other.                                            *)
(*                                                                         *)
(* The sscanf() of addresses and the trimming of strings look past the end *)
(* of the request, at what an earlier and longer one left there: every     *)
(* outcome that can have is allowed.  Numbers are terminated first.        *)
(*                                                                         *)
(* The text of a number or address is a record: form, n, mask (-1 for      *)
(* none) and closed, whether it ends in a newline.  An address is its head,*)
(* its last byte and its mask, 0 for Ethernet.  One client writes at a     *)
(* time.                                                                   *)
(***************************************************************************)
EXTENDS Integers, Sequences

CONSTANTS
    Files,          \* files of the directories a message is made from
    TypeOf,         \* the schema's type of a file
    Modulus,        \* number of values of an integer type
    Octets,         \* last bytes of addresses
    Masks,          \* lengths of prefixes
    Chars,          \* characters of strings and bytes of raw data
    Blank,          \* the character that is white space
    Texts,          \* what clients write into a file
    Undef,          \* what a variable holds that was never set
    Unsure,         \* no promise about what is read
    NoWrite         \* no string is being written

Signed == {"i8", "i16", "i32", "i64"}
Ints == Signed \cup {"u8", "u16", "u32", "u64"}
Addrs == {"eth", "ip32"}
Strings == {"str", "raw", "compound"}

Zero == <<0, 0, 0>>

\* The files of a set of types.
Of(T) == {f \in Files : TypeOf[f] \in T}

ASSUME FilesAssumption ==
    /\ TypeOf \in [Files -> Ints \cup Addrs \cup Strings]
    /\ Modulus \in [Ints -> Nat]
    /\ \A t \in Ints : Modulus[t] > 0 /\ Modulus[t] % 2 = 0
    /\ Octets \subseteq Nat /\ Masks \subseteq Nat /\ 32 \in Masks
    /\ Blank \in Chars
    /\ \A f \in Of(Strings) : Texts[f] \subseteq Seq(Chars) \ {<< >>}
    /\ \A f \in Of(Ints) : \A t \in Texts[f] : t.n \in Int
    /\ \A f \in Of(Addrs) : \A t \in Texts[f] :
          t.n \in Nat \X Octets /\ t.mask \in Masks \cup {-1}
    /\ Undef \notin Int
    /\ NoWrite \notin [file : Files, text : Seq(Chars), at : Nat]

VARIABLES
    val,            \* SchemaEnt's value
    sized,          \* its size covers the text (Len(val) for strings)
    asked,          \* what the last write into a file promised to readers
    pending         \* the string being written, and how much of it was taken

fileVars == <<val, sized, asked, pending>>

\* A new entry has no text to read.
NewVal(f) == IF f \in Of(Ints) THEN 0 ELSE IF f \in Of(Addrs) THEN Zero ELSE << >>
NewSized(f) == f \in Of(Strings)

FilesInit ==
    /\ val = [f \in Files |-> NewVal(f)]
    /\ sized = [f \in Files |-> NewSized(f)]
    /\ asked = [f \in Files |-> Unsure]
    /\ pending = NoWrite

-----------------------------------------------------------------------------
\* sscanf() with %hhu, %d and the like keeps the low bits.
Wrap(t, n) ==
    LET r == n % Modulus[t] IN
    IF t \in Signed /\ 2 * r >= Modulus[t] THEN r - Modulus[t] ELSE r

Fits(t, n) ==
    IF t \in Signed THEN -Modulus[t] <= 2 * n /\ 2 * n < Modulus[t]
    ELSE 0 <= n /\ n < Modulus[t]

\* Digits or a mask may go on in what is left behind an unclosed text.
Last(t) == IF t.closed THEN {t.n[2]} ELSE Octets

\* The addresses sscanf() may find.  Without a mask, _set_ip32() takes 32.
Scanned(f, t) ==
    IF TypeOf[f] = "eth" THEN {<<t.n[1], l, 0>> : l \in Last(t)}
    ELSE IF t.mask # -1
         THEN {<<t.n[1], t.n[2], m>> : m \in IF t.closed THEN {t.mask} ELSE Masks}
         ELSE {<<t.n[1], l, m>> : l \in Last(t),
                                  m \in IF t.closed THEN {32} ELSE Masks}

\* What the writer of an address means.
Meant(f, t) ==
    <<t.n[1], t.n[2],
      IF TypeOf[f] = "eth" THEN 0 ELSE IF t.mask = -1 THEN 32 ELSE t.mask>>

\* Mutant: the size is left alone.
StoreUnsized(f, v) == val' = [val EXCEPT ![f] = v] /\ UNCHANGED sized

Store(f, v) ==
    val' = [val EXCEPT ![f] = v] /\ sized' = [sized EXCEPT ![f] = TRUE]

Promise(f, p) == asked' = [asked EXCEPT ![f] = p]

\* _set_u8() to _set_i64(); the offset makes no difference.
SetNumber(f, t) ==
    /\ f \in Of(Ints) /\ t.form = "number"
    /\ Store(f, Wrap(TypeOf[f], t.n))
    /\ Promise(f, IF Fits(TypeOf[f], t.n) THEN t.n ELSE Unsure)

\* _set_mac() and _set_ip32() of a full address.
SetAddress(f, t) ==
    /\ f \in Of(Addrs) /\ t.form = "address"
    /\ \E v \in Scanned(f, t) : Store(f, v)
    /\ Promise(f, IF t.closed THEN Meant(f, t) ELSE Unsure)

\* _set_mac() of a single number leaves the size alone.
SetMacNumber(f, t) ==
    /\ f \in Of({"eth"}) /\ t.form = "number"
    /\ \E l \in Last(t) : val' = [val EXCEPT ![f] = <<t.n[1], l, 0>>]
    /\ Promise(f, Unsure)
    /\ UNCHANGED sized

\* EINVAL for what does not parse, ENOSPC for a number of 1023 bytes, and for
\* the single number whatever errno was left at.
Refuse(f, t) ==
    /\ \/ f \in Of(Ints) /\ t.form \in {"junk", "long"}
       \/ f \in Of(Addrs) /\ t.form = "junk"
       \/ f \in Of({"ip32"}) /\ t.form = "number"
       \/ f \in Of({"eth"}) /\ t.form = "number"
    /\ UNCHANGED <<val, sized, asked>>

\* A string or raw data is sent in requests.
BeginString(f, t) ==
    /\ f \in Of(Strings)
    /\ pending' = [file |-> f, text |-> t, at |-> 0]
    /\ Promise(f, Unsure)
    /\ UNCHANGED <<val, sized>>

Write(f, t) ==
    /\ pending = NoWrite
    /\ \/ (SetNumber(f, t) \/ SetAddress(f, t) \/ SetMacNumber(f, t) \/ Refuse(f, t))
          /\ UNCHANGED pending
       \/ BeginString(f, t)

-----------------------------------------------------------------------------
\* _set_raw(): the data grows as far as the request reaches, and never shrinks.
Overlay(old, new, o) ==
    [i \in 1 .. (IF o + Len(new) > Len(old) THEN o + Len(new) ELSE Len(old)) |->
        IF o < i /\ i <= o + Len(new) THEN new[i - o] ELSE old[i]]

\* How many characters of white space s begins with.
Blanks(s) ==
    {n \in 0 .. Len(s) : /\ \A i \in 1 .. n : s[i] = Blank
                         /\ n < Len(s) => s[n + 1] # Blank}

\* How much _set_str() keeps of s.  It looks at the byte behind s first; when
\* that is white space it drops the last byte of s, whatever it is, and goes on
\* as long as what it drops is white space.
Kept(s, spaceBehind) ==
    IF s = << >> \/ ~spaceBehind THEN {Len(s)}
    ELSE {n \in 0 .. Len(s) - 1 : /\ n > 0 => s[n + 1] # Blank
                                  /\ \A i \in n + 2 .. Len(s) : s[i] = Blank}

\* What of a request s is stored.
Taken(f, s, spaceBehind) ==
    IF TypeOf[f] # "str" THEN {s}
    ELSE UNION {{SubSeq(s, b + 1, b + n) :
                    n \in Kept(SubSeq(s, b + 1, Len(s)), spaceBehind)} :
                       b \in Blanks(s)}

\* A string that begins with white space is not kept as it was written.
Plain(f, t) == TypeOf[f] = "str" => t # << >> /\ t[1] # Blank

\* One request.  The client counts what was taken from the front of its text,
\* also when the white space there was skipped; taking nothing is an error.
WriteRest ==
    /\ pending # NoWrite
    /\ LET f == pending.file
           t == pending.text
           rest == SubSeq(t, pending.at + 1, Len(t))
       IN \E behind \in BOOLEAN : \E s \in Taken(f, rest, behind) :
             LET at == pending.at + Len(s) IN
             /\ val' = [val EXCEPT ![f] = Overlay(@, s, pending.at)]
             /\ pending' = IF s = << >> \/ at = Len(t) THEN NoWrite
                           ELSE [pending EXCEPT !.at = at]
             /\ Promise(f, IF at = Len(t) /\ Plain(f, t) THEN t ELSE Unsure)
    /\ UNCHANGED sized

-----------------------------------------------------------------------------
\* A directory is made: its files D are new.
MakeFiles(D) ==
    /\ val' = [f \in Files |-> IF f \in D THEN NewVal(f) ELSE val[f]]
    /\ sized' = [f \in Files |-> IF f \in D THEN NewSized(f) ELSE sized[f]]
    /\ asked' = [f \in Files |-> IF f \in D THEN Unsure ELSE asked[f]]
    /\ UNCHANGED pending

-----------------------------------------------------------------------------
\* The value a reader of the file's text finds, if any: nothing of a value is
\* shown while its size is zero; data is as long as its size.
ShownNumber(f) == IF sized[f] THEN val[f] ELSE Undef
ShownAddress(f) == IF sized[f] THEN val[f] ELSE Undef
ShownData(f) == val[f]

Shown(f) ==
    IF f \in Of(Ints) THEN ShownNumber(f)
    ELSE IF f \in Of(Addrs) THEN ShownAddress(f) ELSE ShownData(f)

\* Dirent<uint8_t> and Dirent<int8_t> read one character.
Lead[n \in Nat] == IF n < 10 THEN n ELSE Lead[n \div 10]
FirstChar(n) == IF n < 0 THEN 45 ELSE 48 + Lead[n]

\* What the C++ bindings read.  From an empty file Dirent<T> reads nothing into
\* a variable it never set; Eth and IP32 are zero then.
ReadNumber(f) ==
    IF ~sized[f] THEN Undef
    ELSE IF f \in Of({"u8", "i8"}) THEN FirstChar(val[f]) ELSE val[f]

ReadAddress(f) == IF sized[f] THEN val[f] ELSE Zero

\* Dirent<std::string> and DirentRaw read as much as there is.
ReadText(f) == val[f]

Read(f) ==
    IF f \in Of(Ints) THEN ReadNumber(f)
    ELSE IF f \in Of(Addrs) THEN ReadAddress(f) ELSE ReadText(f)

\* v is what a write promised p: for strings and data it begins so, for the
\* tail of a longer one may follow.
Says(f, v, p) ==
    IF f \in Of(Strings) THEN Len(p) <= Len(v) /\ SubSeq(v, 1, Len(p)) = p
    ELSE v = p

(***************************************************************************)
(* Properties                                                              *)
(***************************************************************************)
\* The value, size and write in progress of every file have their types; a
\* string being written was not taken whole yet.
FilesTypeOK ==
    /\ val = [f \in Files |-> val[f]]
    /\ \A f \in Files : val[f] \in IF f \in Of(Ints) THEN Int
                                   ELSE IF f \in Of(Addrs) THEN Nat \X Nat \X Nat
                                   ELSE Seq(Chars)
    /\ sized \in [Files -> BOOLEAN]
    /\ asked = [f \in Files |-> asked[f]]
    /\ pending # NoWrite =>
          /\ pending.file \in Of(Strings)
          /\ pending.text \in Seq(Chars)
          /\ pending.at \in 0 .. Len(pending.text) - 1

\* What a write of fs/types.c accepted is what a reader gets, until the next
\* write of the same file: numbers that fit their type, addresses that end in
\* a newline, and strings that do not begin with white space, whatever the
\* byte behind a request was and however often the rest was sent again.
WrittenReadsBack ==
    \A f \in Files : asked[f] # Unsure => Says(f, Shown(f), asked[f])

=============================================================================
