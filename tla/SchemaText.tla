----------------------------- MODULE SchemaText -----------------------------
(***************************************************************************)
(* The schema of a file system: fs/schema.l and fs/schema.y, which make it *)
(* of a text, and fs/libschema.c, which packs it into a buffer, unpacks it,*)
(* searches it and prints it.                                              *)
(*                                                                         *)
(* A list of siblings is a sequence of [name, type, children], NULL is the *)
(* empty one.  A text is the sequence of its words: white space, comments  *)
(* and the characters of names are left out.  The parent of an entry is    *)
(* where it is; that of a parsed root is never set and never looked at.    *)
(***************************************************************************)
EXTENDS Integers, Sequences

CONSTANTS
    BufCells,       \* packed entries that fit into BUFSIZ bytes
    Wild            \* what is found where nothing was put

SchemaTypes == <<"u8", "u16", "u32", "u64", "i8", "i16", "i32", "i64", "str", "raw",
                 "ln", "eth", "ip32", "object", "subdir", "compound">>

Punctuation == {"{", "}", "\"", "'", ";"}

\* What the scanner makes of a word; "link" is a name.
TypeWords ==
    [w \in {"u8", "u16", "u32", "u64", "i8", "i16", "i32", "i64", "str", "raw",
            "linke", "ln", "eth", "mac", "ip32", "compound"} |->
        CASE w = "linke" -> "ln" [] w = "mac" -> "eth" [] OTHER -> w]

IsType(w) == w \in DOMAIN TypeWords
IsName(w) == ~IsType(w) /\ w \notin Punctuation

-----------------------------------------------------------------------------
\* The words from i on are ws.
At(text, i, ws) ==
    /\ i + Len(ws) - 1 <= Len(text)
    /\ \A j \in DOMAIN ws : IF ws[j] = "NAME" THEN IsName(text[i + j - 1])
                                               ELSE ws[j] = text[i + j - 1]

Failed == [ok |-> FALSE, list |-> << >>, next |-> 0]

\* The rules of schema.y, which yacc follows with one word of lookahead.
RECURSIVE Entries(_, _), Directory(_, _, _, _)

Directory(text, i, name, type) ==
    LET inner == Entries(text, i) IN
    IF ~inner.ok \/ ~At(text, inner.next, <<"}">>) THEN Failed
    ELSE LET more == Entries(text, inner.next + 1) IN
         IF ~more.ok THEN Failed
         ELSE [more EXCEPT !.list = <<[name |-> name, type |-> type,
                                       children |-> inner.list]>> \o @]

Entries(text, i) ==
    IF i <= Len(text) /\ IsType(text[i]) /\ At(text, i + 1, <<"NAME", ";">>)
    THEN LET more == Entries(text, i + 3) IN
         IF ~more.ok THEN Failed
         ELSE [more EXCEPT !.list = <<[name |-> text[i + 1], type |-> TypeWords[text[i]],
                                       children |-> << >>]>> \o @]
    ELSE IF At(text, i, <<"NAME", "{">>) THEN Directory(text, i + 2, text[i], "object")
    ELSE IF At(text, i, <<"'", "NAME", "'", "{">>) \/ At(text, i, <<"\"", "NAME", "\"", "{">>)
    THEN Directory(text, i + 4, text[i + 1], "subdir")
    ELSE [ok |-> TRUE, list |-> << >>, next |-> i]

\* yyparse(): parsed_schema is set when all of the text was parsed.
Parse(text) ==
    LET all == Entries(text, 1) IN
    IF all.ok /\ all.next = Len(text) + 1
    THEN <<[name |-> "/", type |-> "subdir", children |-> all.list]>>
    ELSE << >>

-----------------------------------------------------------------------------
\* Mutant: the entry is counted as one that follows itself.
NextsAndSelf(list) == Len(list)

\* schema_len(schema->next) of the first of list.
Nexts(list) == Len(list) - 1

HasChildren(s) == s.type \in {"object", "subdir"}

\* _pack()
RECURSIVE Cells(_)
Cells(list) ==
    IF list = << >> THEN << >>
    ELSE LET s == Head(list) IN
         <<[type |-> s.type, n_children |-> Len(s.children), n_next |-> Nexts(list),
            name |-> s.name]>>
         \o (IF HasChildren(s) THEN Cells(s.children) ELSE << >>)
         \o Cells(Tail(list))

\* schema_pack(): when the buffer must grow, what comes after is written where
\* the buffer was, which is good only if realloc() did not move it.  The end
\* that is returned is that of the buffer.
Pack(list) ==
    LET cells == Cells(list) IN
    {cells} \cup IF Len(cells) <= BufCells THEN {}
                 ELSE {SubSeq(cells, 1, BufCells) \o [i \in 1 .. Len(cells) - BufCells |-> Wild]}

\* _unpack(): one entry, its children and those that follow it.
RECURSIVE Unpacked(_)
Unpacked(packed) ==
    IF packed = << >> \/ Head(packed) = Wild THEN [list |-> <<Wild>>, left |-> << >>]
    ELSE LET c == Head(packed)
             in == IF HasChildren(c) /\ c.n_children # 0 THEN Unpacked(Tail(packed))
                   ELSE [list |-> << >>, left |-> Tail(packed)]
             more == IF c.n_next = 0 THEN [list |-> << >>, left |-> in.left]
                     ELSE Unpacked(in.left)
         IN [list |-> <<[name |-> c.name, type |-> c.type, children |-> in.list]>> \o more.list,
             left |-> more.left]

Unpack(packed) == Unpacked(packed).list

\* schema_search() of an absolute path, from the root.  The first of two
\* siblings with one name is found.
RECURSIVE Search(_, _)
Search(list, path) ==
    IF path = << >> THEN list[1]
    ELSE LET found == SelectSeq(list[1].children, LAMBDA s : s.name = Head(path)) IN
         IF found = << >> THEN Wild ELSE Search(found, Tail(path))

\* _schema_typenames, and what the type's number finds there.
TypeNames == <<"u8", "u16", "u32", "u64", "str", "raw", "ln", "eth", "ip32", "object", "subdir">>

Printed(type) ==
    LET i == CHOOSE i \in DOMAIN SchemaTypes : SchemaTypes[i] = type
    IN IF i \in DOMAIN TypeNames THEN TypeNames[i] ELSE Wild

\* schema_printf(): a line for each entry, indented by its level.
RECURSIVE Lines(_, _)
Lines(list, level) ==
    IF list = << >> THEN << >>
    ELSE IF Head(list) = Wild THEN <<Wild>>
    ELSE LET s == Head(list) IN
         <<[level |-> level, type |-> Printed(s.type), name |-> s.name]>>
         \o (IF HasChildren(s) THEN Lines(s.children, level + 1) ELSE << >>)
         \o Lines(Tail(list), level)

=============================================================================
