---------------------------- MODULE AddrconfPath ----------------------------
(***************************************************************************)
(* ni_objectmodel_addrconf_path_to_device (dbus-objects/addrconf.c): the  *)
(* ifindex a lease signal's object path names.                            *)
(*                                                                         *)
(* A path is a sequence of tokens, never of characters:                    *)
(*   "root"       the text of WICKED_DBUS_OBJECT_PATH,                     *)
(*   "/"          one slash,                                               *)
(*   "Interface"  the text "Interface",                                    *)
(*   "word"       any other text without a slash,                          *)
(*   "0", "1" ... the decimal text of a number (no slash either).         *)
(* strncmp of a prefix, the scan up to the next '/' and ni_parse_int of   *)
(* the rest are modelled on these tokens.                                  *)
(***************************************************************************)
EXTENDS Integers, Sequences, TLC

CONSTANT MaxIndex      \* the largest number a path token may hold

Numbers == 0..MaxIndex
Digits  == {ToString(n) : n \in Numbers}
Tokens  == {"root", "/", "Interface", "word"} \cup Digits

\* The result of a rejected path (the function returns NULL).
NoIndex == -1

\* The end of the string reached while scanning ('\0').
EndOfPath == <<"nul">>

\* ni_parse_int(path, &ifindex): the rest of the path must be one number.
ParseInt(q) ==
    IF Len(q) = 1 /\ q[1] \in Digits
    THEN CHOOSE n \in Numbers : ToString(n) = q[1]
    ELSE NoIndex

\* Mutation: the scan stops at the '/' but does not step over it.
RECURSIVE SkipSegmentKeepSlash(_)
SkipSegmentKeepSlash(p) ==
    IF p = <<>> THEN EndOfPath
    ELSE IF Head(p) = "/" THEN p
    ELSE SkipSegmentKeepSlash(Tail(p))

\* while ((cc = *path++) != '/') if (cc == '\0') return NULL;
\* The rest of the path after the first '/', or EndOfPath.
RECURSIVE SkipSegment(_)
SkipSegment(p) ==
    IF p = <<>> THEN EndOfPath
    ELSE IF Head(p) = "/" THEN Tail(p)
    ELSE SkipSegment(Tail(p))

\* The index the path names, or NoIndex: the prefix, its '/', the
\* <something> segment, "Interface/" and the number, in the code's order.
PathToIfindex(p) ==
    IF Len(p) < 2 \/ p[1] # "root" \/ p[2] # "/" THEN NoIndex
    ELSE LET r == SkipSegment(SubSeq(p, 3, Len(p)))
         IN  IF r = EndOfPath THEN NoIndex
             ELSE IF Len(r) < 2 \/ r[1] # "Interface" \/ r[2] # "/" THEN NoIndex
             ELSE ParseInt(SubSeq(r, 3, Len(r)))

-----------------------------------------------------------------------------
(* The documented form, WICKED_DBUS_OBJECT_PATH "/" <something>           *)
(* "/Interface/" <index>, with <something> free of slashes.               *)
DocumentedPath(p, n) ==
    \E j \in 2..Len(p) :
        /\ SubSeq(p, 1, 2) = <<"root", "/">>
        /\ \A x \in 3..j : p[x] # "/"
        /\ SubSeq(p, j + 1, Len(p)) = <<"/", "Interface", "/", ToString(n)>>

DocumentedIndex(p) ==
    IF \E n \in Numbers : DocumentedPath(p, n)
    THEN CHOOSE n \in Numbers : DocumentedPath(p, n)
    ELSE NoIndex

=============================================================================
