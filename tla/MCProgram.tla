----------------------------- MODULE MCProgram -----------------------------
(***************************************************************************)
(* Argument vectors of no to seven words.  Numbers are sequences of digits *)
(* whose value is zero, inside, at and just past the limit, and large      *)
(* enough to overflow a seven-bit word at the product, at the sum, or only *)
(* at a later digit; one has a character that is no digit and one is       *)
(* empty.  One vector of each command is followed to the end, with the     *)
(* table sizes of the program, a target that may be empty or shrink twice, *)
(* and reports of two writes.                                              *)
(***************************************************************************)
EXTENDS Program

NotDigit == -1      \* as in CommandLine
Plain(text) == [text |-> text, chars |-> <<NotDigit>>]
Number(chars) == [text |-> "number", chars |-> chars]

Numerals == {Number(<<>>), Number(<<0>>), Number(<<0, 7>>), Number(<<1, 2>>), Number(<<1, 3>>),
             Number(<<6, 9>>), Number(<<1, 2, 8>>), Number(<<1, 2, 9>>), Number(<<1, 3, 1>>),
             Number(<<1, NotDigit>>)}

Texts == {Plain(t) : t \in {"--max-depth", "--format", "json", "text", "target"}}

Short == UNION {[1 .. n -> Texts \cup {Plain(t) : t \in {"help", "version", "info", "mitigations",
                                                         "gadgets", "analyze"}}] : n \in 0 .. 3}

Scan == {Plain("gadgets"), Plain("analyze")}

OneOption == {<<c, f, v, t>> : c \in Scan, f \in Texts, v \in Texts \cup Numerals,
                              t \in Texts}

TwoOptions == {<<c, f, v, g, w, Plain("target")>> :
                  c \in Scan, f \in Texts, v \in Texts \cup Numerals,
                  g \in Texts, w \in Texts \cup Numerals}

Long == {<<c, f, v, f, v, Plain("target"), Plain("target")>> :
            c \in Scan, f \in Texts, v \in Texts}

MCFollowed == {<<Plain(c), Plain("target")>> : c \in {"info", "mitigations", "gadgets", "analyze"}}

MCVectors == Short \cup OneOption \cup TwoOptions \cup Long
=============================================================================
