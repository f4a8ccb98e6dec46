------------------------------ MODULE Tokenizer ------------------------------
(***************************************************************************)
(* The tokenizer of build.rs (Token::next and its recognizers, the         *)
(* Tokenizer iterator) as pure operators, next to a reference tokenizer    *)
(* written from section 4.1 of the specification.                          *)
(*                                                                         *)
(* A text is a sequence of symbols.  A symbol is one character or one      *)
(* keyword/marker the recognizers test as a whole ("typedef", "const",     *)
(* "#ifdef ", "/*", ...): the recognizers only ever look at such prefixes  *)
(* and at single characters, so the abstraction keeps every decision they  *)
(* take.  "sp" and "nl" are a space and a line break.  A token is its      *)
(* TokenType, its identifier (a sequence of symbols, <<>> for "") and the  *)
(* length of its span; the span itself is the text's prefix of that       *)
(* length.  NoToken is the None of Token::next, Panic the panic of an      *)
(* unwrap/expect inside a recognizer.                                      *)
(***************************************************************************)
EXTENDS Naturals, Sequences, SequencesExt

Whitespace == {"sp", "nl"}
(* char::is_alphanumeric() || c == '_' ; keywords are alphanumeric runs *)
IdChars == {"a", "b", "_", "typedef", "const", "void", "struct"}

NoToken == [tt |-> "None", id |-> <<>>, len |-> 0]
Panic   == [tt |-> "Panic", id |-> <<>>, len |-> 0]

Tok(tt, id, len) == [tt |-> tt, id |-> id, len |-> len]

StartsWith(s, sym) == s # <<>> /\ Head(s) = sym

(* Until::until / until_incl: the length of the prefix before (through) *)
(* the first occurrence of sym, or -1 for None                          *)
UntilLen(s, sym) == SelectInSeq(s, LAMBDA c : c = sym) - 1
UntilInclLen(s, sym) ==
    IF SelectInSeq(s, LAMBDA c : c = sym) = 0 THEN -1
    ELSE SelectInSeq(s, LAMBDA c : c = sym)
(* `.unwrap_or(s)` on an until *)
LineLen(s) == IF UntilLen(s, "nl") < 0 THEN Len(s) ELSE UntilLen(s, "nl")

(* the longest run of symbols of S at the start / at the end of s *)
LeadRun(s, S) ==
    IF SelectInSeq(s, LAMBDA c : c \notin S) = 0 THEN Len(s)
    ELSE SelectInSeq(s, LAMBDA c : c \notin S) - 1
(* the first whitespace-delimited word of s starts its non-space run *)
WordLen(s) ==
    IF SelectInSeq(s, LAMBDA c : c \in Whitespace) = 0 THEN Len(s)
    ELSE SelectInSeq(s, LAMBDA c : c \in Whitespace) - 1
TrailId(s) == SubSeq(s, Len(s) - LeadRun(Reverse(s), IdChars) + 1, Len(s))

-----------------------------------------------------------------------------
(* Token::whitespace *)
WhitespaceTok(s) ==
    IF LeadRun(s, Whitespace) > 0 THEN Tok("Whitespace", <<>>, LeadRun(s, Whitespace))
    ELSE NoToken

(* Token::comment: a block comment through "*/" (or to the end), a line *)
(* comment up to, not including, the line break                         *)
CommentTok(s) ==
    CASE StartsWith(s, "/*") ->
            Tok("Comment", <<>>, IF UntilInclLen(s, "*/") < 0 THEN Len(s)
                                 ELSE UntilInclLen(s, "*/"))
      [] StartsWith(s, "//") -> Tok("Comment", <<>>, LineLen(s))
      [] OTHER -> NoToken

(* Token::prepr_endif / prepr_else: the span runs to the line break *)
PreprEndifTok(s) == IF StartsWith(s, "#endif") THEN Tok("PreprEndif", <<>>, LineLen(s)) ELSE NoToken
PreprElseTok(s)  == IF StartsWith(s, "#else") THEN Tok("PreprElse", <<>>, LineLen(s)) ELSE NoToken

(* Token::prepr_include / include, the quoted form first.  Its           *)
(* until_incl("\"") finds the quote that ends `#include "` itself, so    *)
(* the span is those 10 bytes and &span[10..9] panics on every quoted     *)
(* include.  The angle form's id lies between the delimiters, and an      *)
(* unterminated one fails the expect().                                   *)
PreprIncludeTok(s) ==
    CASE StartsWith(s, "#include\"") -> Panic
      [] ~StartsWith(s, "#include<") -> NoToken
      [] UntilInclLen(s, ">") < 0    -> Panic
      [] OTHER -> Tok("PreprInclude", SubSeq(s, 2, UntilInclLen(s, ">") - 1),
                      UntilInclLen(s, ">"))

(* Token::prepr_define: the id is the first whitespace-delimited word of  *)
(* the line after "#define " (its unwrap panics on an empty line); the    *)
(* token is private when the text after "#define " starts with '_'        *)
PreprDefineTok(s) ==
    LET line == SubSeq(s, 2, LineLen(s))
        word == SubSeq(line, LeadRun(line, Whitespace) + 1, Len(line))
        name == SubSeq(word, 1, WordLen(word))
    IN CASE ~StartsWith(s, "#define ") -> NoToken
         [] name = <<>>                -> Panic
         [] OTHER -> Tok(IF StartsWith(Tail(s), "_") THEN "PrivateToken" ELSE "PreprDefine",
                         name, LineLen(s))

(* Token::prepr_if: the whole line is both the span and the id *)
PreprIfTok(s) ==
    IF StartsWith(s, "#ifdef ") THEN Tok("PreprIf", SubSeq(s, 1, LineLen(s)), LineLen(s))
    ELSE NoToken

(* the loop of Token::typedef: the length through the first ';' at brace *)
(* depth 0 (the depth may go negative), or the whole text                *)
RECURSIVE TypedefLen(_, _, _)
TypedefLen(s, i, depth) ==
    CASE i > Len(s)                  -> Len(s)
      [] s[i] = ";" /\ depth = 0     -> i
      [] s[i] = "{"                  -> TypedefLen(s, i + 1, depth + 1)
      [] s[i] = "}"                  -> TypedefLen(s, i + 1, depth - 1)
      [] OTHER                       -> TypedefLen(s, i + 1, depth)

(* Token::typedef: the id is the identifier run before the span's last *)
(* character; a leading '_' makes the token private                    *)
TypedefTok(s) ==
    LET n  == TypedefLen(s, 1, 0)
        id == TrailId(SubSeq(s, 1, n - 1))
    IN IF ~StartsWith(s, "typedef") THEN NoToken
       ELSE Tok(IF StartsWith(id, "_") THEN "PrivateToken" ELSE "Typedef", id, n)

(* Token::const: any span through the next ';' that contains "const" *)
ConstTok(s) ==
    LET n == UntilInclLen(s, ";") IN
    IF n > 0 /\ "const" \in ToSet(SubSeq(s, 1, n))
    THEN Tok("Const", TrailId(SubSeq(s, 1, n - 1)), n)
    ELSE NoToken

(* Token::function: any span through the next ';' that contains '('; the *)
(* id is the identifier run before the LAST '(' of the span              *)
FunctionTok(s) ==
    LET n    == UntilInclLen(s, ";")
        span == SubSeq(s, 1, n)
        open == SelectLastInSeq(span, LAMBDA c : c = "(")
    IN IF n > 0 /\ open > 0 THEN Tok("Function", TrailId(SubSeq(span, 1, open - 1)), n)
       ELSE NoToken

(* the first recognizer of the list that matches *)
FirstMatch(rs) ==
    LET i == SelectInSeq(rs, LAMBDA t : t # NoToken)
    IN IF i = 0 THEN NoToken ELSE rs[i]

(* mutant: the function recognizer is tried before the const one *)
NextTokenFunctionFirst(s) ==
    FirstMatch(<<WhitespaceTok(s), CommentTok(s), PreprEndifTok(s), PreprIncludeTok(s),
                 PreprDefineTok(s), PreprIfTok(s), PreprElseTok(s), TypedefTok(s),
                 FunctionTok(s), ConstTok(s)>>)

(* Token::next: whitespace, comment, endif, include, define, if, else, *)
(* typedef, const, function, in this order                            *)
NextToken(s) ==
    FirstMatch(<<WhitespaceTok(s), CommentTok(s), PreprEndifTok(s), PreprIncludeTok(s),
                 PreprDefineTok(s), PreprIfTok(s), PreprElseTok(s), TypedefTok(s),
                 ConstTok(s), FunctionTok(s)>>)

(* the tokens the Tokenizer iterator yields from s before it stops; it  *)
(* stops at the end of the text or panics where Token::next fails       *)
Yields(s) == NextToken(s) \notin {NoToken, Panic}
RECURSIVE Tokenize(_)
Tokenize(s) ==
    IF s = <<>> \/ ~Yields(s) THEN <<>>
    ELSE <<NextToken(s)>> \o Tokenize(SubSeq(s, NextToken(s).len + 1, Len(s)))

(* what is left of s where the iterator stops: <<>> at the end of the  *)
(* text, the unparsable rest where Tokenizer::next panics              *)
RECURSIVE Residue(_)
Residue(s) ==
    IF s = <<>> \/ ~Yields(s) THEN s ELSE Residue(SubSeq(s, NextToken(s).len + 1, Len(s)))

-----------------------------------------------------------------------------
(* The reference: section 4.1 of the specification, one recognizer per    *)
(* item of its list, written from its text and tried in its order.       *)
SpecWhitespaceTok(s) ==
    IF LeadRun(s, Whitespace) = 0 THEN NoToken
    ELSE Tok("Whitespace", <<>>, LeadRun(s, Whitespace))

(* a comment runs through its closing marker: "*/" (or the end of the    *)
(* input) for a block comment, the line break for a line comment          *)
SpecCommentTok(s) ==
    LET through(m) == IF m \in ToSet(s) THEN UntilInclLen(s, m) ELSE Len(s)
    IN  CASE StartsWith(s, "/*") -> Tok("Comment", <<>>, through("*/"))
          [] StartsWith(s, "//") -> Tok("Comment", <<>>, through("nl"))
          [] OTHER               -> NoToken

(* a conditional, matched by its leading keyword, spans its line; the   *)
(* #if family keeps that line as its identifier                        *)
SpecConditionalTok(s) ==
    CASE StartsWith(s, "#endif") -> Tok("PreprEndif", <<>>, LineLen(s))
      [] \E k \in {"#if ", "#ifdef ", "#ifndef "} : StartsWith(s, k) ->
            Tok("PreprIf", SubSeq(s, 1, LineLen(s)), LineLen(s))
      [] StartsWith(s, "#else")  -> Tok("PreprElse", <<>>, LineLen(s))
      [] OTHER -> NoToken

(* #include "X" and #include <X>: through the closing delimiter, the id   *)
(* is the path between the two                                           *)
SpecIncludeTok(s) ==
    LET close == IF StartsWith(s, "#include\"") THEN "\"" ELSE ">"
        n     == IF close \in ToSet(Tail(s)) THEN UntilInclLen(Tail(s), close) + 1 ELSE 0
    IN  IF \E k \in {"#include\"", "#include<"} : StartsWith(s, k) /\ n > 0
        THEN Tok("PreprInclude", SubSeq(s, 2, n - 1), n)
        ELSE NoToken

(* #define NAME ...: the line; NAME is the first whitespace-delimited     *)
(* word after #define, private when it starts with '_'                   *)
SpecDefineTok(s) ==
    LET rest == SubSeq(s, 2, LineLen(s))
        from == SubSeq(rest, LeadRun(rest, Whitespace) + 1, Len(rest))
        name == SubSeq(from, 1, WordLen(from))
    IN  IF StartsWith(s, "#define ") /\ name # <<>>
        THEN Tok(IF StartsWith(name, "_") THEN "PrivateToken" ELSE "PreprDefine", name, LineLen(s))
        ELSE NoToken

(* a typedef runs through the first ';' outside every { } pair: the     *)
(* braces opened before it are all closed                               *)
BraceDepth(s, n) ==
    Len(SelectSeq(SubSeq(s, 1, n), LAMBDA c : c = "{"))
      - Len(SelectSeq(SubSeq(s, 1, n), LAMBDA c : c = "}"))
SpecTypedefTok(s) ==
    LET ends == {n \in DOMAIN s : s[n] = ";" /\ BraceDepth(s, n) = 0}
        n    == IF ends = {} THEN 0 ELSE Min(ends)
        id   == TrailId(SubSeq(s, 1, n - 1))
    IN  IF StartsWith(s, "typedef") /\ n > 0
        THEN Tok(IF StartsWith(id, "_") THEN "PrivateToken" ELSE "Typedef", id, n)
        ELSE NoToken

(* a const declaration: a span through the next ';' holding "const",    *)
(* named by the identifier run before that ';'                          *)
SpecConstTok(s) ==
    LET n == IF ";" \in ToSet(s) THEN UntilInclLen(s, ";") ELSE 0
    IN  IF n > 0 /\ "const" \in ToSet(SubSeq(s, 1, n))
        THEN Tok("Const", TrailId(SubSeq(s, 1, n - 1)), n)
        ELSE NoToken

(* the index of the '(' matching the ')' at i, scanning back from j *)
RECURSIVE MatchingOpen(_, _, _)
MatchingOpen(s, j, depth) ==
    CASE j = 0                      -> 0
      [] s[j] = "(" /\ depth = 0    -> j
      [] s[j] = "("                 -> MatchingOpen(s, j - 1, depth - 1)
      [] s[j] = ")"                 -> MatchingOpen(s, j - 1, depth + 1)
      [] OTHER                      -> MatchingOpen(s, j - 1, depth)

SpecFunctionTok(s) ==
    LET n     == UntilInclLen(s, ";")
        span  == SubSeq(s, 1, n)
        close == SelectLastInSeq(span, LAMBDA c : c = ")")
        open  == IF close = 0 THEN SelectLastInSeq(span, LAMBDA c : c = "(")
                 ELSE MatchingOpen(span, close - 1, 0)
    IN IF n > 0 /\ "(" \in ToSet(span) THEN Tok("Function", TrailId(SubSeq(span, 1, open - 1)), n)
       ELSE NoToken

(* section 4.1's order: whitespace, comments, #endif, #include, #define, *)
(* the #if family, #else, typedef, const, function                       *)
SpecNextToken(s) ==
    LET cond == SpecConditionalTok(s) IN
    FirstMatch(<<SpecWhitespaceTok(s), SpecCommentTok(s),
                 IF cond.tt = "PreprEndif" THEN cond ELSE NoToken,
                 SpecIncludeTok(s), SpecDefineTok(s),
                 IF cond.tt \in {"PreprIf", "PreprElse"} THEN cond ELSE NoToken,
                 SpecTypedefTok(s), SpecConstTok(s), SpecFunctionTok(s)>>)

SpecYields(s) == SpecNextToken(s) \notin {NoToken, Panic}
RECURSIVE SpecTokenize(_)
SpecTokenize(s) ==
    IF s = <<>> \/ ~SpecYields(s) THEN <<>>
    ELSE <<SpecNextToken(s)>> \o SpecTokenize(SubSeq(s, SpecNextToken(s).len + 1, Len(s)))
RECURSIVE SpecResidue(_)
SpecResidue(s) ==
    IF s = <<>> \/ ~SpecYields(s) THEN s
    ELSE SpecResidue(SubSeq(s, SpecNextToken(s).len + 1, Len(s)))

(* the kinds and identifiers of the tokens other than whitespace, which *)
(* the specification's round trip leaves out                            *)
Significant(ts) ==
    LET sig == SelectSeq(ts, LAMBDA t : t.tt # "Whitespace")
    IN [i \in DOMAIN sig |-> [tt |-> sig[i].tt, id |-> sig[i].id]]
====
