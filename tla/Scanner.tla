------------------------------ MODULE Scanner -------------------------------
(***************************************************************************)
(* The scanner with its peek buffer, as the parsers call it: peek(),       *)
(* scan() into a token of theirs or into the buffer, expect() and          *)
(* zap_to(), and the loop of parse_stmt() that recovers from an error, in  *)
(* any order, on one of a set of files.                                    *)
(***************************************************************************)
EXTENDS Lexemes

CONSTANTS
  Files,          \* texts
  Wanted          \* the types that expect() and zap_to() are called with

ASSUME ScannerAssumption == \A f \in Files : Len(f) \in Nat

VARIABLES
  file,
  at,             \* the place of s->chr
  buffered,       \* s->buffered
  peek,           \* s->peek, with the place where it begins
  given,          \* what the last call has returned to its caller
  zap,            \* the target of the loop that is under way
  reported        \* how many errors the scanner itself has sent

vars == <<file, at, buffered, peek, given, zap, reported>>

None    == ""
Nothing == [type |-> "", lit |-> ""]
Seen(tok) == [type |-> tok.type, lit |-> tok.lit]

(* init_scanner(): the token of the buffer is all zeroes.                  *)
Init ==
  /\ file \in Files
  /\ at = 1
  /\ buffered = FALSE
  /\ peek = Lexeme("ILLEGAL", "", 1)
  /\ given = Nothing
  /\ zap = None
  /\ reported = 0

(* Defect: a full buffer is filled again.                                  *)
NextTokenFresh == ScanFrom(file, at)

(* The token that a call of scan() gives: that of the buffer if it is full *)
NextToken == IF buffered THEN peek ELSE ScanFrom(file, at)

(* Defect: the character behind the token is not read.                     *)
ReadLate ==
  IF buffered THEN UNCHANGED <<at, reported>>
  ELSE at' = NextToken.start /\ UNCHANGED reported

(* Defect: a token is reported each time it is looked at.                  *)
ReadReports ==
  /\ at' = IF buffered THEN at ELSE NextToken.to
  /\ reported' = reported + (IF NextToken.ok THEN 0 ELSE 1)

(* And what it does to the file.                                           *)
Read ==
  IF buffered THEN UNCHANGED <<at, reported>>
  ELSE /\ at' = NextToken.to
       /\ reported' = reported + (IF NextToken.ok THEN 0 ELSE 1)

(* peek(), peektype().                                                     *)
Peek ==
  /\ zap = None
  /\ Read /\ peek' = NextToken /\ buffered' = TRUE
  /\ given' = Seen(NextToken)
  /\ UNCHANGED <<file, zap>>

(* scan(s, &tok).                                                          *)
Scan ==
  /\ zap = None
  /\ Read /\ buffered' = FALSE
  /\ given' = Seen(NextToken)
  /\ UNCHANGED <<file, peek, zap>>

(* Defect: a token that was scanned into the buffer is given once more.    *)
DiscardKept == Read /\ peek' = NextToken /\ buffered' = TRUE /\ given' = Nothing

(* scan(s, NULL): into the buffer, which counts as empty.                  *)
Discard == Read /\ peek' = NextToken /\ buffered' = FALSE /\ given' = Nothing

ScanNull == zap = None /\ Discard /\ UNCHANGED <<file, zap>>

expect(type) ==
  /\ zap = None
  /\ Read /\ peek' = NextToken
  /\ buffered' = (NextToken.type # type)
  /\ given' = IF NextToken.type = type THEN Seen(NextToken) ELSE Nothing
  /\ UNCHANGED <<file, zap>>

-----------------------------------------------------------------------------
(* zap_to() and the loop of parse_stmt() are called, and go round.         *)
STATEMENT == "statement"

(* Defect: the loop goes on while either of two comparisons fails.         *)
EndsStatementBoth(type) == type = "RBRACE" /\ type = "SEMICOLON"

EndsStatement(type) == type = "RBRACE" \/ type = "SEMICOLON"

zap_to(type) ==
  /\ zap = None
  /\ zap' = type
  /\ UNCHANGED <<file, at, buffered, peek, given, reported>>

(* parse_stmt() has peeked at a token that begins no statement.            *)
zap_statement ==
  /\ zap = None
  /\ buffered /\ given = Seen(peek)
  /\ zap' = STATEMENT
  /\ UNCHANGED <<file, at, buffered, peek, given, reported>>

ZapStep ==
  /\ zap \notin {None, STATEMENT}
  /\ \/ /\ NextToken.type = zap
        /\ Read /\ peek' = NextToken /\ buffered' = TRUE
        /\ zap' = None
        /\ UNCHANGED given
     \/ NextToken.type # zap /\ Discard /\ UNCHANGED zap
  /\ UNCHANGED file

ZapStatementStep ==
  /\ zap = STATEMENT
  /\ \/ /\ EndsStatement(given.type)
        /\ zap' = None
        /\ UNCHANGED <<at, buffered, given, reported>>
     \/ /\ ~EndsStatement(given.type)
        /\ Read /\ buffered' = FALSE
        /\ given' = Seen(NextToken)
        /\ UNCHANGED zap
  /\ UNCHANGED <<file, peek>>

Next ==
  \/ Peek \/ Scan \/ ScanNull
  \/ \E type \in Wanted : expect(type) \/ zap_to(type)
  \/ zap_statement \/ ZapStep \/ ZapStatementStep

(* The loops are C's: nothing stops them but what they wait for.           *)
Spec == Init /\ [][Next]_vars /\ WF_vars(ZapStep \/ ZapStatementStep)

-----------------------------------------------------------------------------
TypeOK ==
  /\ at \in 1 .. End(file)
  /\ peek.start \in 1 .. End(file) /\ peek.to \in 1 .. at
  /\ buffered \in BOOLEAN
  /\ zap \in Wanted \union {None, STATEMENT}
  /\ reported \in Nat

(* The tokens of every file from every place on, as they are returned.     *)
StreamOf ==
  [f \in Files |-> [k \in 1 .. End(f) |->
     LET ts == TokensFrom(f, k) IN [j \in DOMAIN ts |-> Seen(ts[j])]]]
Ahead == StreamOf[file][IF buffered THEN peek.start ELSE at]

(* Whatever the parsers call, they see the tokens of the file in their     *)
(* order, each one once: none is lost or comes twice through the buffer.   *)
FileStreams == {StreamOf[f][1] : f \in Files}
Stream == INSTANCE TokenStream WITH toks <- Ahead, Streams <- FileStreams
ImplementsTokenStream == Stream!Spec

(* Every error of the file is reported once: as many are to come as have   *)
(* not been.                                                               *)
Errors(k) ==
  LET ts == TokensFrom(file, k) IN Cardinality({j \in DOMAIN ts : ~ts[j].ok})
ReportedOnce == reported + Errors(at) = Errors(1)

(* A loop that recovers from an error ends if there is what it looks for.  *)
Sought == IF zap = STATEMENT THEN {"RBRACE", "SEMICOLON"} ELSE {zap}
IsAhead == \E k \in DOMAIN Ahead : Ahead[k].type \in Sought
ZapArrives == (zap # None /\ IsAhead) ~> zap = None

(* It does so because each round brings it one token nearer to the first   *)
(* that it looks for.  zap_to() stops before that token and leaves it to   *)
(* its caller; the loop of parse_stmt() takes it, and then ends.           *)
IsFirst(k) ==
  /\ k \in DOMAIN Ahead /\ Ahead[k].type \in Sought
  /\ \A j \in 1 .. k - 1 : Ahead[j].type \notin Sought

Nears ==
  zap # None => \A k \in DOMAIN Ahead : IsFirst(k) =>
    \/ UNCHANGED vars
    \/ zap' = zap /\ k > 1 /\ IsFirst(k - 1)'
    \/ zap' = zap /\ zap = STATEMENT /\ k = 1 /\ given'.type \in Sought
    \/ /\ zap' = None /\ Ahead' = Ahead
       /\ IF zap = STATEMENT THEN given.type \in Sought ELSE k = 1

ZapComesNearer == [][Nears]_vars

-----------------------------------------------------------------------------
(* How many characters the lexeme s of a type puts into Token.lit.         *)
Written(s, type) ==
  CASE type \in {"CHAR", "STRING"}        -> Len(s) - 2
    [] type \in {"VARIABLE", "PORT"}      -> Len(s) - 1
    [] type \in {"NUMBER", "IDENTIFIER"}  -> Len(s)
    [] OTHER -> 0

(* "If the length of the literal is beyond LITERAL_MAX, mark s.err."       *)
Fits(s, type) == Written(s, type) <= LITERAL_MAX

(* The byte 255 in a file looks like its end.                              *)
NoEofInside == \A k \in 1 .. Len(file) : Chr(file, k) # Eof

(* The scanner takes the longest lexeme of SPEC.md that begins after space *)
(* and comments, and reports exactly those that are longer than a token    *)
(* holds, quotes that nothing closes, and characters that begin none.      *)
LongestLexeme ==
  NoEofInside =>
  \A tok \in {ScanFrom(file, at)} : \A b \in {Begin(file, at)} :
    /\ tok.start = b
    /\ b = End(file) => tok.type = "TOK_EOF"
    /\ b # End(file) => tok.to > b
    /\ tok.ok /\ b # End(file) =>
         /\ Ends(file, b) # {} /\ tok.to = Longest(file, b) + 1
         /\ \A s \in {Text(file, b, tok.to - 1)} :
              Kind(s) = {tok.type} /\ Fits(s, tok.type)
    /\ ~tok.ok /\ Ends(file, b) # {} =>
         \A s \in {Text(file, b, Longest(file, b))} :
           \E type \in Kind(s) : ~Fits(s, type)

(* What a literal of a type is: the number, the character or the bytes     *)
(* that SPEC.md says, if there is a byte for it and room in a buffer, and  *)
(* else it is reported.                                                    *)
ByteOrNone(v) == IF v < BYTES THEN v ELSE INVALID

IsReadAsSpelled(type, lit) ==
  /\ type = "NUMBER" =>
       parse_int(lit) = IF IsNumber(lit) THEN ByteOrNone(NumberOf(lit)) ELSE INVALID
  /\ type = "CHAR" =>
       parse_char(lit) =
         IF \E b \in Spells(lit) : Len(b) = 1
         THEN (CHOOSE b \in Spells(lit) : TRUE)[1] ELSE INVALID
  /\ type = "STRING" =>
       parse_string(lit) =
         IF \E b \in Spells(lit) : Len(b) <= BUFFER_NODE_MAX
         THEN CHOOSE b \in Spells(lit) : TRUE ELSE <<INVALID>>

(* Literals are what SPEC.md says they are, whatever the scanner gives to  *)
(* the parsers.                                                            *)
LiteralsAreRead ==
  NoEofInside /\ given.type \in {"NUMBER", "CHAR", "STRING"} => IsReadAsSpelled(given.type, given.lit)

(* Once a file has been read, each of its tokens was the longest lexeme of *)
(* SPEC.md at its place and had room in Token.lit, or was reported, and    *)
(* its literal stands for what SPEC.md says.                               *)
IsDocumented(tok) ==
  /\ tok.ok => /\ Ends(file, tok.start) # {} /\ tok.to = Longest(file, tok.start) + 1
               /\ Kind(Text(file, tok.start, tok.to - 1)) = {tok.type}
               /\ Fits(Text(file, tok.start, tok.to - 1), tok.type)
  /\ IsReadAsSpelled(tok.type, tok.lit)

TokensAreDocumented ==
  at = End(file) =>
    \A k \in DOMAIN TokensFrom(file, 1) : IsDocumented(TokensFrom(file, 1)[k])
=============================================================================
