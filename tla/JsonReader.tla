----------------------------- MODULE JsonReader -----------------------------
(***************************************************************************)
(* The JSON parser the MICA configuration is read with (rapidjson).  The   *)
(* reader has two implementations of one grammar: a recursive descent      *)
(* (Parse, ParseObject, ParseArray, ParseValue) and, under                 *)
(* kParseIterativeFlag, a table-driven automaton with a stack of its own   *)
(* (IterativeParse, Predict, Transit).  Both send their events to the      *)
(* document, a stack machine that builds the tree, and the writer prints   *)
(* the tree again.                                                         *)
(*                                                                         *)
(* The automaton is the state machine of this module; the recursive        *)
(* descent is the operator Parse on the same text, so that TLC compares    *)
(* the two on every text.  The text arrives as it is read: a character     *)
(* is chosen only when the automaton looks at it, hence every text is      *)
(* explored up to the point where parsing stops.                           *)
(*                                                                         *)
(* A "character" is a lexeme: strings, literals and numbers are single     *)
(* members of Chars, since ParseString and ParseNumber consume them whole  *)
(* (module JsonNumber has the digits).  "a?", "t?" are a string and a      *)
(* literal that do not end properly.  The characters of comments are kept  *)
(* one by one.                                                             *)
(***************************************************************************)
EXTENDS Integers, Sequences, SequencesExt

CONSTANTS
    Chars,          \* the lexemes a text may hold
    MaxLen,         \* bound on the length of a text
    StopWhenDone,   \* kParseStopWhenDoneFlag
    Comments,       \* kParseCommentsFlag, which Config::load sets
    Refusals        \* the handler returns false at one of these events; 0 = never

Strings  == {"a", "b"}
Literals == {"true"}
Numbers  == {"1"}
Structural == {"{", "}", "[", "]", ",", ":"}
AllChars == Strings \cup Literals \cup Numbers \cup Structural
              \cup {"a?", "t?", "/", "*", "nl"}
EOF == "eof"

ConstantsOK ==
    /\ Chars \subseteq AllChars
    /\ MaxLen \in Nat
    /\ StopWhenDone \in BOOLEAN /\ Comments \in BOOLEAN
    /\ Refusals \subseteq Nat

VARIABLES
    text,    \* the characters read so far
    closed,  \* the terminating '\0' follows text
    refuse,  \* the number of the event the handler refuses, or 0
    pos,     \* is.Tell() + 1
    state,   \* IterativeParsingState
    stack,   \* stack_: a state to return to and a count per open container
    err,     \* parseResult_.Code()
    events,  \* the handler calls so far
    doc,     \* the document's value stack
    done     \* IterativeParse has returned

vars == <<text, closed, refuse, pos, state, stack, err, events, doc, done>>
-----------------------------------------------------------------------------
(* Reading the text *)

\* is.Peek() at position p
At(p) == IF p <= Len(text) THEN text[p] ELSE EOF

RECURSIVE SkipWhitespace(_), LineEnd(_), BlockEnd(_), SkipWhitespaceAndComments(_)

SkipWhitespace(p) == IF At(p) = "nl" THEN SkipWhitespace(p + 1) ELSE p

\* the end of a one-line comment: behind the newline, or at the end of the text
LineEnd(p) == CASE At(p) = EOF  -> p
                [] At(p) = "nl" -> p + 1
                [] OTHER        -> LineEnd(p + 1)

\* the end of a multi-line comment; the character after a '*' is consumed
\* whether or not it is the closing '/'
BlockEnd(p) ==
    CASE At(p) = EOF -> [pos |-> p, err |-> "UnspecificSyntaxError"]
      [] At(p) = "*" /\ At(p + 1) = EOF ->
            [pos |-> p + 1, err |-> "UnspecificSyntaxError"]
      [] At(p) = "*" /\ At(p + 1) = "/" -> [pos |-> p + 2, err |-> "None"]
      [] At(p) = "*" -> BlockEnd(p + 2)
      [] OTHER -> BlockEnd(p + 1)

SkipWhitespaceAndComments(p) ==
    LET q == SkipWhitespace(p)
        b == BlockEnd(q + 2)
    IN  CASE ~Comments \/ At(q) # "/" -> [pos |-> q, err |-> "None"]
          [] At(q + 1) = "*" -> IF b.err = "None"
                                THEN SkipWhitespaceAndComments(b.pos) ELSE b
          [] At(q + 1) = "/" -> SkipWhitespaceAndComments(LineEnd(q + 2))
          [] OTHER -> [pos |-> q + 1, err |-> "UnspecificSyntaxError"]
-----------------------------------------------------------------------------
(* The events, the document that receives them, and the writer *)

\* The value of a scalar lexeme, or the error its parser reports
ScalarEvent(c) == CASE c \in Strings  -> <<"String", c>>
                    [] c \in Literals -> <<"Bool", c>>
                    [] c \in Numbers  -> <<"Number", c>>
ScalarError(c) == CASE c \in Strings \cup Literals \cup Numbers -> "None"
                    [] c = "a?" -> "StringMissQuotationMark"
                    [] OTHER    -> "ValueInvalid"

EmptyObject == [t |-> "Object", v |-> <<>>]
EmptyArray  == [t |-> "Array", v |-> <<>>]

\* The last n elements of the stack s, and what is below them
PopN(s, n) == [top |-> SubSeq(s, Len(s) - n + 1, Len(s)), rest |-> SubSeq(s, 1, Len(s) - n)]

\* GenericDocument's handler: scalars and keys are pushed; the end of a
\* container pops as many values as the reader says it has and moves them
\* into the container below them
DocStart(d, kind) == Append(d, IF kind = "StartObject" THEN EmptyObject ELSE EmptyArray)
DocScalar(d, e) == Append(d, [t |-> e[1], v |-> e[2]])
DocEndObject(d, n) ==
    LET p == PopN(d, 2 * n)
    IN  [p.rest EXCEPT ![Len(p.rest)] = [t |-> "Object", v |-> p.top]]
DocEndArray(d, n) ==
    LET p == PopN(d, n)
    IN  [p.rest EXCEPT ![Len(p.rest)] = [t |-> "Array", v |-> p.top]]

DocHandle(d, e) ==
    CASE e[1] \in {"StartObject", "StartArray"} -> DocStart(d, e[1])
      [] e[1] = "EndObject" -> DocEndObject(d, e[2])
      [] e[1] = "EndArray"  -> DocEndArray(d, e[2])
      [] e[1] = "Key"       -> DocScalar(d, <<"String", e[2]>>)
      [] OTHER              -> DocScalar(d, e)

\* GenericValue::Accept: the events a value generates
RECURSIVE Accept(_)
Accept(val) ==
    CASE val.t = "Object" ->
            <<<<"StartObject">>>>
              \o FlattenSeq([i \in DOMAIN val.v |->
                    IF i % 2 = 1 THEN <<<<"Key", val.v[i].v>>>> ELSE Accept(val.v[i])])
              \o <<<<"EndObject", Len(val.v) \div 2>>>>
      [] val.t = "Array" ->
            <<<<"StartArray">>>>
              \o FlattenSeq([i \in DOMAIN val.v |-> Accept(val.v[i])])
              \o <<<<"EndArray", Len(val.v)>>>>
      [] OTHER -> <<<<val.t, val.v>>>>

\* The copy constructor with an allocator: Accept into a fresh document
DeepCopy(val) == FoldLeft(DocHandle, <<>>, Accept(val))

\* Writer::Prefix: what separates a value from the one before it
Separator(levels) ==
    IF levels = <<>> \/ Last(levels).valueCount = 0 THEN <<>>
    ELSE IF Last(levels).inArray \/ Last(levels).valueCount % 2 = 0
         THEN <<",">> ELSE <<":">>
Prefix(w) ==
    [w EXCEPT !.out = @ \o Separator(w.levels),
              !.levels = IF @ = <<>> THEN @
                         ELSE [@ EXCEPT ![Len(@)].valueCount = @ + 1]]

\* The writer's handler: w.out is the text, w.levels the level stack
WriterHandle(w, e) ==
    LET p == Prefix(w)
        open(c, arr) == [p EXCEPT !.out = Append(@, c),
                           !.levels = Append(@, [valueCount |-> 0, inArray |-> arr])]
        close(c) == [w EXCEPT !.out = Append(@, c), !.levels = Front(@)]
    IN  CASE e[1] = "StartObject" -> open("{", FALSE)
          [] e[1] = "StartArray"  -> open("[", TRUE)
          [] e[1] = "EndObject"   -> close("}")
          [] e[1] = "EndArray"    -> close("]")
          [] OTHER -> [p EXCEPT !.out = Append(@, e[2])]

\* Config::dump: the text of a value
Dump(val) == FoldLeft(WriterHandle, [out |-> <<>>, levels |-> <<>>], Accept(val)).out
-----------------------------------------------------------------------------
(* The recursive descent, on a record of the position, the error and the   *)
(* events so far                                                           *)

Start == [p |-> 1, err |-> "None", ev |-> <<>>]
Fail(r, code) == [r EXCEPT !.err = code]
Take(r) == [r EXCEPT !.p = @ + 1]
Emit(r, e) == [r EXCEPT !.ev = Append(@, e),
                        !.err = IF Len(r.ev) + 1 = refuse THEN "Termination" ELSE @]
SkipR(r) == LET k == SkipWhitespaceAndComments(r.p)
            IN  [r EXCEPT !.p = k.pos, !.err = k.err]
\* RAPIDJSON_PARSE_ERROR_EARLY_RETURN
Then(r, Op(_)) == IF r.err # "None" THEN r ELSE Op(r)

\* ParseString, ParseNull, ParseTrue, ParseFalse and ParseNumber
ParseScalar(r, isKey) ==
    LET c == At(r.p)
    IN  IF ScalarError(c) # "None" THEN Fail(r, ScalarError(c))
        ELSE Emit(Take(r), IF isKey THEN <<"Key", c>> ELSE ScalarEvent(c))

RECURSIVE ParseValue(_), ParseMembers(_, _), ParseElements(_, _)

\* The loop of ParseObject; n is memberCount
ParseMembers(r, n) ==
    LET Colon(b) == IF At(b.p) = ":" THEN Then(SkipR(Take(b)), ParseValue)
                    ELSE Fail(b, "ObjectMissColon")
        Separate(e) ==
            CASE At(e.p) = "," -> Then(SkipR(Take(e)), LAMBDA f : ParseMembers(f, n + 1))
              [] At(e.p) = "}" -> Emit(Take(e), <<"EndObject", n + 1>>)
              [] OTHER         -> Fail(e, "ObjectMissCommaOrCurlyBracket")
    IN  IF At(r.p) \notin Strings \cup {"a?"} THEN Fail(r, "ObjectMissName")
        ELSE Then(Then(Then(ParseScalar(r, TRUE), SkipR), Colon),
                  LAMBDA d : Then(SkipR(d), Separate))

ParseObject(r) ==
    LET Body(b) == IF At(b.p) = "}" THEN Emit(Take(b), <<"EndObject", 0>>)
                   ELSE ParseMembers(b, 0)
    IN  Then(Then(Emit(Take(r), <<"StartObject">>), SkipR), Body)

\* The loop of ParseArray; n is elementCount
ParseElements(r, n) ==
    LET Separate(e) ==
            CASE At(e.p) = "," -> Then(SkipR(Take(e)), LAMBDA f : ParseElements(f, n + 1))
              [] At(e.p) = "]" -> Emit(Take(e), <<"EndArray", n + 1>>)
              [] OTHER         -> Fail(e, "ArrayMissCommaOrSquareBracket")
    IN  Then(ParseValue(r), LAMBDA d : Then(SkipR(d), Separate))

ParseArray(r) ==
    LET Body(b) == IF At(b.p) = "]" THEN Emit(Take(b), <<"EndArray", 0>>)
                   ELSE ParseElements(b, 0)
    IN  Then(Then(Emit(Take(r), <<"StartArray">>), SkipR), Body)

ParseValue(r) == CASE At(r.p) = "{" -> ParseObject(r)
                   [] At(r.p) = "[" -> ParseArray(r)
                   [] OTHER         -> ParseScalar(r, FALSE)

Parse ==
    LET Root(r) == IF At(r.p) = EOF THEN Fail(r, "DocumentEmpty") ELSE ParseValue(r)
        Rest(r) == IF StopWhenDone THEN r
                   ELSE Then(SkipR(r), LAMBDA t :
                          IF At(t.p) = EOF THEN t ELSE Fail(t, "DocumentRootNotSingular"))
    IN  Then(Then(SkipR(Start), Root), Rest)
-----------------------------------------------------------------------------
(* The automaton *)

\* Tokenize: the token class of a character.  FalseToken, TrueToken and
\* NullToken have the same column in every row of the table: "Literal".
Tokenize(c) == CASE c = "[" -> "LeftBracket"
                 [] c = "]" -> "RightBracket"
                 [] c = "{" -> "LeftCurlyBracket"
                 [] c = "}" -> "RightCurlyBracket"
                 [] c = "," -> "Comma"
                 [] c = ":" -> "Colon"
                 [] c \in Strings \cup {"a?"}  -> "String"
                 [] c \in Literals \cup {"t?"} -> "Literal"
                 [] OTHER -> "Number"

ScalarTokens == {"String", "Literal", "Number"}
States == {"Start", "Finish", "Error", "ObjectInitial", "MemberKey", "KeyValueDelimiter",
           "MemberValue", "MemberDelimiter", "ObjectFinish", "ArrayInitial", "Element",
           "ElementDelimiter", "ArrayFinish", "Value"}

\* Predict: the table G, its entries that are not IterativeParsingErrorState
Predict(s, t) ==
    CASE s \in {"Start", "KeyValueDelimiter", "ArrayInitial", "ElementDelimiter"}
            /\ t = "LeftBracket" -> "ArrayInitial"
      [] s \in {"Start", "KeyValueDelimiter", "ArrayInitial", "ElementDelimiter"}
            /\ t = "LeftCurlyBracket" -> "ObjectInitial"
      [] s = "Start" /\ t \in ScalarTokens -> "Value"
      [] s = "KeyValueDelimiter" /\ t \in ScalarTokens -> "MemberValue"
      [] s \in {"ArrayInitial", "ElementDelimiter"} /\ t \in ScalarTokens -> "Element"
      [] s \in {"ObjectInitial", "MemberDelimiter"} /\ t = "String" -> "MemberKey"
      [] s = "MemberKey" /\ t = "Colon" -> "KeyValueDelimiter"
      [] s \in {"ObjectInitial", "MemberValue"} /\ t = "RightCurlyBracket" -> "ObjectFinish"
      [] s = "MemberValue" /\ t = "Comma" -> "MemberDelimiter"
      [] s \in {"ArrayInitial", "Element"} /\ t = "RightBracket" -> "ArrayFinish"
      [] s = "Element" /\ t = "Comma" -> "ElementDelimiter"
      [] OTHER -> "Error"

\* HandleError: the error code of a text the automaton cannot continue from s
HandleError(s) == CASE s = "Start"  -> "DocumentEmpty"
                    [] s = "Finish" -> "DocumentRootNotSingular"
                    [] s \in {"ObjectInitial", "MemberDelimiter"} -> "ObjectMissName"
                    [] s = "MemberKey"   -> "ObjectMissColon"
                    [] s = "MemberValue" -> "ObjectMissCommaOrCurlyBracket"
                    [] s = "Element"     -> "ArrayMissCommaOrSquareBracket"
                    [] OTHER             -> "UnspecificSyntaxError"

Init == /\ text = <<>> /\ closed = FALSE
        /\ refuse \in Refusals
        /\ pos = 1 /\ state = "Start" /\ stack = <<>> /\ err = "None"
        /\ events = <<>> /\ doc = <<>> /\ done = FALSE

\* where the white space and the comments before the next token end
Skipped == SkipWhitespaceAndComments(pos)
Peeked  == At(Skipped.pos)

\* The next character of the text is looked at: it is chosen now
Feed == /\ ~done /\ ~closed /\ Skipped.pos > Len(text)
        /\ \/ /\ closed' = TRUE /\ text' = text
           \/ /\ Len(text) < MaxLen
              /\ \E c \in Chars : text' = Append(text, c)
              /\ UNCHANGED closed
        /\ UNCHANGED <<refuse, pos, state, stack, err, events, doc, done>>

\* An iteration of IterativeParse's loop whose Predict gave dst
Iteration(dst) ==
    /\ ~done /\ (closed \/ Skipped.pos <= Len(text))
    /\ Skipped.err = "None" /\ Peeked # EOF
    /\ dst = Predict(state, Tokenize(Peeked))
    /\ UNCHANGED <<text, closed, refuse>>

\* The handler call e and the state n that follows it, with the stack s and
\* behind the token.  A handler that returns false terminates the parse, in
\* front of a bracket and behind any other token.
Call(e, n, s) ==
    /\ events' = Append(events, e)
    /\ doc' = DocHandle(doc, e)
    /\ stack' = s
    /\ pos' = IF Len(events) + 1 = refuse /\ Peeked \in Structural
              THEN Skipped.pos ELSE Skipped.pos + 1
    /\ IF Len(events) + 1 = refuse
       THEN err' = "Termination" /\ done' = TRUE /\ state' = state
       ELSE err' = err /\ state' = n /\ done' = (StopWhenDone /\ n = "Finish")

\* The state Transit pushes: where the parse continues after the container
ReturnState(src) ==
    CASE src \in {"ArrayInitial", "ElementDelimiter"} -> "Element"
      [] src = "KeyValueDelimiter" -> "MemberValue"
      [] OTHER -> src

\* Transit to ObjectInitial or ArrayInitial
TransitOpen(dst) ==
    /\ dst \in {"ObjectInitial", "ArrayInitial"} /\ Iteration(dst)
    /\ Call(<<IF dst = "ObjectInitial" THEN "StartObject" ELSE "StartArray">>, dst,
            Append(stack, [n |-> ReturnState(state), count |-> 0]))

\* Transit to MemberKey
TransitKey ==
    /\ Iteration("MemberKey")
    /\ IF ScalarError(Peeked) = "None"
       THEN Call(<<"Key", Peeked>>, "MemberKey", stack)
       ELSE /\ err' = ScalarError(Peeked) /\ done' = TRUE
            /\ UNCHANGED <<pos, state, stack, events, doc>>

\* Transit to KeyValueDelimiter
TransitColon ==
    /\ Iteration("KeyValueDelimiter")
    /\ pos' = Skipped.pos + 1 /\ state' = "KeyValueDelimiter"
    /\ UNCHANGED <<stack, err, events, doc, done>>

\* Transit to MemberValue, Element or Value, which is a single value
TransitScalar(dst) ==
    /\ dst \in {"MemberValue", "Element", "Value"} /\ Iteration(dst)
    /\ IF ScalarError(Peeked) = "None"
       THEN Call(ScalarEvent(Peeked), IF dst = "Value" THEN "Finish" ELSE dst, stack)
       ELSE /\ err' = ScalarError(Peeked) /\ done' = TRUE
            /\ UNCHANGED <<pos, state, stack, events, doc>>

\* Transit to MemberDelimiter or ElementDelimiter: one more is complete
TransitDelimiter(dst) ==
    /\ dst \in {"MemberDelimiter", "ElementDelimiter"} /\ Iteration(dst)
    /\ stack' = [stack EXCEPT ![Len(stack)].count = @ + 1]
    /\ pos' = Skipped.pos + 1 /\ state' = dst
    /\ UNCHANGED <<err, events, doc, done>>

\* The number of members or elements when the container ends in state src
CloseCount(src, count) ==
    IF src \in {"MemberValue", "Element"} THEN count + 1 ELSE count

\* Transit to ObjectFinish or ArrayFinish
TransitClose(dst) ==
    /\ dst \in {"ObjectFinish", "ArrayFinish"} /\ Iteration(dst)
    /\ LET frame == Last(stack)
       IN  Call(<<IF dst = "ObjectFinish" THEN "EndObject" ELSE "EndArray",
                  CloseCount(state, frame.count)>>,
                IF frame.n = "Start" THEN "Finish" ELSE frame.n, Front(stack))

\* Predict gave the error state: HandleError and leave the loop
TransitError ==
    /\ Iteration("Error")
    /\ err' = HandleError(state) /\ done' = TRUE
    /\ UNCHANGED <<pos, state, stack, events, doc>>

\* The loop ends: a comment that does not end, or the end of the text
EndOfText ==
    /\ ~done /\ (closed \/ Skipped.pos <= Len(text))
    /\ Skipped.err # "None" \/ Peeked = EOF
    /\ err' = IF Skipped.err # "None" THEN Skipped.err
              ELSE IF state # "Finish" THEN HandleError(state) ELSE "None"
    /\ pos' = Skipped.pos
    /\ done' = TRUE
    /\ UNCHANGED <<text, closed, refuse, state, stack, events, doc>>

Next == \/ Feed \/ TransitKey \/ TransitColon \/ TransitError \/ EndOfText
        \/ \E dst \in States : \/ TransitOpen(dst) \/ TransitScalar(dst)
                               \/ TransitDelimiter(dst) \/ TransitClose(dst)

Spec == Init /\ [][Next]_vars
-----------------------------------------------------------------------------
(* Properties *)

TypeOK ==
    /\ text \in Seq(AllChars) /\ closed \in BOOLEAN /\ refuse \in Refusals
    /\ pos \in Nat /\ state \in States \ {"Error", "ObjectFinish", "ArrayFinish", "Value"}
    /\ \A i \in DOMAIN stack : stack[i].n \in {"Start", "Element", "MemberValue"}
                               /\ stack[i].count \in Nat
    /\ err \in STRING /\ done \in BOOLEAN

\* The two parsers implement one grammar (Parse dispatches on
\* kParseIterativeFlag alone): for every text, and wherever the handler
\* stops them, they make the same handler calls with the same counts, both
\* accept or both reject, and when they accept they stop at the same
\* place.  They report the same error, except where no value can start: there
\* the automaton has no transition, and says DocumentEmpty at the beginning and
\* UnspecificSyntaxError inside a container for the descent's ValueInvalid.
ParsersAgree ==
    done => LET r == Parse
            IN  /\ r.ev = events
                /\ \/ r.err = err
                   \/ r.err = "ValueInvalid" /\ err \in {"DocumentEmpty", "UnspecificSyntaxError"}
                /\ err = "None" => r.p = pos

\* The containers that are open, outermost first, read off the events
Open == FoldLeft(LAMBDA o, e : CASE e[1] \in {"StartObject", "StartArray"} -> Append(o, e[1])
                                 [] e[1] \in {"EndObject", "EndArray"} -> Front(o)
                                 [] OTHER -> o, <<>>, events)

\* The automaton's stack mirrors the nesting: one frame per open container,
\* an inner frame returns to the state its enclosing container is in, and
\* the values on the document's stack are those of the open containers.  A
\* wrong count or a wrong return state would let an object swallow the
\* values of the array around it.
FramesMatchNesting ==
    ~done => /\ Len(stack) = Len(Open)
             /\ \A i \in DOMAIN stack :
                    stack[i].n = IF i = 1 THEN "Start"
                                 ELSE IF Open[i - 1] = "StartArray" THEN "Element"
                                      ELSE "MemberValue"
             /\ Len(stack) <= Len(doc)

\* The lexemes of the text that are not white space or comments
RECURSIVE Significant(_)
Significant(p) ==
    LET k == SkipWhitespaceAndComments(p)
    IN  IF k.pos >= pos \/ k.pos > Len(text) THEN <<>>
        ELSE <<At(k.pos)>> \o Significant(k.pos + 1)

\* A text that is accepted leaves exactly one root on the document's stack
\* (the assertion of ParseStream), and neither the tree nor its deep copy
\* loses, doubles or reorders anything: the writer prints the lexemes that
\* were read.
RoundTrips ==
    done /\ err = "None" =>
        /\ Len(doc) = 1
        /\ Dump(doc[1]) = Significant(1)
        /\ DeepCopy(doc[1]) = doc

=============================================================================
