----------------------------- MODULE Conversion -----------------------------
(***************************************************************************)
(* From the response of a jQuery.ajax to the data types that its caller    *)
(* asked for.                                                              *)
(*                                                                         *)
(* A response is the set of types that it is a value of.  A converter is a *)
(* function, which may throw, or `same': true, the value is already of the *)
(* other type.  The order of a for-in loop is any.  An answer without      *)
(* responses, as that of a script transport, and s.throws are left out.    *)
(***************************************************************************)
EXTENDS Integers, Sequences, FiniteSets
LOCAL Seqs == INSTANCE SequencesExt

CONSTANTS
    Types,       \* the data types but "*"
    MaxTypes     \* asked for at a time

VARIABLES
    converters,  \* from a type, or from "*", to a type
    asked,       \* what the caller asked for
    dataTypes,   \* those yet to come
    current, response,
    phase,       \* handle, convert, success, parsererror
    threw        \* history: a converter threw

vars == <<converters, asked, dataTypes, current, response, phase, threw>>

AnyType == "*"
NoType == "none"
Pairs == {pair \in (Types \union {AnyType}) \X Types : pair[1] # pair[2]}

Init ==
    /\ converters \in [Pairs -> {"none", "same", "function"}]
    /\ \A pair \in Pairs :
        pair[1] = AnyType => converters[pair] \in IF pair[2] = "text" THEN {"none", "function"} ELSE {"none"}
    /\ asked \in UNION {[1..n -> Types \union {AnyType}] : n \in 1..MaxTypes}
    /\ dataTypes = asked
    /\ current = NoType /\ response = {}
    /\ phase = "handle" /\ threw = FALSE

-----------------------------------------------------------------------------
(* ajaxHandleResponses.                                                    *)

Defined(from, to) == converters[<<from, to>>] # "none"

\* The types asked for without the leading "*", which stands for the type whose
\* pattern the Content-Type matches, if there is one.
WithoutAuto(types) ==
    LET leading == {i \in DOMAIN types : \A j \in 1..i : types[j] = AnyType}
    IN  SubSeq(types, Cardinality(leading) + 1, Len(types))

Expected(contentType) ==
    LET rest == WithoutAuto(dataTypes)
    IN  IF rest # dataTypes /\ contentType # NoType THEN <<contentType>> \o rest ELSE rest

\* The response to start from: that of the expected type, or else the first
\* that one converter makes it from, or else the first.
Chosen(responses, expected) ==
    LET convertible ==
            {i \in DOMAIN responses : expected = <<>> \/ Defined(responses[i], Head(expected))}
    IN  IF expected # <<>> /\ Head(expected) \in {responses[i] : i \in DOMAIN responses} THEN Head(expected)
        ELSE IF convertible # {} THEN responses[CHOOSE i \in convertible : \A j \in convertible : i <= j]
        ELSE Head(responses)

\* What a transport answers with: texts of some types, in any order.
Responses ==
    {texts \in UNION {[1..n -> Types] : n \in 1..Cardinality(Types)} : Seqs!IsInjective(texts)}

HandleResponses ==
    /\ phase = "handle"
    /\ \E responses \in Responses,
          contentType \in Types \union {NoType} :
        LET expected == Expected(contentType)
            type == Chosen(responses, expected)
        IN  /\ response' = {type}
            /\ current' = type
            /\ dataTypes' = IF expected # <<>> /\ type = Head(expected)
                            THEN Tail(expected) ELSE expected
    /\ phase' = "convert"
    /\ UNCHANGED <<converters, asked, threw>>

-----------------------------------------------------------------------------
(* ajaxConvert.                                                            *)

\* A value of one type is also of those that are the same.
Closed(types) ==
    \A from \in types : \A to \in Types \ {from} : converters[<<from, to>>] = "same" => to \in types
Alike(types) == {type \in Types : \A all \in SUBSET Types : types \subseteq all /\ Closed(all) => type \in all}

\* converters[ "from to" ] || converters[ "* to" ]: which of the two.
Direct(from, to) ==
    IF <<from, to>> \in Pairs /\ Defined(from, to) THEN <<from, to>> ELSE <<AnyType, to>>
HasDirect(from, to) == converters[Direct(from, to)] # "none"

\* A converter is applied: the result is of its output if the value was of its
\* input, or else of no type at all.
Apply(pair) ==
    IF converters[pair] = "same"
    THEN UNCHANGED <<response, threw>> /\ phase' = "convert"
    ELSE \/ /\ response' = IF pair[1] \in Alike(response) \union {AnyType} THEN {pair[2]} ELSE {}
            /\ phase' = "convert" /\ UNCHANGED threw
         \/ phase' = "parsererror" /\ threw' = TRUE /\ UNCHANGED response

\* The pairs through which the previous type becomes the current one.
Through(prev, to) ==
    {between \in Types \ {prev, to} : Defined(between, to) /\ HasDirect(prev, between)}

\* No more types.
Converted ==
    /\ dataTypes = <<>>
    /\ phase' = "success"
    /\ UNCHANGED <<dataTypes, current, response, threw>>

\* There is only work to do if the type is not "*" and differs.
Skip ==
    /\ dataTypes # <<>> /\ Head(dataTypes) \in {AnyType, current}
    /\ dataTypes' = Tail(dataTypes)
    /\ UNCHANGED <<current, response, phase, threw>>

ConvertDirectly ==
    /\ dataTypes # <<>> /\ Head(dataTypes) \notin {AnyType, current}
    /\ HasDirect(current, Head(dataTypes))
    /\ Apply(Direct(current, Head(dataTypes)))
    /\ current' = Head(dataTypes) /\ dataTypes' = Tail(dataTypes)

\* Faulty: a pair with an equivalence in it is taken for one.
ConvertNothing ==
    /\ dataTypes # <<>> /\ Head(dataTypes) \notin {AnyType, current}
    /\ ~HasDirect(current, Head(dataTypes))
    /\ LET to == Head(dataTypes)
       IN  \E between \in Through(current, to) :
            IF converters[Direct(current, between)] = "same"
            THEN /\ current' = to /\ dataTypes' = Tail(dataTypes)
                 /\ UNCHANGED <<response, phase, threw>>
            ELSE Apply(Direct(current, between)) /\ current' = between /\ UNCHANGED dataTypes

\* Equivalences are condensed: if the first of the pair is one, the second is
\* applied; if the second is one, the first is all there is to do.  Otherwise
\* the type between comes first.
ConvertInTwo ==
    /\ dataTypes # <<>> /\ Head(dataTypes) \notin {AnyType, current}
    /\ ~HasDirect(current, Head(dataTypes))
    /\ LET to == Head(dataTypes)
       IN  \E between \in Through(current, to) :
            LET first == Direct(current, between)
                second == <<between, to>>
            IN  IF converters[first] = "same"
                THEN Apply(second) /\ current' = to /\ dataTypes' = Tail(dataTypes)
                ELSE /\ Apply(first)
                     /\ IF converters[second] # "same"
                        THEN current' = between /\ UNCHANGED dataTypes
                        ELSE current' = to /\ dataTypes' = Tail(dataTypes)

NoConversion ==
    /\ dataTypes # <<>> /\ Head(dataTypes) \notin {AnyType, current}
    /\ ~HasDirect(current, Head(dataTypes)) /\ Through(current, Head(dataTypes)) = {}
    /\ phase' = "parsererror"
    /\ UNCHANGED <<dataTypes, current, response, threw>>

Convert ==
    /\ phase = "convert"
    /\ Converted \/ Skip \/ ConvertDirectly \/ ConvertInTwo \/ NoConversion
    /\ UNCHANGED <<converters, asked>>

Next == HandleResponses \/ Convert

Spec == Init /\ [][Next]_vars

-----------------------------------------------------------------------------

\* The type of the data in the end: the last that was asked for, but for "*".
Wanted(type) ==
    \E i \in DOMAIN asked :
        /\ asked[i] = type /\ type # AnyType
        /\ \A j \in DOMAIN asked : j > i => asked[j] = AnyType

\* What a success hands over is a value of the type that the caller asked for,
\* over whatever converters and equivalences it came; and it fails only if a
\* converter did, or nothing makes the next type in one step or in two.
GivesWhatWasAsked ==
    /\ phase = "success" => \A type \in Types : Wanted(type) => type \in Alike(response)
    /\ phase = "parsererror" /\ ~threw =>
        \A between \in Types :
            LET to == Head(dataTypes)
            IN  /\ ~HasDirect(current, to)
                /\ ~(HasDirect(current, between) /\ between # to /\ Defined(between, to))
=============================================================================
