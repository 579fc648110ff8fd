--------------------------- MODULE ProcedureCodec ---------------------------
(***************************************************************************)
(* The wire format of remote procedure calls: the generated classes        *)
(* ProcedureReq, Procedure and ProcedureRes                                *)
(* (src/nats/packages/gateway/src/common/protos/generated.js).             *)
(*                                                                         *)
(* A message is a function from its own properties to their values; a      *)
(* property it does not have reads as the default of its prototype.  On    *)
(* the wire it is a sequence of tokens, each with a field number and a     *)
(* body: a string, a boolean, or the tokens of a nested message.  The      *)
(* decoders look at field numbers only, never at wire types, and take a    *)
(* body for what they expect there.                                        *)
(***************************************************************************)
EXTENDS Naturals, Sequences, SequencesExt

CONSTANTS
    Strings,  \* the strings in use
    EMPTY,    \* the empty string
    GARBLED,  \* the string a nested message reads as
    NULL      \* JavaScript's null

ASSUME StringsAssumption == {EMPTY, GARBLED} \subseteq Strings /\ NULL \notin Strings

-----------------------------------------------------------------------------
\* The empty object, as a map or as a message without own properties.
NoProperties == <<>>

\* message[property], with the defaults of its class.
Read(message, defaults, property) ==
    IF property \in DOMAIN message THEN message[property] ELSE defaults[property]

\* Object.hasOwnProperty.call(message, property) and message[property] != null
HasValue(message, property) ==
    property \in DOMAIN message /\ message[property] # NULL

\* The own properties a constructor takes over, over those it makes itself.
Construct(made, properties) ==
    LET taken == {p \in DOMAIN properties : HasValue(properties, p)}
    IN [p \in taken \union DOMAIN made |->
           IF p \in taken THEN properties[p] ELSE made[p]]

ReqDefaults == [receiverUhuraId |-> EMPTY, senderUhuraId |-> EMPTY,
                procedure |-> NULL, inputs |-> NoProperties]

ProcedureDefaults == [type |-> EMPTY, name |-> EMPTY, description |-> EMPTY,
                      reply |-> FALSE, inputFields |-> NoProperties,
                      outputFields |-> NoProperties]

ResDefaults == [procedure |-> NULL, outputs |-> NoProperties]

NewReq(properties) == Construct([inputs |-> NoProperties], properties)

NewProcedure(properties) ==
    Construct([inputFields |-> NoProperties, outputFields |-> NoProperties],
              properties)

NewRes(properties) == Construct([outputs |-> NoProperties], properties)

-----------------------------------------------------------------------------
Token(field, body) == [field |-> field, body |-> body]

\* writer.uint32(tag).string(...), or .bool(...), of a property that has a value.
Scalar(field, message, property) ==
    IF HasValue(message, property) THEN <<Token(field, message[property])>>
    ELSE <<>>

\* A token for each key of a map property, in the order of Object.keys.
Map(field, message, property) ==
    IF HasValue(message, property)
    THEN LET map == message[property]
             keys == SetToSeq(DOMAIN map)
         IN [i \in DOMAIN keys |->
                Token(field, <<Token(1, keys[i]), Token(2, map[keys[i]])>>)]
    ELSE <<>>

EncodeProcedure(m) ==
    Scalar(1, m, "type") \o Scalar(2, m, "name") \o Scalar(3, m, "description")
        \o Scalar(4, m, "reply")
        \o Map(5, m, "inputFields") \o Map(6, m, "outputFields")

\* The procedure of a request or a response, as a nested message.
Nested(field, m) ==
    IF HasValue(m, "procedure") THEN <<Token(field, EncodeProcedure(m.procedure))>>
    ELSE <<>>

EncodeReq(m) ==
    Scalar(1, m, "receiverUhuraId") \o Scalar(2, m, "senderUhuraId")
        \o Nested(3, m) \o Map(4, m, "inputs")

EncodeRes(m) == Nested(1, m) \o Map(2, m, "outputs")

-----------------------------------------------------------------------------
\* reader.string(): any bytes are a string, those of a nested message too.
Text(body) ==
    IF body \in Strings THEN body ELSE IF body = <<>> THEN EMPTY ELSE GARBLED

\* message[property] = value
Set(message, property, value) ==
    [p \in DOMAIN message \union {property} |->
        IF p = property THEN value ELSE message[p]]

\* Where the tokens of a field are, and which is the last one: that one counts.
At(tokens, field) == {i \in DOMAIN tokens : tokens[i].field = field}

LastBody(tokens, field) ==
    tokens[CHOOSE i \in At(tokens, field) :
              \A j \in At(tokens, field) : j <= i].body

\* A string in the entry of a map, or the empty one if the entry has none.
EntryText(entry, field) ==
    IF At(entry, field) = {} THEN EMPTY ELSE Text(LastBody(entry, field))

\* The map whose entries are the tokens of a field.
Entries(tokens, field) ==
    LET key(i) == EntryText(tokens[i].body, 1)
        of(k) == {i \in At(tokens, field) : key(i) = k}
        last(k) == CHOOSE i \in of(k) : \A j \in of(k) : j <= i
    IN [k \in {key(i) : i \in At(tokens, field)} |->
           EntryText(tokens[last(k)].body, 2)]

\* The field numbers of the messages.
ReqFields == [receiverUhuraId |-> 1, senderUhuraId |-> 2, procedure |-> 3, inputs |-> 4]

ProcedureFields == [type |-> 1, name |-> 2, description |-> 3, reply |-> 4,
                    inputFields |-> 5, outputFields |-> 6]

ResFields == [procedure |-> 1, outputs |-> 2]

\* A decoded message has the properties whose field is there, and its maps, which
\* the constructor makes.
Present(tokens, fields, maps) ==
    {p \in DOMAIN fields : p \in maps \/ At(tokens, fields[p]) # {}}

DecodeProcedure(tokens) ==
    LET maps == {"inputFields", "outputFields"}
        body(p) == LastBody(tokens, ProcedureFields[p])
    IN [p \in Present(tokens, ProcedureFields, maps) |->
           CASE p \in maps -> Entries(tokens, ProcedureFields[p])
             [] p = "reply" -> body(p)
             [] OTHER -> Text(body(p))]

DecodeReq(tokens) ==
    LET body(p) == LastBody(tokens, ReqFields[p])
    IN [p \in Present(tokens, ReqFields, {"inputs"}) |->
           CASE p = "inputs" -> Entries(tokens, ReqFields[p])
             [] p = "procedure" -> DecodeProcedure(body(p))
             [] OTHER -> Text(body(p))]

DecodeRes(tokens) ==
    [p \in Present(tokens, ResFields, {"outputs"}) |->
        IF p = "outputs" THEN Entries(tokens, ResFields[p])
        ELSE DecodeProcedure(LastBody(tokens, ResFields[p]))]
=============================================================================
