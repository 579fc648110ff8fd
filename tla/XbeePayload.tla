---------------------------- MODULE XbeePayload ----------------------------
(***************************************************************************)
(* The payloads of the XBee ROS node: how the sending handlers put them    *)
(* together and what the receiving callback makes of them                  *)
(* (src/ros/adapters/xbee/scripts/uhura.py), with the conversions of       *)
(* tool_manager.py.                                                        *)
(*                                                                         *)
(* A bit string is a sequence of 0 and 1, bytes are a sequence of numbers  *)
(* below 256.  A message is sent to a node over the radio and, in a        *)
(* simulation, published to it.  The receiver publishes the bits, and then *)
(* takes the bytes for a text whose first word says who handles it.        *)
(***************************************************************************)
EXTENDS Naturals, Sequences, SequencesExt

CONSTANTS
    Ids,        \* message ids to send with
    BitStrings, \* the data of send_bits_string_data (none of them empty: int("", 2)
                \* raises an error in a simulation)
    Texts,      \* the data of send_string_data, as its bytes; all ASCII
    Tests,      \* what network tests announce: the words for delay, packets, bytes
    PacketSizes,\* n_bytes of test packets
    POS, MESH_TEST, TEST, \* the types of messages, as bytes
    Commands    \* the data of send_command, as numbers

\* Bound: numbers up to this one, whose bits BitLength can count.
MaxNumber == 2^30 - 1

PayloadsTyped ==
    /\ Ids \subseteq 0 .. 2^16 - 2
    /\ BitStrings \subseteq Seq({0, 1}) \ {<<>>}
    /\ Texts \subseteq Seq(0 .. 127)
    /\ Tests \subseteq [1 .. 3 -> Seq(0 .. 127)]
    /\ PacketSizes \subseteq Nat
    /\ {POS, MESH_TEST, TEST} \subseteq Seq(0 .. 127)
    /\ Commands \subseteq 0 .. MaxNumber

ASSUME PayloadAssumption == PayloadsTyped

VARIABLES
    stage,      \* what happens next
    message,    \* what is sent: its service, id and data
    radio,      \* the bytes on the air
    published,  \* the bit string published at the receiver
    msgid,      \* the id the receiver has read
    simulation, \* the bit string published to the other nodes in a simulation
    handled     \* who has handled the received text, with the words it is given

payloadVars == <<stage, message, radio, published, msgid, simulation, handled>>

-----------------------------------------------------------------------------
Zeros(n) == [i \in 1 .. n |-> 0]

\* int(s, 2)
bitstring_to_int(s) ==
    LET value[i \in 0 .. Len(s)] == IF i = 0 THEN 0 ELSE 2 * value[i - 1] + s[i]
    IN value[Len(s)]

\* How many bits bin() writes.
BitLength(number) ==
    CHOOSE k \in 1 .. 31 : /\ number < 2^k
                           /\ k > 1 => number >= 2^(k - 1)

\* zfill(max_bit) widens, and never cuts.
Width(number, max_bit) ==
    IF BitLength(number) < max_bit THEN max_bit ELSE BitLength(number)

\* bin(number)[2:].zfill(max_bit)
int_to_bit(number, max_bit) ==
    LET w == Width(number, max_bit)
    IN [i \in 1 .. w |-> (number \div 2^(w - i)) % 2]

\* Mutant: the bits are filled up on the right.
FilledUp(s) == s \o Zeros((8 - (Len(s) % 8)) % 8)

\* As many zeros in front as whole bytes need: to_bytes writes a number.
Padded(s) == Zeros((8 - (Len(s) % 8)) % 8) \o s

\* int(s, 2).to_bytes((len(s) + 7) // 8, byteorder='big')
bitstring_to_bytes(s) ==
    LET p == Padded(s)
    IN [i \in 1 .. Len(p) \div 8 |-> bitstring_to_int(SubSeq(p, 8 * i - 7, 8 * i))]

\* Eight bits for each byte.
bytes_to_bitstring(bytes) ==
    [j \in 1 .. 8 * Len(bytes) |->
        int_to_bit(bytes[(j + 7) \div 8], 8)[((j - 1) % 8) + 1]]

\* re.split("\s", ...)
Whitespace == (9 .. 13) \union (28 .. 32)

parse_message(bytes) ==
    FoldLeft(LAMBDA words, byte :
                IF byte \in Whitespace THEN Append(words, <<>>)
                ELSE [words EXCEPT ![Len(words)] = Append(@, byte)],
             <<<<>>>>, bytes)

\* encode_test_net_to_string: words, with spaces in between.
encode_test_net_to_string(test) ==
    MESH_TEST \o <<32>> \o test[1] \o <<32>> \o test[2] \o <<32>> \o test[3]
        \o <<32, 49>>

\* The bits a handler sends after the id: those of a bit string, those of the
\* base station (255, no other may command) and a command, or those of a text,
\* of the announcement of a network test, or of its packets.
DataBits(m) ==
    CASE m.service = "bits"    -> m.data
      [] m.service = "command" -> int_to_bit(255, 16) \o int_to_bit(m.data[1], 8)
      [] OTHER                 -> bytes_to_bitstring(m.data)

\* The bytes of a text follow those of the id; other data are joined to the id
\* bit by bit, and then made bytes.
Payload(m) ==
    LET id == int_to_bit(m.id, 16)
    IN IF m.service \in {"string", "test", "packet"}
       THEN bitstring_to_bytes(id) \o m.data
       ELSE bitstring_to_bytes(id \o DataBits(m))

\* Nothing yet, and what the receiver of a text sees in a simulation.
Nothing == <<>>

Message(service, id, data) == [service |-> service, id |-> id, data |-> data]

PayloadInit ==
    /\ \E id \in Ids :
          \/ \E s \in BitStrings : message = Message("bits", id, s)
          \/ \E t \in Texts : message = Message("string", id, t)
          \/ \E c \in Commands : message = Message("command", id, <<c>>)
          \/ \E t \in Tests :
                message = Message("test", id, encode_test_net_to_string(t))
          \/ \E size \in PacketSizes : message = Message("packet", id, Zeros(size))
    /\ stage = "send"
    /\ radio = Nothing
    /\ published = Nothing
    /\ msgid = 0
    /\ simulation = Nothing
    /\ handled = Nothing

\* Mutant: the bits are published as they came.
Unconverted(m) == DataBits(m)

\* In a simulation bits and commands are converted to bytes and back, without
\* an id, and published to the other nodes.
Simulated(m) == bytes_to_bitstring(bitstring_to_bytes(DataBits(m)))

\* The sending handler: the payload is broadcast, or, in a simulation, the data
\* of bits and commands are published.
Send ==
    /\ stage = "send"
    /\ stage' = "receive"
    /\ radio' = Payload(message)
    /\ simulation' = IF message.service \in {"bits", "command"}
                    THEN Simulated(message) ELSE Nothing
    /\ UNCHANGED <<message, published, msgid, handled>>

\* Mutant: the id is taken for part of the text.
AllBytes(bytes) == bytes

\* xbee_message.data[2:]
WithoutId(bytes) == SubSeq(bytes, 3, Len(bytes))

\* decode(errors='ignore').  Bytes above ASCII are left out: those that make a
\* character would stay, but are in no type of message.
Decoded(bytes) == SelectSeq(bytes, LAMBDA byte : byte < 128)

Number(word) == word # <<>> /\ ToSet(word) \subseteq 48 .. 57

\* float() also takes one point.  The signs that both take, and the exponents and
\* names of float(), are left out: no instance has them.
Decimal(word) ==
    /\ Number(SelectSeq(word, LAMBDA byte : byte # 46))
    /\ \A i, j \in DOMAIN word : word[i] = 46 /\ word[j] = 46 => i = j

Raises == <<"raises">>

\* handle_pos_message publishes six words, handle_mesh_test_message starts a
\* test with three, and each raises if there are not as many, or if they are
\* no numbers for the test.  A message of type TEST is dropped.  For any other
\* type a function without parameters is called with one, which raises.
handle_type_message(words) ==
    CASE words[1] = POS /\ Len(words) >= 7 -> <<"position">> \o SubSeq(words, 2, 7)
      [] /\ words[1] = MESH_TEST /\ Len(words) >= 4
         /\ Decimal(words[2]) /\ Number(words[3]) /\ Number(words[4])
                                           -> <<"test">> \o SubSeq(words, 2, 4)
      [] words[1] = TEST                   -> <<"dropped">>
      [] OTHER                             -> Raises

\* The receiving callback takes the first two bytes for the id, publishes the
\* other bits, and dispatches on the first word of the other bytes.
Receive ==
    /\ stage = "receive"
    /\ stage' = "received"
    /\ LET bitstring == bytes_to_bitstring(radio)
       IN /\ msgid' = bitstring_to_int(SubSeq(bitstring, 1, 16))
          /\ published' = SubSeq(bitstring, 17, Len(bitstring))
    /\ handled' = handle_type_message(parse_message(Decoded(WithoutId(radio))))
    /\ UNCHANGED <<message, radio, simulation>>

PayloadNext == Send \/ Receive

PayloadSpec == PayloadInit /\ [][PayloadNext]_payloadVars

-----------------------------------------------------------------------------
\* How many bits the data are short of whole bytes.
Short == (8 - (Len(DataBits(message)) % 8)) % 8

\* The receiver has the id and the data if the data are whole bytes.  If they
\* are not (a bit string of another length, a command above 255), all is
\* shifted: the last bits of the id come out in front of the data, and the id
\* without them.  In no case is a bit of the data lost.
ReceivedShifted ==
    stage = "received" =>
        /\ msgid = message.id \div 2^Short
        /\ published = SubSeq(int_to_bit(message.id, 16), 17 - Short, 16)
                           \o DataBits(message)

\* A simulation shows what the radio would deliver just when the bits that are
\* shifted out of the id are zeros, so always for data of whole bytes.
SimulationAgrees ==
    stage = "received" /\ message.service \in {"bits", "command"} =>
        (simulation = published <=> message.id % 2^Short = 0)

\* A network test that is announced starts at the receiver with the delay, the
\* number and the size it was announced with, and a client's text goes to the
\* handler it names, whatever the id in front of it.  The packets of a test and
\* commands are of no type at all: the callback raises for each of them, after
\* their bits are published, and the handler for packets never gets one.
Dispatched ==
    stage = "received" =>
        /\ message.service = "test" =>
              \E t \in Tests : /\ message.data = encode_test_net_to_string(t)
                               /\ handled = <<"test">> \o t
        /\ message.service = "string" =>
              handled = handle_type_message(parse_message(message.data))
        /\ message.service \in {"command", "packet"} =>
              handled = Raises /\ Len(published) >= Len(DataBits(message))
=============================================================================
