----------------------------- MODULE WireFormat -----------------------------
(***************************************************************************)
(* The protobuf classes: what the server (tmcs_msg.pb.go) and the browser  *)
(* (src/www/src/proto/tmcs_msg_pb.js) write on a web socket, and what a    *)
(* class reads out of bytes, also out of bytes another class has written   *)
(* (the client cannot tell which frame it has been sent and simply tries). *)
(*                                                                         *)
(* The browser's code reads a class with one routine and writes it with    *)
(* another, the server's does both by the tags of a struct.  Each of the   *)
(* three is a table of its own here: for every field number the name of    *)
(* the field and its type.  An object is a record by the names of the      *)
(* fields.  The bytes are abstracted to the set of fields present, each    *)
(* with its wire type and its value: protobuf leaves out a field that has  *)
(* its default value and ignores the order of the fields.                  *)
(***************************************************************************)
EXTENDS Naturals, Sequences

CONSTANT Unreadable   \* what is thrown by a reader that meets a wrong wire type

-----------------------------------------------------------------------------
(* The classes.                                                            *)

\* Field 2 of SignedMsg and of MsgReceipt and field 1 of Error are enums.
SignedMsgType == [MESSAGE |-> 0, RECEIPT |-> 1, ERROR |-> 2, NOTIFICATION |-> 4, RPC |-> 8]
MsgState == [LOST |-> 0, RECEIVED |-> 1, TIMEOUT |-> 2, VERIFYFAILED |-> 4]
ErrorCode == [NONE |-> 0, INVALIDMESSAGE |-> 1000, MESSAGENOTDELIVERED |-> 1001,
              RECEIVERUNKNOWN |-> 1002, VERIFYERROR |-> 1003, INVALIDKEY |-> 1004]
NotifyCode == [PING |-> 0, PONG |-> 1, LINKCLICKED |-> 2000, CONTACTREQUEST |-> 2001,
               CONTACTONLINE |-> 2002, CONTACTOFFLINE |-> 2003]

\* The browser's classes: "reads" is the switch of deserializeBinaryFromReader
\* (the setter and the reader of each case), "writes" is serializeBinaryToWriter
\* (the getter and the writer of each field number).
NewSession ==
    [reads  |-> << <<"pubkey", "string">>, <<"lifetime", "int64">>,
                   <<"group", "bool">> >>,
     writes |-> << <<"pubkey", "string">>, <<"lifetime", "int64">>,
                   <<"group", "bool">> >>]

SignedMsg ==
    [reads  |-> << <<"id", "int32">>, <<"type", "enum">>,
                   <<"receiver", "string">>, <<"sender", "string">>,
                   <<"body", "bytes">>, <<"sign", "bytes">> >>,
     writes |-> << <<"id", "int32">>, <<"type", "enum">>,
                   <<"receiver", "string">>, <<"sender", "string">>,
                   <<"body", "bytes">>, <<"sign", "bytes">> >>]

MessagePack ==
    [reads  |-> << <<"msg", "repeated">> >>,
     writes |-> << <<"msg", "repeated">> >>]

Message ==
    [reads  |-> << <<"msgid", "string">>, <<"receiver", "string">>,
                   <<"timestamp", "int64">>, <<"encryptedmsg", "bytes">> >>,
     writes |-> << <<"msgid", "string">>, <<"receiver", "string">>,
                   <<"timestamp", "int64">>, <<"encryptedmsg", "bytes">> >>]

ReceiptPack ==
    [reads  |-> << <<"receipts", "repeated">> >>,
     writes |-> << <<"receipts", "repeated">> >>]

MsgReceipt ==
    [reads  |-> << <<"msgid", "string">>, <<"state", "enum">> >>,
     writes |-> << <<"msgid", "string">>, <<"state", "enum">> >>]

Error ==
    [reads  |-> << <<"code", "enum">>, <<"message", "string">>,
                   <<"data", "string">> >>,
     writes |-> << <<"code", "enum">>, <<"message", "string">>,
                   <<"data", "string">> >>]

Notification ==
    [reads  |-> << <<"code", "enum">>, <<"message", "string">>,
                   <<"data", "string">> >>,
     writes |-> << <<"code", "enum">>, <<"message", "string">>,
                   <<"data", "string">> >>]

ClientHandShake ==
    [reads  |-> << <<"clientversion", "int32">> >>,
     writes |-> << <<"clientversion", "int32">> >>]

ServerHandShake ==
    [reads  |-> << <<"serverversion", "int32">>, <<"token", "string">> >>,
     writes |-> << <<"serverversion", "int32">>, <<"token", "string">> >>]

SignIn ==
    [reads  |-> << <<"fingerprint", "string">>, <<"token", "string">>,
                   <<"sign", "bytes">> >>,
     writes |-> << <<"fingerprint", "string">>, <<"token", "string">>,
                   <<"sign", "bytes">> >>]

\* The server's structs that travel on a web socket: the tags give the number
\* and the wire type of a field, its Go type the rest.
GoSignedMsg ==
    << <<"id", "int32">>, <<"type", "enum">>, <<"receiver", "string">>,
       <<"sender", "string">>, <<"body", "bytes">>, <<"sign", "bytes">> >>

GoError ==
    << <<"code", "enum">>, <<"message", "string">>, <<"data", "string">> >>

GoClientHandShake == << <<"clientversion", "int32">> >>

GoServerHandShake == << <<"serverversion", "int32">>, <<"token", "string">> >>

GoSignIn ==
    << <<"fingerprint", "string">>, <<"token", "string">>,
       <<"sign", "bytes">> >>

\* Who reads what whom has written: the browser the frames of the server, the
\* server those of the browser, and a browser what another one has packed in
\* the body or sent through a server that hands it on.
Passages ==
    {[writes |-> class.writes, reads |-> class.reads] :
        class \in {NewSession, SignedMsg, MessagePack, Message, ReceiptPack, MsgReceipt,
                   Error, Notification, ClientHandShake, ServerHandShake, SignIn}}
      \cup {[writes |-> SignedMsg.writes, reads |-> GoSignedMsg],
            [writes |-> GoSignedMsg, reads |-> SignedMsg.reads],
            [writes |-> GoError, reads |-> Error.reads],
            [writes |-> ClientHandShake.writes, reads |-> GoClientHandShake],
            [writes |-> GoServerHandShake, reads |-> ServerHandShake.reads],
            [writes |-> SignIn.writes, reads |-> GoSignIn]}

-----------------------------------------------------------------------------
(* Reading and writing.                                                    *)

\* What getFieldWithDefault returns for a field that was never set, and what
\* the setProto3...Field setters do not store.
Default(type) ==
    CASE type \in {"int32", "int64", "enum"} -> 0
      [] type = "bool" -> FALSE
      [] type = "string" -> ""
      [] OTHER -> << >>

\* Two of protobuf's wire types are enough for the types used.
WireType(type) ==
    IF type \in {"int32", "int64", "enum", "bool"} THEN "varint" ELSE "delimited"

\* serializeBinary, proto.Marshal: the fields that do not have their default.
Serialize(fields, object) ==
    [n \in {i \in DOMAIN fields : object[fields[i][1]] # Default(fields[i][2])} |->
        [wire |-> WireType(fields[n][2]), value |-> object[fields[n][1]]]]

\* The browser's reader asserts that a field it knows has the wire type it
\* expects.
Readable(fields, bytes) ==
    \A n \in DOMAIN fields \cap DOMAIN bytes : bytes[n].wire = WireType(fields[n][2])

Names(fields) == {fields[n][1] : n \in DOMAIN fields}

\* deserializeBinary: a field the class does not know is skipped, one that is
\* missing has its default.
Deserialize(fields, bytes) ==
    IF Readable(fields, bytes)
    THEN [name \in Names(fields) |->
            LET n == CHOOSE i \in DOMAIN fields : fields[i][1] = name
            IN  IF n \in DOMAIN bytes THEN bytes[n].value ELSE Default(fields[n][2])]
    ELSE Unreadable

\* Bytes that are no protobuf message at all: no reader gets through them.
Text == [field \in 1..6 |-> [wire |-> "none", value |-> Unreadable]]

=============================================================================
