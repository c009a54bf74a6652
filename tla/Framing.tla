------------------------------- MODULE Framing -------------------------------
(***************************************************************************)
(* The frames of the protocol, src/messaging/message_header.h and          *)
(* MessageParser of src/handler/message_handler.cpp: sequences of bytes.   *)
(***************************************************************************)
EXTENDS Integers, Sequences

Byte == 0..255

HeaderSize == 8          \* sizeof(MessageHeader): two uint32_t

\* MessageHeader::deserialize(): four bytes, the most significant first.
Uint32At(buffer, i) ==
    256 * (256 * (256 * buffer[i] + buffer[i + 1]) + buffer[i + 2]) + buffer[i + 3]

MessageId(buffer) == Uint32At(buffer, 1)
DataLength(buffer) == Uint32At(buffer, 5)

\* NetworkMessage::getTotalSize() of the message in front
TotalSize(buffer) == HeaderSize + DataLength(buffer)

\* isCompleteMessage(); whatever it accepts parseMessage() accepts, too.
IsCompleteMessage(buffer) ==
    Len(buffer) >= HeaderSize /\ Len(buffer) >= TotalSize(buffer)

\* parseMessage(): NetworkMessage::deserialize()
ParseMessage(buffer) ==
    [messageId |-> MessageId(buffer),
     body |-> SubSeq(buffer, HeaderSize + 1, TotalSize(buffer))]

\* MessageHeader::serialize(); the first byte takes what is above 32 bits away,
\* as the constructors of NetworkMessage do with the size_t of a body.
BytesOf(n) ==
    LET second == n \div 256
        third == second \div 256
        fourth == third \div 256
    IN <<fourth % 256, third % 256, second % 256, n % 256>>

\* NetworkMessage::serialize()
Serialize(message) ==
    BytesOf(message.messageId) \o BytesOf(Len(message.body)) \o message.body
=============================================================================
