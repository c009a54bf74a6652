------------------------ MODULE NetworkServer_proofs ------------------------
(***************************************************************************)
(* Proofs about NetworkServer, for every set of descriptors, clients,      *)
(* chunks of data and listeners and every size of the buffer.              *)
(***************************************************************************)
EXTENDS NetworkServer, SequenceTheorems, TLAPS

\* Entries of the vector have been added and not removed, and what is called
\* is the entry the notification is at.
NotificationInv ==
    /\ Dispatcher!TypeOK
    /\ \A i \in 1..Len(listeners) : listeners[i] \in registered
    /\ calling # {} => visiting \in 1..Len(listeners) /\ calling = {listeners[visiting]}

\* The types of the server itself; those of its dispatcher are above.
ServerTypes ==
    /\ phase \in {"created", "socket", "bind", "listen", "register", "initialized",
                  "starting", "started", "failed", "stopping", "closing", "down"}
    /\ isRunning \in BOOLEAN
    /\ serverSocket \in BOOLEAN
    /\ connection \in [Descriptors -> Clients \cup {NoClient}]
    /\ clientSockets \in SUBSET Descriptors
    /\ messageBuffers \in [Descriptors -> Seq(Byte)]
    /\ event \in Events \cup {NoEvent}
    /\ received \in [Clients -> Seq(Byte)]
    /\ handed \in [Clients -> Seq(Byte)]
    /\ overlong \in SUBSET Clients

\* What an event in progress knows of its descriptor: that of a new client and
\* of data is open, and one that is to be closed is in no list.
EventInv ==
    event # NoEvent =>
        /\ phase \in {"started", "stopping"}
        /\ event.at \in {"add", "register"} => event.kind = "accept"
        /\ event.at \in {"remove", "close"} => event.kind # "read"
        /\ event.at \in {"append", "parse", "respond", "rearm"} => event.kind = "read"
        /\ event.at \in {"add", "register"} \/ event.kind = "read"
             => connection[event.socket] # NoClient
        /\ event.at = "close" => /\ event.socket \notin clientSockets
                                 /\ messageBuffers[event.socket] = <<>>

\* Every open descriptor is listed but for that of a client which is just being
\* added or closed, and no two are of the same client.
DescriptorInv ==
    /\ \A d, e \in Descriptors :
          connection[d] = connection[e] /\ connection[d] # NoClient => d = e
    /\ \A d \in Descriptors :
          \/ connection[d] = NoClient
          \/ d \in clientSockets
          \/ event # NoEvent /\ event.socket = d /\ event.at \in {"add", "close"}
    /\ phase = "down" => clientSockets = {} /\ ~serverSocket

-----------------------------------------------------------------------------
(* The listeners                                                           *)

\* std::remove_if() and erase() leave some of the entries, none that is to go.
LEMMA EraseKeepsOthers ==
  ASSUME Dispatcher!TypeOK, NEW gone, Dispatcher!Erase(gone)
  PROVE  /\ listeners' \in Seq(Listeners)
         /\ Len(listeners') <= Len(listeners)
         /\ \A i \in 1..Len(listeners') :
               \E j \in (1..Len(listeners)) \ gone : listeners'[i] = listeners[j]
  <1>1. /\ listeners \in Seq(Listeners) /\ Len(listeners) \in Nat
        /\ \A j \in 1..Len(listeners) : listeners[j] \in Listeners
    BY DEF Dispatcher!TypeOK
  <1>0. PICK n \in 0..Len(listeners) : \E from \in [1..n -> (1..Len(listeners)) \ gone] :
           listeners' = [i \in 1..n |-> listeners[from[i]]]
    BY DEF Dispatcher!Erase
  <1>2. PICK from \in [1..n -> (1..Len(listeners)) \ gone] :
           listeners' = [i \in 1..n |-> listeners[from[i]]]
    BY <1>0
  <1>3. \A i \in 1..n : from[i] \in (1..Len(listeners)) \ gone
    BY <1>2
  <1>4. n \in Nat /\ n <= Len(listeners)
    BY <1>0, <1>1
  <1>5. \A i \in 1..n : listeners[from[i]] \in Listeners
    BY <1>1, <1>3
  <1>6. listeners' \in Seq(Listeners) /\ Len(listeners') = n
    BY <1>2, <1>4, <1>5
  <1> QED  BY <1>2, <1>3, <1>4, <1>6

\* A listener that calls back or is called, and a list that changes, in any
\* order: the list changes between two notifications only.
LEMMA NotificationStep ==
  ASSUME NotificationInv,
         \/ Dispatcher!ListenerCall \/ Dispatcher!NotifyBegins
         \/ Dispatcher!NotifyStep \/ Dispatcher!NotifyEnds
         \/ UNCHANGED listenerVars
  PROVE  NotificationInv'
  <1> USE DEF NotificationInv
  <1>1. CASE UNCHANGED listenerVars
    BY <1>1 DEF listenerVars, Dispatcher!TypeOK
  <1>2. ASSUME NEW l \in Listeners, Dispatcher!AddListener(l) PROVE NotificationInv'
    <2>1. /\ listeners' \in Seq(Listeners) /\ Len(listeners') = Len(listeners) + 1
          /\ \A i \in 1..Len(listeners') :
                listeners'[i] = IF i <= Len(listeners) THEN listeners[i] ELSE l
      BY <1>2 DEF Dispatcher!AddListener, Dispatcher!TypeOK
    <2>2. Len(listeners) \in Nat /\ visiting = 0
      BY <1>2 DEF Dispatcher!AddListener, Dispatcher!MutexFree, Dispatcher!TypeOK
    <2>3. Len(listeners') <= MaxListeners
      BY <1>2, <2>1, <2>2, ServerAssumption DEF Dispatcher!AddListener
    <2>4. Dispatcher!TypeOK'
      BY <1>2, <2>1, <2>2, <2>3 DEF Dispatcher!AddListener, Dispatcher!TypeOK
    <2>5. \A i \in 1..Len(listeners') : listeners'[i] \in registered'
      BY <1>2, <2>1, <2>2 DEF Dispatcher!AddListener
    <2>6. calling' = {}
      BY <1>2, <2>2 DEF Dispatcher!AddListener
    <2> QED  BY <2>4, <2>5, <2>6
  <1>3. ASSUME NEW gone, Dispatcher!Erase(gone), visiting = 0,
               UNCHANGED <<owned, visiting, calling>>,
               registered' \in SUBSET Listeners,
               \A j \in (1..Len(listeners)) \ gone : listeners[j] \in registered'
        PROVE  NotificationInv'
    <2>1. /\ listeners' \in Seq(Listeners) /\ Len(listeners') <= Len(listeners)
          /\ \A i \in 1..Len(listeners') : listeners'[i] \in registered'
      BY <1>3, EraseKeepsOthers
    <2>2. Len(listeners) \in Nat /\ Len(listeners') \in Nat
      BY <2>1 DEF Dispatcher!TypeOK
    <2>3. Dispatcher!TypeOK'
      BY <1>3, <2>1, <2>2, ServerAssumption DEF Dispatcher!TypeOK
    <2> QED  BY <1>3, <2>1, <2>3
  <1>4. ASSUME NEW l \in Listeners, Dispatcher!RemoveListener(l) PROVE NotificationInv'
    <2>1. \A j \in (1..Len(listeners)) \ Dispatcher!Gone(l) : listeners[j] \in registered'
      BY <1>4 DEF Dispatcher!RemoveListener, Dispatcher!Gone
    <2> QED  BY <1>3, <1>4, <2>1 DEF Dispatcher!RemoveListener, Dispatcher!MutexFree,
                                     Dispatcher!TypeOK
  <1>5. CASE Dispatcher!CleanupExpiredListeners
    BY <1>3, <1>5 DEF Dispatcher!CleanupExpiredListeners, Dispatcher!MutexFree,
                      Dispatcher!TypeOK
  <1>6. ASSUME NEW l \in Listeners, Dispatcher!DropListener(l) PROVE NotificationInv'
    BY <1>6 DEF Dispatcher!DropListener, Dispatcher!TypeOK
  <1>7. CASE Dispatcher!NotifyBegins
    BY <1>7 DEF Dispatcher!NotifyBegins, Dispatcher!MutexFree, Dispatcher!TypeOK
  <1>8. CASE Dispatcher!NotifyNext
    BY <1>8 DEF Dispatcher!NotifyNext, Dispatcher!TypeOK
  <1>9. CASE Dispatcher!ListenerReturns
    BY <1>9 DEF Dispatcher!ListenerReturns, Dispatcher!TypeOK
  <1>10. CASE Dispatcher!NotifyEnds
    BY <1>10 DEF Dispatcher!NotifyEnds, Dispatcher!TypeOK
  <1> QED
    BY <1>1, <1>2, <1>4, <1>5, <1>6, <1>7, <1>8, <1>9, <1>10
    DEF Dispatcher!ListenerCall, Dispatcher!NotifyStep

-----------------------------------------------------------------------------
(* Descriptors and events                                                  *)

\* No event is different from every event.
LEMMA NoEventIsNone == NoEvent \notin Events
  BY DEF NoEvent, Events

Steps == {"add", "register", "remove", "close", "notify", "notifying", "append", "parse",
          "respond", "rearm", "stuck"}

\* An event goes on.
LEMMA Going ==
  ASSUME ServerTypes, NEW before, At(before), NEW step \in Steps, Goes(step)
  PROVE  /\ event \in Events /\ event # NoEvent /\ event.at = before
         /\ event' \in Events /\ event' # NoEvent /\ event'.at = step
         /\ event'.socket = event.socket /\ event.socket \in Descriptors
         /\ event'.kind = event.kind /\ event'.data = event.data
  <1>1. event \in Events /\ event # NoEvent /\ event.at = before
    BY DEF ServerTypes, At
  <1>2. event' \in Events /\ event'.at = step
        /\ event'.socket = event.socket /\ event.socket \in Descriptors
        /\ event'.kind = event.kind /\ event'.data = event.data
    BY <1>1 DEF Goes, Events, Steps
  <1> QED  BY <1>1, <1>2, NoEventIsNone

\* An event comes.
LEMMA Beginning ==
  ASSUME NEW kind \in {"accept", "read", "write", "error", "failure"},
         NEW d \in Descriptors, NEW step \in Steps, NEW data \in Seq(Byte),
         Begins(kind, d, step, data)
  PROVE  /\ event = NoEvent /\ phase = "started"
         /\ event' \in Events /\ event' # NoEvent /\ event'.at = step
         /\ event'.socket = d /\ event'.kind = kind /\ event'.data = data
  <1>1. event' \in Events /\ event'.at = step
         /\ event'.socket = d /\ event'.kind = kind /\ event'.data = data
    BY DEF Begins, Events, Steps
  <1> QED  BY <1>1, NoEventIsNone DEF Begins, EventsCome

\* An event of a known kind is one of four.
LEMMA StepOfEvent ==
  ASSUME ServerTypes, NEW step, At(step)
  PROVE  /\ event \in Events /\ event # NoEvent /\ event.at = step
         /\ event.socket \in Descriptors /\ event.data \in Seq(Byte)
  BY DEF ServerTypes, At, Events

\* What four bytes can say.
Uint32 == {n \in Nat : n < 256 * 256 * 256 * 256}

\* A byte, taken off and put back.
LEMMA LowByte ==
  ASSUME NEW n \in Nat
  PROVE  \E q \in Nat, z \in 0..255 : q = n \div 256 /\ z = n % 256 /\ n = 256 * q + z
  <1>1. PICK q \in Nat, z \in 0..255 : q = n \div 256 /\ z = n % 256
    OBVIOUS
  <1>2. n = 256 * q + z
    BY <1>1, SMT
  <1> QED  BY <1>1, <1>2

\* A byte, put on.
LEMMA PutByte ==
  ASSUME NEW m \in Nat, NEW z \in 0..255 PROVE 256 * m + z \in Nat
  BY SMT

\* A number of 32 bits as four bytes, and back.
LEMMA BytesOfUint32 ==
  ASSUME NEW n \in Uint32
  PROVE  /\ BytesOf(n) \in Seq(Byte) /\ Len(BytesOf(n)) = 4
         /\ Uint32At(BytesOf(n), 1) = n
  <1>1. n \in Nat /\ n < 256 * 256 * 256 * 256
    BY DEF Uint32
  <1>3. PICK second \in Nat, z1 \in 0..255 :
           second = n \div 256 /\ z1 = n % 256 /\ n = 256 * second + z1
    BY <1>1, LowByte
  <1>5. PICK third \in Nat, z2 \in 0..255 :
           third = second \div 256 /\ z2 = second % 256 /\ second = 256 * third + z2
    BY LowByte
  <1>7. PICK fourth \in Nat, z3 \in 0..255 :
           fourth = third \div 256 /\ z3 = third % 256 /\ third = 256 * fourth + z3
    BY LowByte
  <1>8. fourth \in 0..255
    BY <1>1, <1>3, <1>5, <1>7, SMT
  <1>9. fourth % 256 = fourth
    BY <1>8, SMT
  <1>10. BytesOf(n) = <<fourth, z3, z2, z1>>
    BY <1>3, <1>5, <1>7, <1>9 DEF BytesOf
  <1>11. BytesOf(n) \in Seq(Byte) /\ Len(BytesOf(n)) = 4
    <2>1. fourth \in Byte /\ z3 \in Byte /\ z2 \in Byte /\ z1 \in Byte
      BY <1>8 DEF Byte
    <2> QED  BY <1>10, <2>1
  <1>12. Uint32At(BytesOf(n), 1) = 256 * (256 * (256 * fourth + z3) + z2) + z1
    BY <1>3, <1>5, <1>7, <1>8, <1>10, SMT DEF Uint32At
  <1> QED  BY <1>3, <1>5, <1>7, <1>11, <1>12, SMT

\* Four bytes as a number, and back.
LEMMA Uint32OfBytes ==
  ASSUME NEW b \in Seq(Byte), NEW i \in Nat, i >= 1, i + 3 <= Len(b)
  PROVE  /\ Uint32At(b, i) \in Nat
         /\ BytesOf(Uint32At(b, i)) = <<b[i], b[i + 1], b[i + 2], b[i + 3]>>
  <1>1. b[i] \in Byte /\ b[i + 1] \in Byte /\ b[i + 2] \in Byte /\ b[i + 3] \in Byte
    BY SMT
  <1>2. PICK w \in 0..255, x \in 0..255, y \in 0..255, z \in 0..255 :
           w = b[i] /\ x = b[i + 1] /\ y = b[i + 2] /\ z = b[i + 3]
    BY <1>1 DEF Byte
  <1>3. PICK third \in Nat : third = 256 * w + x
    BY SMT
  <1>4. PICK second \in Nat : second = 256 * third + y
    BY <1>3, PutByte
  <1>5. PICK n \in Nat : n = 256 * second + z
    BY <1>4, PutByte
  <1>6. /\ n \div 256 = second /\ n % 256 = z
        /\ second \div 256 = third /\ second % 256 = y
        /\ third \div 256 = w /\ third % 256 = x /\ w % 256 = w
    BY <1>3, <1>4, <1>5, SMT
  <1>7. Uint32At(b, i) = n
    BY <1>2, <1>3, <1>4, <1>5 DEF Uint32At
  <1>8. BytesOf(n) = <<w, x, y, z>>
    BY <1>6 DEF BytesOf
  <1> QED  BY <1>2, <1>7, <1>8

\* The first bytes of a sequence, and a body that begins after a header.
LEMMA FirstBytes ==
  ASSUME NEW b \in Seq(Byte), NEW n \in Nat, n <= Len(b)
  PROVE  \E part \in Seq(Byte) :
            part = SubSeq(b, 1, n) /\ Len(part) = n /\ \A i \in 1..n : part[i] = b[i]
  <1>1. /\ SubSeq(b, 1, n) \in Seq(Byte) /\ Len(SubSeq(b, 1, n)) = n
        /\ \A i \in 1..n : SubSeq(b, 1, n)[i] = b[i]
    OBVIOUS
  <1> WITNESS SubSeq(b, 1, n) \in Seq(Byte)
  <1> QED  BY <1>1

\* The bytes behind the header.
LEMMA BodyBytes ==
  ASSUME NEW b \in Seq(Byte), NEW n \in Nat, 8 <= n, n <= Len(b)
  PROVE  \E body \in Seq(Byte) :
            /\ body = SubSeq(b, 9, n) /\ Len(body) = n - 8
            /\ \A i \in 1..(n - 8) : body[i] = b[i + 8]
  <1>1. /\ SubSeq(b, 9, n) \in Seq(Byte) /\ Len(SubSeq(b, 9, n)) = n - 8
        /\ \A i \in 1..(n - 8) : SubSeq(b, 9, n)[i] = b[i + 8]
    OBVIOUS
  <1> WITNESS SubSeq(b, 9, n) \in Seq(Byte)
  <1> QED  BY <1>1

\* A part of a sequence that is put together from two.
LEMMA TwoParts ==
  ASSUME NEW b \in Seq(Byte), NEW n \in Nat, n <= Len(b), NEW k \in Nat, k <= n,
         NEW x \in Seq(Byte), Len(x) = k, \A i \in 1..k : x[i] = b[i],
         NEW y \in Seq(Byte), Len(y) = n - k, \A i \in 1..(n - k) : y[i] = b[i + k]
  PROVE  x \o y = SubSeq(b, 1, n)
  <1>1. /\ x \o y \in Seq(Byte) /\ Len(x \o y) = n
        /\ \A i \in 1..k : (x \o y)[i] = x[i]
        /\ \A i \in (k + 1)..n : (x \o y)[i] = y[i - k]
    BY ConcatProperties
  <1>2. PICK part \in Seq(Byte) :
           part = SubSeq(b, 1, n) /\ Len(part) = n /\ \A i \in 1..n : part[i] = b[i]
    BY FirstBytes
  <1>3. ASSUME NEW i \in 1..n PROVE (x \o y)[i] = part[i]
    <2>1. CASE i \in 1..k
      BY <1>1, <1>2, <2>1
    <2>2. CASE i \in (k + 1)..n
      <3>1. i - k \in 1..(n - k) /\ (i - k) + k = i
        BY <2>2
      <3>2. y[i - k] = b[(i - k) + k]
        BY <3>1
      <3> QED  BY <1>1, <1>2, <2>2, <3>1, <3>2
    <2> QED  BY <2>1, <2>2
  <1> QED  BY <1>1, <1>2, <1>3, SeqEqual

\* What a complete message is made of.
LEMMA CompleteMessage ==
  ASSUME NEW b \in Seq(Byte), IsCompleteMessage(b)
  PROVE  /\ TotalSize(b) \in HeaderSize..Len(b)
         /\ Serialize(ParseMessage(b)) = SubSeq(b, 1, TotalSize(b))
         /\ SubSeq(b, 1, TotalSize(b)) \in Seq(Byte)
         /\ SubSeq(b, TotalSize(b) + 1, Len(b)) \in Seq(Byte)
  <1>1. Len(b) \in Nat /\ Len(b) >= 8
    BY DEF IsCompleteMessage, HeaderSize
  <1>2. /\ MessageId(b) \in Nat /\ BytesOf(MessageId(b)) = <<b[1], b[2], b[3], b[4]>>
        /\ DataLength(b) \in Nat /\ BytesOf(DataLength(b)) = <<b[5], b[6], b[7], b[8]>>
    BY <1>1, Uint32OfBytes DEF MessageId, DataLength
  <1>3. PICK n \in 8..Len(b) : n = TotalSize(b) /\ n = 8 + DataLength(b)
    BY <1>1, <1>2 DEF IsCompleteMessage, TotalSize, HeaderSize
  <1>4. PICK body \in Seq(Byte) :
           /\ body = SubSeq(b, 9, n) /\ Len(body) = n - 8
           /\ \A i \in 1..(n - 8) : body[i] = b[i + 8]
    <2>1. n \in Nat /\ 8 <= n /\ n <= Len(b)
      BY <1>1, <1>3
    <2> QED  BY <2>1, BodyBytes
  <1>5. PICK front \in Seq(Byte), size \in Seq(Byte) :
           /\ front = <<b[1], b[2], b[3], b[4]>> /\ Len(front) = 4
           /\ size = <<b[5], b[6], b[7], b[8]>> /\ Len(size) = 4
    <2>1. \A i \in 1..8 : b[i] \in Byte
      BY <1>1
    <2>2. /\ <<b[1], b[2], b[3], b[4]>> \in Seq(Byte)
          /\ <<b[5], b[6], b[7], b[8]>> \in Seq(Byte)
      BY <2>1
    <2> WITNESS <<b[1], b[2], b[3], b[4]>> \in Seq(Byte), <<b[5], b[6], b[7], b[8]>> \in Seq(Byte)
    <2> QED  OBVIOUS
  <1>6. Serialize(ParseMessage(b)) = (front \o size) \o body
    <2>1. ParseMessage(b).messageId = MessageId(b) /\ ParseMessage(b).body = body
      BY <1>3, <1>4 DEF ParseMessage, HeaderSize
    <2>2. Len(body) = DataLength(b)
      BY <1>2, <1>3, <1>4
    <2> QED  BY <1>2, <1>5, <2>1, <2>2 DEF Serialize
  <1>7. front \o size = SubSeq(b, 1, 8)
    <2>1. \A i \in 1..4 : front[i] = b[i]
      <3>1. \A i \in 1..4 : i = 1 \/ i = 2 \/ i = 3 \/ i = 4
        OBVIOUS
      <3> QED  BY <1>5, <3>1
    <2>2. \A i \in 1..4 : size[i] = b[i + 4]
      <3>1. \A i \in 1..4 : i = 1 \/ i = 2 \/ i = 3 \/ i = 4
        OBVIOUS
      <3> QED  BY <1>5, <3>1
    <2> QED  BY <1>1, <1>5, <2>1, <2>2, TwoParts
  <1>8. (front \o size) \o body = SubSeq(b, 1, n)
    <2>1. PICK header \in Seq(Byte) :
             header = SubSeq(b, 1, 8) /\ Len(header) = 8 /\ \A i \in 1..8 : header[i] = b[i]
      BY <1>1, FirstBytes
    <2>2. header \o body = SubSeq(b, 1, n)
      BY <1>1, <1>3, <1>4, <2>1, TwoParts
    <2> QED  BY <1>7, <2>1, <2>2
  <1>9. SubSeq(b, 1, n) \in Seq(Byte) /\ SubSeq(b, n + 1, Len(b)) \in Seq(Byte)
    BY <1>1, <1>3
  <1> QED  BY <1>3, <1>6, <1>8, <1>9 DEF HeaderSize

\* What the server knows of its descriptors.
ServerInv ==
    ServerTypes /\ EventInv /\ DescriptorInv /\ ListsFollowDescriptors

\* The owner's calls, up to stop().
LEMMA OwnerKeepsServer ==
  ASSUME ServerInv, OwnerStep PROVE ServerInv'
  <1> USE DEF ServerInv, ServerTypes, EventInv, DescriptorInv, ListsFollowDescriptors,
              Moves, OwnersOnly, clientVars, dataVars
  <1>1. CASE InitializeAsyncIO
    BY <1>1 DEF InitializeAsyncIO
  <1>2. CASE CreateSocket
    BY <1>2 DEF CreateSocket
  <1>3. CASE BindAndListen
    BY <1>3 DEF BindAndListen
  <1>4. CASE RegisterServerSocket
    BY <1>4 DEF RegisterServerSocket
  <1>5. CASE Start
    BY <1>5 DEF Start
  <1>6. CASE StartEventLoop
    BY <1>6 DEF StartEventLoop
  <1>7. CASE Stop
    BY <1>7 DEF Stop
  <1> QED  BY <1>1, <1>2, <1>3, <1>4, <1>5, <1>6, <1>7 DEF OwnerStep

\* Shutting down closes what is left, and no event is in progress.
LEMMA ShutdownKeepsServer ==
  ASSUME ServerInv, ShutdownStep PROVE ServerInv'
  <1> USE DEF ServerInv, ServerTypes, EventInv, DescriptorInv, ListsFollowDescriptors,
              Moves, clientVars, dataVars
  <1>1. CASE ShutdownAsyncIO
    BY <1>1 DEF ShutdownAsyncIO
  <1>2. CASE CloseAll
    BY <1>2 DEF CloseAll
  <1> QED  BY <1>1, <1>2 DEF ShutdownStep

\* An event that comes.
LEMMA ArrivalKeepsServer ==
  ASSUME ServerInv, EventArrives PROVE ServerInv'
  <1> USE DEF ServerInv
  <1>1. ASSUME NEW d \in Descriptors, NEW c \in Clients, AcceptEvent(c, d)
        PROVE  ServerInv'
    <2>1. /\ event = NoEvent /\ phase = "started"
          /\ event' \in Events /\ event' # NoEvent /\ event'.at = "add"
          /\ event'.socket = d /\ event'.kind = "accept"
      <3>1. Begins("accept", d, "add", <<>>) /\ <<>> \in Seq(Byte)
        BY <1>1, EmptySeq DEF AcceptEvent
      <3> QED  BY <3>1, Beginning DEF Steps
    <2>2. /\ connection' = [connection EXCEPT ![d] = c]
          /\ connection[d] = NoClient /\ \A e \in Descriptors : connection[e] # c
          /\ c # NoClient
          /\ UNCHANGED <<lifeVars, clientSockets, messageBuffers, dataVars>>
      BY <1>1, ServerAssumption DEF AcceptEvent
    <2>3. ServerTypes'
      BY <2>1, <2>2 DEF ServerTypes, lifeVars, dataVars
    <2>4. EventInv'
      BY <2>1, <2>2 DEF EventInv, ServerTypes, lifeVars, dataVars
    <2>5. DescriptorInv'
      BY <2>1, <2>2 DEF DescriptorInv, ServerTypes, lifeVars
    <2>6. ListsFollowDescriptors'
      BY <2>1, <2>2 DEF ListsFollowDescriptors, ServerTypes, lifeVars
    <2> QED  BY <2>3, <2>4, <2>5, <2>6
  <1>2. ASSUME NEW d \in Descriptors,
               NEW kind \in {"read", "write", "error", "failure"},
               NEW step \in {"notify", "remove"}, NEW data \in Seq(Byte),
               kind = "read" => step = "notify" /\ connection[d] # NoClient,
               Begins(kind, d, step, data),
               UNCHANGED <<lifeVars, clientVars, dataVars>>
        PROVE  ServerInv'
    <2>1. /\ event = NoEvent /\ phase = "started"
          /\ event' \in Events /\ event' # NoEvent /\ event'.at = step
          /\ event'.socket = d /\ event'.kind = kind
      BY <1>2, Beginning DEF Steps
    <2>2. ServerTypes'
      BY <1>2, <2>1 DEF ServerTypes, lifeVars, clientVars, dataVars
    <2>3. EventInv'
      BY <1>2, <2>1 DEF EventInv, lifeVars, clientVars
    <2>4. DescriptorInv' /\ ListsFollowDescriptors'
      BY <1>2, <2>1 DEF DescriptorInv, ListsFollowDescriptors, lifeVars, clientVars
    <2> QED  BY <2>2, <2>3, <2>4
  <1>3. ASSUME NEW d \in Descriptors, NEW data \in Chunks, ReadEvent(d, data)
        PROVE  ServerInv'
    <2>1. data \in Seq(Byte)
      BY ServerAssumption
    <2> QED  BY <1>2, <1>3, <2>1 DEF ReadEvent
  <1>4. ASSUME NEW d \in Descriptors, WriteEvent(d) \/ ErrorEvent(d) PROVE ServerInv'
    <2>1. UNCHANGED <<lifeVars, clientVars, dataVars>> /\ <<>> \in Seq(Byte)
      BY <1>4, EmptySeq DEF WriteEvent, ErrorEvent
    <2>2. CASE WriteEvent(d)
      <3>1. Begins("write", d, "notify", <<>>)
        BY <2>2 DEF WriteEvent
      <3> QED  BY <1>2, <2>1, <3>1
    <2>3. CASE ErrorEvent(d)
      <3>1. PICK kind \in {"error", "failure"} : Begins(kind, d, "remove", <<>>)
        BY <2>3 DEF ErrorEvent
      <3>2. kind \in {"read", "write", "error", "failure"} /\ kind # "read"
        BY <3>1
      <3> QED  BY <1>2, <2>1, <3>1, <3>2
    <2> QED  BY <1>4, <2>2, <2>3
  <1> QED  BY <1>1, <1>3, <1>4 DEF EventArrives

\* The steps of an event that only deal with descriptors.
LEMMA DescriptorStepsKeepServer ==
  ASSUME ServerInv, AddClient \/ RegisterClient \/ RemoveFailed \/ CloseFailed
  PROVE  ServerInv'
  <1> USE DEF ServerInv
  <1>1. CASE AddClient
    <2>1. At("add") /\ Goes("register") /\ ServerTypes
      BY <1>1 DEF AddClient
    <2>2. /\ event \in Events /\ event # NoEvent /\ event.at = "add"
          /\ event' \in Events /\ event' # NoEvent /\ event'.at = "register"
          /\ event'.socket = event.socket /\ event.socket \in Descriptors
          /\ event'.kind = event.kind
      BY <2>1, Going DEF Steps
    <2>3. /\ clientSockets' = clientSockets \cup {event.socket}
          /\ UNCHANGED <<lifeVars, connection, messageBuffers, dataVars>>
      BY <1>1 DEF AddClient, EventsOnly
    <2>4. ServerTypes'
      BY <2>2, <2>3 DEF ServerTypes, lifeVars, dataVars
    <2>5. EventInv' /\ DescriptorInv'
      BY <2>2, <2>3 DEF EventInv, DescriptorInv, lifeVars
    <2>6. ListsFollowDescriptors'
      BY <2>2, <2>3 DEF EventInv, ListsFollowDescriptors, lifeVars
    <2> QED  BY <2>4, <2>5, <2>6
  \* removeClient(), before the descriptor is closed.
  <1>2. ASSUME RemoveClient(event.socket), Goes("close"),
               At("register") \/ At("remove"),
               UNCHANGED <<lifeVars, connection, dataVars>>
        PROVE  ServerInv'
    <2>1. /\ event \in Events /\ event # NoEvent /\ event.at \in {"register", "remove"}
          /\ event' \in Events /\ event' # NoEvent /\ event'.at = "close"
          /\ event'.socket = event.socket /\ event.socket \in Descriptors
          /\ event'.kind = event.kind
      BY <1>2, Going DEF Steps
    <2>2. /\ clientSockets' = clientSockets \ {event.socket}
          /\ messageBuffers' = [messageBuffers EXCEPT ![event.socket] = <<>>]
          /\ <<>> \in Seq(Byte)
      BY <1>2, EmptySeq DEF RemoveClient
    <2>3. ServerTypes'
      BY <1>2, <2>1, <2>2 DEF ServerTypes, lifeVars, dataVars
    <2>4. EventInv'
      BY <1>2, <2>1, <2>2 DEF EventInv, ServerTypes, lifeVars
    <2>5. DescriptorInv'
      BY <1>2, <2>1, <2>2 DEF EventInv, DescriptorInv, lifeVars
    <2>6. ListsFollowDescriptors'
      BY <1>2, <2>1, <2>2 DEF ListsFollowDescriptors, ServerTypes, lifeVars
    <2> QED  BY <2>3, <2>4, <2>5, <2>6
  <1>3. CASE RegisterClient
    <2>1. CASE Returns("notify") /\ UNCHANGED <<clientSockets, messageBuffers>>
      <3>1. /\ event \in Events /\ event # NoEvent /\ event.at = "register"
            /\ event' \in Events /\ event' # NoEvent /\ event'.at \in {"notify", "stuck"}
            /\ event'.socket = event.socket /\ event.socket \in Descriptors
            /\ event'.kind = event.kind
        <4>1. At("register") /\ \E step \in {"notify", "stuck"} : Goes(step)
          BY <1>3, <2>1 DEF RegisterClient, Returns
        <4> QED  BY <4>1, Going DEF Steps
      <3>2. UNCHANGED <<lifeVars, connection, dataVars>>
        BY <1>3 DEF RegisterClient, EventsOnly
      <3>3. ServerTypes'
        BY <2>1, <3>1, <3>2 DEF ServerTypes, lifeVars, dataVars
      <3>4. EventInv' /\ DescriptorInv' /\ ListsFollowDescriptors'
        BY <2>1, <3>1, <3>2 DEF EventInv, DescriptorInv, ListsFollowDescriptors, lifeVars
      <3> QED  BY <3>3, <3>4
    <2>2. CASE RegisterFails
      BY <1>2, <1>3, <2>2 DEF RegisterClient, RegisterFails, EventsOnly
    <2> QED  BY <1>3, <2>1, <2>2 DEF RegisterClient
  <1>4. CASE RemoveFailed
    BY <1>2, <1>4 DEF RemoveFailed, EventsOnly
  <1>5. CASE CloseFailed
    <2>1. event \in Events /\ event # NoEvent /\ event.at = "close"
          /\ event.socket \in Descriptors
      BY <1>5, StepOfEvent DEF CloseFailed
    <2>2. /\ connection' = [connection EXCEPT ![event.socket] = NoClient]
          /\ UNCHANGED <<lifeVars, clientSockets, messageBuffers, dataVars>>
      BY <1>5 DEF CloseFailed, EventsOnly
    <2>3. \/ event' = NoEvent
          \/ /\ event' \in Events /\ event' # NoEvent /\ event'.at = "notify"
             /\ event'.socket = event.socket /\ event'.kind = event.kind
      <3>1. CASE Goes("notify")
        BY <1>5, <3>1, Going DEF CloseFailed, Steps
      <3> QED  BY <1>5, <3>1 DEF CloseFailed
    <2>4. ServerTypes'
      BY <2>1, <2>2, <2>3 DEF ServerTypes, lifeVars, dataVars
    <2>5. EventInv'
      BY <2>1, <2>2, <2>3 DEF EventInv, lifeVars
    <2>6. DescriptorInv'
      BY <2>1, <2>2, <2>3 DEF EventInv, DescriptorInv, ServerTypes, lifeVars
    <2>7. ListsFollowDescriptors'
      BY <2>1, <2>2, <2>3 DEF EventInv, ListsFollowDescriptors, ServerTypes, lifeVars
    <2> QED  BY <2>4, <2>5, <2>6, <2>7
  <1> QED  BY <1>1, <1>3, <1>4, <1>5

\* The steps of an event that deal with its data.
LEMMA DataStepsKeepServer ==
  ASSUME ServerInv,
         \/ Notify \/ AppendData \/ AppendFails \/ HandOver \/ HandOverFails
         \/ Respond \/ EndRead \/ Rearm
  PROVE  ServerInv'
  <1> USE DEF ServerInv
  \* The buffer of an open descriptor may change, and the event goes on or ends.
  <1>1. ASSUME event \in Events, event # NoEvent,
               event.at \in {"notify", "notifying", "append", "parse", "respond", "rearm"},
               \/ event' \in {event, NoEvent}
               \/ /\ event' \in Events /\ event' # NoEvent
                  /\ event'.at \in {"notifying", "append", "parse", "respond", "rearm", "stuck"}
                  /\ event'.at # "notifying" => event.kind = "read"
                  /\ event'.socket = event.socket /\ event'.kind = event.kind,
               \/ UNCHANGED messageBuffers
               \/ /\ event.at \in {"append", "parse"}
                  /\ \E b \in Seq(Byte) : SetBuffer(b),
               received' \in [Clients -> Seq(Byte)],
               handed' \in [Clients -> Seq(Byte)],
               overlong' \in SUBSET Clients,
               UNCHANGED <<lifeVars, connection, clientSockets>>
        PROVE  ServerInv'
    <2>1. event.socket \in Descriptors
      BY <1>1 DEF Events
    <2>2. ServerTypes'
      BY <1>1, <2>1 DEF ServerTypes, SetBuffer, lifeVars
    <2>3. EventInv'
      BY <1>1, <2>1 DEF EventInv, lifeVars
    <2>4. DescriptorInv'
      BY <1>1, <2>1 DEF DescriptorInv, lifeVars
    <2>5. ListsFollowDescriptors'
      BY <1>1, <2>1 DEF ListsFollowDescriptors, EventInv, ServerTypes, SetBuffer, lifeVars
    <2> QED  BY <2>2, <2>3, <2>4, <2>5
  <1>2. /\ received \in [Clients -> Seq(Byte)] /\ handed \in [Clients -> Seq(Byte)]
        /\ overlong \in SUBSET Clients
    BY DEF ServerTypes
  \* A read event goes on to another step.
  <1>3. ASSUME NEW before \in {"append", "parse", "respond", "rearm"}, At(before),
               NEW after \in {"parse", "respond", "rearm", "stuck"}, Goes(after)
        PROVE  /\ event \in Events /\ event # NoEvent /\ event.at = before
               /\ event' \in Events /\ event' # NoEvent /\ event'.at = after
               /\ event.kind = "read" /\ event'.at # "notifying"
               /\ event'.socket = event.socket /\ event'.kind = event.kind
    <2>1. /\ event \in Events /\ event # NoEvent /\ event.at = before
          /\ event' \in Events /\ event' # NoEvent /\ event'.at = after
          /\ event'.socket = event.socket /\ event'.kind = event.kind
      BY <1>3, Going DEF Steps
    <2> QED  BY <1>3, <2>1 DEF EventInv
  \* The buffer, and the client the data is for.
  <1>4. ASSUME NEW before \in {"append", "parse"}, At(before)
        PROVE  /\ Buffer \in Seq(Byte) /\ event.data \in Seq(Byte)
               /\ connection[event.socket] \in Clients
    <2>1. /\ event \in Events /\ event # NoEvent /\ event.at = before
          /\ event.socket \in Descriptors /\ event.data \in Seq(Byte)
      BY <1>4, StepOfEvent
    <2> QED  BY <1>4, <2>1 DEF EventInv, ServerTypes, Buffer
  <1>5. CASE Notify
    <2>1. PICK step \in {"notify", "notifying"} : At(step)
      BY <1>5 DEF Notify
    <2>2. event \in Events /\ event # NoEvent /\ event.at \in {"notify", "notifying"}
      BY <2>1, StepOfEvent
    <2>3. UNCHANGED <<lifeVars, connection, clientSockets, messageBuffers,
                      received, handed, overlong>>
      BY <1>5 DEF Notify, EventsOnly, clientVars, dataVars
    <2>4. \/ event' \in {event, NoEvent}
          \/ /\ event' \in Events /\ event' # NoEvent
             /\ event'.at \in {"notifying", "append"}
             /\ event'.at # "notifying" => event.kind = "read"
             /\ event'.socket = event.socket /\ event'.kind = event.kind
      <3>1. CASE At("notify") /\ Goes("notifying")
        BY <3>1, Going DEF Steps
      <3>2. CASE UNCHANGED event \/ event' = NoEvent
        BY <3>2
      <3>3. CASE At("notifying") /\ event.kind = "read" /\ Goes("append")
        BY <3>3, Going DEF Steps
      <3> QED  BY <1>5, <3>1, <3>2, <3>3 DEF Notify
    <2> QED  BY <1>1, <1>2, <2>2, <2>3, <2>4
  <1>6. CASE AppendData
    <2>1. /\ At("append") /\ Goes("parse") /\ SetBuffer(Appended)
          /\ UNCHANGED <<lifeVars, connection, clientSockets, handed, overlong>>
          /\ received' = [received EXCEPT ![connection[event.socket]] = @ \o event.data]
      BY <1>6 DEF AppendData, EventsOnly
    <2>2. Appended \in Seq(Byte) /\ event.data \in Seq(Byte)
          /\ connection[event.socket] \in Clients
      BY <1>4, <2>1 DEF Appended
    <2>3. received' \in [Clients -> Seq(Byte)]
      BY <1>2, <2>1, <2>2
    <2> QED  BY <1>1, <1>2, <1>3, <2>1, <2>2, <2>3
  <1>7. CASE HandOver
    <2>1. /\ At("parse") /\ IsCompleteMessage(Buffer)
          /\ handed' = [handed EXCEPT ![connection[event.socket]] =
                            @ \o Serialize(ParseMessage(Buffer))]
          /\ SetBuffer(SubSeq(Buffer, TotalSize(Buffer) + 1, Len(Buffer)))
          /\ event' = event
          /\ UNCHANGED <<lifeVars, connection, clientSockets, received, overlong>>
      BY <1>7 DEF HandOver, EventsOnly
    <2>2. Buffer \in Seq(Byte) /\ connection[event.socket] \in Clients
      BY <1>4, <2>1
    <2>3. /\ Serialize(ParseMessage(Buffer)) \in Seq(Byte)
          /\ SubSeq(Buffer, TotalSize(Buffer) + 1, Len(Buffer)) \in Seq(Byte)
      BY <2>1, <2>2, CompleteMessage
    <2>4. handed' \in [Clients -> Seq(Byte)]
      <3>1. PICK message \in Seq(Byte) : message = Serialize(ParseMessage(Buffer))
        BY <2>3
      <3>2. handed' = [handed EXCEPT ![connection[event.socket]] = @ \o message]
        BY <2>1, <3>1
      <3> QED  BY <1>2, <2>2, <3>2
    <2>5. event \in Events /\ event # NoEvent /\ event.at = "parse"
      BY <2>1, StepOfEvent
    <2> QED  BY <1>1, <1>2, <2>1, <2>3, <2>4, <2>5
  <1>8. CASE EndRead
    <2>1. /\ At("parse") /\ Goes("rearm")
          /\ SetBuffer(IF Len(Buffer) > MaxBuffer THEN <<>> ELSE Buffer)
          /\ overlong' = overlong \cup {c \in {connection[event.socket]} : Overlong(Buffer)}
          /\ UNCHANGED <<lifeVars, connection, clientSockets, received, handed>>
      BY <1>8 DEF EndRead, EventsOnly
    <2>2. Buffer \in Seq(Byte) /\ <<>> \in Seq(Byte) /\ connection[event.socket] \in Clients
      BY <1>4, <2>1, EmptySeq
    <2>3. \E b \in Seq(Byte) : SetBuffer(b)
      BY <2>1, <2>2
    <2>4. overlong' \in SUBSET Clients
      BY <1>2, <2>1, <2>2
    <2> QED  BY <1>1, <1>2, <1>3, <2>1, <2>3, <2>4
  <1>9. CASE AppendFails \/ HandOverFails \/ Respond \/ Rearm
    <2>1. UNCHANGED <<lifeVars, connection, clientSockets, messageBuffers,
                      received, handed, overlong>>
      BY <1>9 DEF AppendFails, HandOverFails, Respond, Rearm, EventsOnly, clientVars, dataVars
    <2>2. PICK before \in {"append", "parse", "respond", "rearm"} :
             /\ At(before)
             /\ \/ event' = NoEvent
                \/ \E after \in {"respond", "rearm", "stuck"} : Goes(after)
      BY <1>9 DEF AppendFails, HandOverFails, Respond, Rearm, Returns
    <2>3. event \in Events /\ event # NoEvent /\ event.at = before
      BY <2>2, StepOfEvent
    <2>4. CASE event' = NoEvent
      BY <1>1, <1>2, <2>1, <2>3, <2>4
    <2>5. ASSUME NEW after \in {"respond", "rearm", "stuck"}, Goes(after) PROVE ServerInv'
      BY <1>1, <1>2, <1>3, <2>1, <2>2, <2>5
    <2> QED  BY <2>2, <2>4, <2>5
  <1> QED  BY <1>5, <1>6, <1>7, <1>8, <1>9

\* Every step keeps the server and its listeners in order.
LEMMA ServerStep ==
  ASSUME ServerInv, NotificationInv, [Next]_vars PROVE ServerInv' /\ NotificationInv'
  <1>1. ServerInv'
    <2>1. CASE ListenerCall \/ UNCHANGED vars
      <3>1. UNCHANGED <<lifeVars, clientVars, event, dataVars>>
        BY <2>1 DEF ListenerCall, vars
      <3> QED  BY <3>1 DEF ServerInv, ServerTypes, EventInv, DescriptorInv,
                           ListsFollowDescriptors, lifeVars, clientVars, dataVars
    <2> QED
      BY <2>1, OwnerKeepsServer, ShutdownKeepsServer, ArrivalKeepsServer,
         DescriptorStepsKeepServer, DataStepsKeepServer DEF Next, EventStep
  <1>2. \/ Dispatcher!ListenerCall \/ Dispatcher!NotifyBegins
        \/ Dispatcher!NotifyStep \/ Dispatcher!NotifyEnds
        \/ UNCHANGED listenerVars
    BY DEF Next, OwnerStep, InitializeAsyncIO, CreateSocket, BindAndListen,
           RegisterServerSocket, Start, StartEventLoop, Stop, OwnersOnly, ShutdownStep,
           ShutdownAsyncIO, CloseAll, EventArrives, AcceptEvent, ReadEvent, WriteEvent,
           ErrorEvent, EventStep, AddClient, RegisterClient, RemoveFailed, CloseFailed,
           Notify, AppendData, AppendFails, HandOver, HandOverFails, Respond, EndRead,
           Rearm, ListenerCall, vars
  <1> QED  BY <1>1, <1>2, NotificationStep

\* The server before initialize().
LEMMA ServerInit == Init => ServerInv /\ NotificationInv
  <1> SUFFICES ASSUME Init PROVE ServerInv /\ NotificationInv
    OBVIOUS
  <1>1. <<>> \in Seq(Byte) /\ <<>> \in Seq(Listeners) /\ Len(<<>>) = 0
    BY EmptySeq
  <1>2. ServerTypes
    BY <1>1 DEF Init, ServerTypes
  <1>3. EventInv /\ DescriptorInv /\ ListsFollowDescriptors
    BY DEF Init, EventInv, DescriptorInv, ListsFollowDescriptors
  <1>4. NotificationInv
    <2>1. /\ listeners = <<>> /\ owned = Listeners /\ visiting = 0
          /\ calling = {} /\ registered = {}
      BY DEF Init, Dispatcher!Init
    <2>2. Dispatcher!TypeOK
      BY <1>1, <2>1, ServerAssumption DEF Dispatcher!TypeOK
    <2> QED  BY <1>1, <2>1, <2>2 DEF NotificationInv
  <1> QED  BY <1>2, <1>3, <1>4 DEF ServerInv

\* The inductive invariant of lists, descriptors and events holds in every
\* reachable state.
LEMMA ServerInvariant == Spec => [](ServerInv /\ NotificationInv)
  BY ServerInit, ServerStep, PTL DEF Spec

\* The events of the asynchronous I/O, the owner's calls and the listeners keep
\* the variables of the server within their types.
THEOREM ServerTypeCorrect == Spec => []TypeOK
  <1>1. ServerInv /\ NotificationInv => TypeOK
    BY DEF ServerInv, ServerTypes, NotificationInv, TypeOK
  <1> QED  BY <1>1, ServerInvariant, PTL

\* removeClient() before CLOSE_SOCKET(): no list names a descriptor that may be
\* the next client's.
THEOREM ServerListsFollow == Spec => []ListsFollowDescriptors
  <1>1. ServerInv => ListsFollowDescriptors
    BY DEF ServerInv
  <1> QED  BY <1>1, ServerInvariant, PTL

\* However far initialize() and start() came and whatever events there were,
\* shutdown() closes every socket.
THEOREM ServerNothingLeftOpen == Spec => []NothingLeftOpen
  <1>1. ServerInv => NothingLeftOpen
    BY DEF ServerInv, EventInv, DescriptorInv, NothingLeftOpen
  <1> QED  BY <1>1, ServerInvariant, PTL

\* removeListener() returns with the listener out of the vector, however often
\* it was added, and with no call of it in progress.
THEOREM ServerSilentAfterRemoval == Spec => []SilentAfterRemoval
  <1>1. NotificationInv => SilentAfterRemoval
    BY DEF NotificationInv, SilentAfterRemoval, Dispatcher!SilentAfterRemoval
  <1> QED  BY <1>1, ServerInvariant, PTL

-----------------------------------------------------------------------------
(* The framing of what is received                                         *)

\* Nobody is handed anything, or found to send too much, before something was
\* received.
ReceivedInv ==
    \A c \in Clients : received[c] = <<>> => handed[c] = <<>> /\ c \notin overlong

\* The client of d has been accepted and not yet forgotten.
Listed(d) ==
    d \in clientSockets \/ (event # NoEvent /\ event.socket = d /\ event.at = "add")

FramedOn(d) ==
    LET c == connection[d]
    IN c # NoClient /\ Listed(d) /\ c \notin overlong
         => handed[c] \o messageBuffers[d] = received[c]

FramingInv == ReceivedInv /\ \A d \in Descriptors : FramedOn(d)

\* Putting sequences together is associative.
LEMMA Regroup ==
  ASSUME NEW x \in Seq(Byte), NEW y \in Seq(Byte), NEW z \in Seq(Byte)
  PROVE  (x \o y) \o z = x \o (y \o z)
  BY ConcatAssociative, SMT

\* z is x followed by y.
IsJoined(z, x, n, y, m) ==
    /\ z = x \o y /\ Len(z) = n + m
    /\ \A i \in 1..n : z[i] = x[i]
    /\ \A i \in 1..m : z[i + n] = y[i]

\* Two sequences, joined.
LEMMA Joined ==
  ASSUME NEW x \in Seq(Byte), NEW y \in Seq(Byte),
         NEW n \in Nat, Len(x) = n, NEW m \in Nat, Len(y) = m
  PROVE  \E z \in Seq(Byte) : IsJoined(z, x, n, y, m)
  <1>1. /\ x \o y \in Seq(Byte) /\ Len(x \o y) = n + m
        /\ \A i \in 1..n : (x \o y)[i] = x[i]
        /\ \A i \in 1..m : (x \o y)[i + n] = y[i]
    OBVIOUS
  <1> WITNESS x \o y \in Seq(Byte)
  <1> QED  BY <1>1 DEF IsJoined

\* A complete message leaves the buffer, and all is still there.
LEMMA FramedHandOver ==
  ASSUME NEW h \in Seq(Byte), NEW b \in Seq(Byte), IsCompleteMessage(b)
  PROVE  (h \o Serialize(ParseMessage(b))) \o SubSeq(b, TotalSize(b) + 1, Len(b)) = h \o b
  <1>1. PICK size \in HeaderSize..Len(b) : size = TotalSize(b)
    BY CompleteMessage
  <1>2. PICK front \in Seq(Byte), left \in Seq(Byte) :
           /\ front = Serialize(ParseMessage(b)) /\ front = SubSeq(b, 1, size)
           /\ left = SubSeq(b, size + 1, Len(b))
    BY <1>1, CompleteMessage
  <1>3. Len(b) \in Nat /\ size \in 0..Len(b)
    BY <1>1 DEF HeaderSize
  <1>4. front \o left = b
    <2>1. 1 \in 1..(Len(b) + 1) /\ size \in (1 - 1)..Len(b) /\ Len(b) \in size..Len(b)
      BY <1>3
    <2>2. SubSeq(b, 1, size) \o SubSeq(b, size + 1, Len(b)) = SubSeq(b, 1, Len(b))
      BY <2>1, ConcatAdjacentSubSeq
    <2> QED  BY <1>2, <2>2, SubSeqFull
  <1>5. (h \o front) \o left = h \o (front \o left)
    BY Regroup
  <1> QED  BY <1>1, <1>2, <1>4, <1>5

\* What is not complete and yet too much is the beginning of a message that is
\* too long.
LEMMA DroppedIsOverlong ==
  ASSUME NEW b \in Seq(Byte), ~IsCompleteMessage(b), Len(b) > MaxBuffer
  PROVE  Overlong(b)
  <1>1. Len(b) \in Nat /\ MaxBuffer \in Nat /\ Len(b) >= HeaderSize /\ Len(b) >= 8
    BY ServerAssumption DEF HeaderSize
  <1>2. DataLength(b) \in Nat
    BY <1>1, Uint32OfBytes DEF DataLength
  <1>3. TotalSize(b) \in Nat
    BY <1>2 DEF TotalSize, HeaderSize
  <1>4. TotalSize(b) > Len(b)
    BY <1>1, <1>3 DEF IsCompleteMessage
  <1> QED  BY <1>1, <1>3, <1>4 DEF Overlong

\* Where nothing of a client changes it stays framed.
LEMMA FramedStays ==
  ASSUME FramingInv, NEW d \in Descriptors,
         \/ connection'[d] = NoClient
         \/ Listed(d)' = FALSE
         \/ /\ connection'[d] = connection[d]
            /\ Listed(d)' => Listed(d)
            /\ connection[d] \in overlong => connection[d] \in overlong'
            /\ messageBuffers'[d] = messageBuffers[d]
            /\ handed'[connection[d]] = handed[connection[d]]
            /\ received'[connection[d]] = received[connection[d]]
  PROVE  FramedOn(d)'
  BY DEF FramingInv, FramedOn

\* Nor do others than the one whose event it is.
LEMMA OthersFramed ==
  ASSUME FramingInv, NEW e \in Descriptors,
         overlong \subseteq overlong',
         event' = NoEvent \/ event'.socket = e,
         \A d \in Descriptors \ {e} :
            /\ connection'[d] = connection[d]
            /\ messageBuffers'[d] = messageBuffers[d]
            /\ d \in clientSockets' => d \in clientSockets
            /\ connection[d] # NoClient =>
                  /\ handed'[connection[d]] = handed[connection[d]]
                  /\ received'[connection[d]] = received[connection[d]]
  PROVE  \A d \in Descriptors \ {e} : FramedOn(d)'
  <1> SUFFICES ASSUME NEW d \in Descriptors \ {e} PROVE FramedOn(d)'
    OBVIOUS
  <1>1. Listed(d)' => Listed(d)
    BY DEF Listed
  <1>2. CASE connection[d] = NoClient
    BY <1>2 DEF FramedOn
  <1>3. CASE connection[d] # NoClient
    BY <1>1, <1>3, FramedStays
  <1> QED  BY <1>2, <1>3

\* A step that only closes, forgets, or moves an event on.
LEMMA QuietStepKeepsFrames ==
  ASSUME FramingInv, UNCHANGED dataVars,
         \A d \in Descriptors :
            \/ connection'[d] = NoClient
            \/ Listed(d)' = FALSE
            \/ /\ connection'[d] = connection[d]
               /\ Listed(d)' => Listed(d)
               /\ messageBuffers'[d] = messageBuffers[d]
  PROVE  FramingInv'
  <1>1. ReceivedInv'
    BY DEF FramingInv, ReceivedInv, dataVars
  <1>2. \A d \in Descriptors : FramedOn(d)'
    BY FramedStays DEF dataVars
  <1> QED  BY <1>1, <1>2 DEF FramingInv

\* The owner and shutdown() do not touch what comes from clients.
LEMMA OwnerKeepsFrames ==
  ASSUME ServerInv, FramingInv, OwnerStep \/ ShutdownStep PROVE FramingInv'
  <1> USE DEF OwnerStep, InitializeAsyncIO, CreateSocket, BindAndListen,
              RegisterServerSocket, Start, StartEventLoop, Stop, OwnersOnly, ShutdownStep,
              ShutdownAsyncIO, CloseAll, clientVars
  <1>1. UNCHANGED <<messageBuffers, event, dataVars>>
    OBVIOUS
  <1>2. \A d \in Descriptors : connection'[d] \in {connection[d], NoClient}
    OBVIOUS
  <1>3. clientSockets' \subseteq clientSockets
    OBVIOUS
  <1>4. \A d \in Descriptors : Listed(d)' => Listed(d)
    BY <1>1, <1>3 DEF Listed
  <1> QED  BY <1>1, <1>2, <1>4, QuietStepKeepsFrames

\* A new client has sent nothing, and its descriptor's buffer is empty.
LEMMA AcceptKeepsFrames ==
  ASSUME ServerInv, FramingInv, NEW d \in Descriptors, NEW c \in Clients, AcceptEvent(c, d)
  PROVE  FramingInv'
  <1>1. event = NoEvent /\ phase = "started" /\ event' # NoEvent /\ event'.socket = d
    <2>1. Begins("accept", d, "add", <<>>) /\ <<>> \in Seq(Byte)
      BY EmptySeq DEF AcceptEvent
    <2> QED  BY <2>1, Beginning DEF Steps
  <1>2. /\ connection' = [connection EXCEPT ![d] = c]
        /\ connection[d] = NoClient /\ received[c] = <<>>
        /\ UNCHANGED <<clientSockets, messageBuffers, received, handed, overlong>>
    BY DEF AcceptEvent, dataVars
  <1>3. connection'[d] = c /\ \A e \in Descriptors \ {d} : connection'[e] = connection[e]
    BY <1>2 DEF ServerInv, ServerTypes
  <1>4. ReceivedInv'
    BY <1>2 DEF FramingInv, ReceivedInv
  <1>5. \A e \in Descriptors \ {d} : FramedOn(e)'
    BY <1>1, <1>2, <1>3, OthersFramed
  <1>6. FramedOn(d)'
    <2>1. messageBuffers[d] = <<>> /\ handed[c] = <<>>
      BY <1>1, <1>2 DEF ServerInv, ListsFollowDescriptors, FramingInv, ReceivedInv
    <2>2. <<>> \o <<>> = <<>>
      BY EmptySeq, ConcatEmptySeq
    <2> QED  BY <1>2, <1>3, <2>1, <2>2 DEF FramedOn
  <1> QED  BY <1>4, <1>5, <1>6 DEF FramingInv

\* Until the bytes are appended an event changes nothing.
LEMMA ArrivalKeepsFrames ==
  ASSUME ServerInv, FramingInv, NEW d \in Descriptors,
         WriteEvent(d) \/ ErrorEvent(d) \/ \E data \in Chunks : ReadEvent(d, data)
  PROVE  FramingInv'
  <1>1. UNCHANGED <<clientVars, dataVars>>
    BY DEF WriteEvent, ErrorEvent, ReadEvent
  <1>2. \E kind \in {"read", "write", "error", "failure"}, step \in {"notify", "remove"},
           data \in Seq(Byte) : Begins(kind, d, step, data)
    BY EmptySeq, ServerAssumption DEF WriteEvent, ErrorEvent, ReadEvent
  <1>3. event'.at \in {"notify", "remove"}
    BY <1>2, Beginning DEF Steps
  <1>4. \A e \in Descriptors : Listed(e)' => Listed(e)
    BY <1>1, <1>3 DEF Listed, clientVars
  <1> QED  BY <1>1, <1>4, QuietStepKeepsFrames DEF clientVars

\* Adding, registering and closing.
LEMMA DescriptorStepsKeepFrames ==
  ASSUME ServerInv, FramingInv, AddClient \/ RegisterClient \/ RemoveFailed \/ CloseFailed
  PROVE  FramingInv'
  <1>1. UNCHANGED dataVars /\ ServerTypes
    BY DEF ServerInv, AddClient, RegisterClient, RemoveFailed, CloseFailed
  <1>e. PICK e \in Descriptors : event.socket = e
    <2>1. \E step \in Steps : At(step)
      BY DEF AddClient, RegisterClient, RemoveFailed, CloseFailed, Steps
    <2> QED  BY <1>1, <2>1, StepOfEvent
  <1>2. CASE AddClient
    <2>1. At("add") /\ Goes("register") /\ UNCHANGED <<messageBuffers, connection>>
          /\ clientSockets' = clientSockets \cup {e}
      BY <1>2, <1>e DEF AddClient
    <2>2. event # NoEvent /\ event.at = "add" /\ event'.at = "register"
      BY <1>1, <2>1, Going DEF Steps
    <2>3. \A d \in Descriptors : Listed(d)' => Listed(d)
      BY <1>e, <2>1, <2>2 DEF Listed
    <2> QED  BY <1>1, <2>1, <2>3, QuietStepKeepsFrames
  <1>3. ASSUME RemoveClient(e), Goes("close"), At("register") \/ At("remove"),
               connection' = connection
        PROVE  FramingInv'
    <2>1. event'.at = "close"
      BY <1>1, <1>3, Going DEF Steps
    <2>2. /\ e \notin clientSockets' /\ clientSockets' \subseteq clientSockets
          /\ \A d \in Descriptors \ {e} : messageBuffers'[d] = messageBuffers[d]
      BY <1>1, <1>3 DEF RemoveClient, ServerTypes
    <2>3. Listed(e)' = FALSE /\ \A d \in Descriptors : Listed(d)' => Listed(d)
      BY <2>1, <2>2 DEF Listed
    <2> QED  BY <1>1, <1>3, <2>2, <2>3, QuietStepKeepsFrames
  <1>4. CASE RegisterClient
    <2>1. At("register") /\ connection' = connection
      BY <1>4 DEF RegisterClient
    <2>2. CASE Returns("notify") /\ UNCHANGED <<clientSockets, messageBuffers>>
      <3>1. \E step \in {"notify", "stuck"} : Goes(step)
        BY <2>2 DEF Returns
      <3>2. event'.at \in {"notify", "stuck"}
        BY <1>1, <2>1, <3>1, Going DEF Steps
      <3>3. \A d \in Descriptors : Listed(d)' => Listed(d)
        BY <2>2, <3>2 DEF Listed
      <3> QED  BY <1>1, <2>1, <2>2, <3>3, QuietStepKeepsFrames
    <2>3. CASE RegisterFails
      BY <1>3, <1>e, <2>1, <2>3 DEF RegisterFails
    <2> QED  BY <1>4, <2>2, <2>3 DEF RegisterClient
  <1>5. CASE RemoveFailed
    BY <1>3, <1>5, <1>e DEF RemoveFailed
  <1>6. CASE CloseFailed
    <2>1. /\ connection' = [connection EXCEPT ![e] = NoClient] /\ At("close")
          /\ UNCHANGED <<clientSockets, messageBuffers>>
          /\ event' = NoEvent \/ Goes("notify")
      BY <1>6, <1>e DEF CloseFailed
    <2>2. connection'[e] = NoClient
          /\ \A d \in Descriptors \ {e} : connection'[d] = connection[d]
      BY <1>1, <2>1 DEF ServerTypes
    <2>3. event' = NoEvent \/ event'.at = "notify"
      BY <1>1, <2>1, Going DEF Steps
    <2>4. \A d \in Descriptors : Listed(d)' => Listed(d)
      BY <2>1, <2>3 DEF Listed
    <2> QED  BY <1>1, <2>1, <2>2, <2>4, QuietStepKeepsFrames
  <1> QED  BY <1>2, <1>4, <1>5, <1>6

\* Telling the listeners, answering and starting the next read.
LEMMA OtherStepsKeepFrames ==
  ASSUME ServerInv, FramingInv,
         Notify \/ AppendFails \/ HandOverFails \/ Respond \/ Rearm
  PROVE  FramingInv'
  <1>1. UNCHANGED <<clientVars, dataVars>> /\ ServerTypes
    BY DEF Notify, AppendFails, HandOverFails, Respond, Rearm, ServerInv
  <1>2. /\ \E before \in Steps : At(before)
        /\ \/ event' \in {event, NoEvent}
           \/ \E after \in {"notifying", "append", "respond", "rearm", "stuck"} : Goes(after)
    BY DEF Notify, AppendFails, HandOverFails, Respond, Rearm, Returns, Steps
  <1>3. event' \in {event, NoEvent} \/ event'.at # "add"
    <2>1. ASSUME NEW before \in Steps, At(before),
                 NEW after \in {"notifying", "append", "respond", "rearm", "stuck"}, Goes(after)
          PROVE  event'.at = after
      BY <1>1, <2>1, Going DEF Steps
    <2> QED  BY <1>2, <2>1
  <1>4. \A d \in Descriptors : Listed(d)' => Listed(d)
    BY <1>1, <1>3 DEF Listed, clientVars
  <1> QED  BY <1>1, <1>4, QuietStepKeepsFrames DEF clientVars

\* The client c of the event at e has sent r, of which h was handed over and b
\* is in the buffer; it was framed and stays so.
DataStep(e, c, r, h, b) ==
    /\ connection[e] = c
    /\ received' = [received EXCEPT ![c] = r]
    /\ handed' = [handed EXCEPT ![c] = h]
    /\ messageBuffers' = [messageBuffers EXCEPT ![e] = b]
    /\ overlong \subseteq overlong' /\ overlong' \subseteq overlong \cup {c}
    /\ UNCHANGED <<connection, clientSockets>>
    /\ event'.socket = e /\ event'.at # "add"
    /\ r = <<>> => h = <<>> /\ c \notin overlong'
    /\ handed[c] \o messageBuffers[e] = received[c] /\ c \notin overlong' => h \o b = r

\* Then everything stays framed.
LEMMA DataStepKeepsFrames ==
  ASSUME ServerInv, FramingInv, NEW e \in Descriptors, NEW c \in Clients,
         NEW r \in Seq(Byte), NEW h \in Seq(Byte), NEW b \in Seq(Byte),
         e \in clientSockets, DataStep(e, c, r, h, b)
  PROVE  FramingInv'
  <1>1. /\ received'[c] = r /\ handed'[c] = h /\ messageBuffers'[e] = b
        /\ \A k \in Clients \ {c} : received'[k] = received[k] /\ handed'[k] = handed[k]
        /\ \A d \in Descriptors \ {e} : messageBuffers'[d] = messageBuffers[d]
    BY DEF ServerInv, ServerTypes, DataStep
  <1>2. ReceivedInv'
    <2>1. \A k \in Clients \ {c} : k \in overlong' => k \in overlong
      BY DEF DataStep
    <2> QED  BY <1>1, <2>1 DEF FramingInv, ReceivedInv, DataStep
  <1>3. \A d \in Descriptors \ {e} : FramedOn(d)'
    <2>1. ASSUME NEW d \in Descriptors \ {e}, connection[d] # NoClient
          PROVE  connection[d] \in Clients \ {c}
      BY <2>1, ServerAssumption DEF ServerInv, ServerTypes, DescriptorInv, DataStep
    <2> QED  BY <1>1, <2>1, OthersFramed DEF DataStep
  <1>4. FramedOn(e)'
    <2>1. c \notin overlong => handed[c] \o messageBuffers[e] = received[c]
      BY ServerAssumption DEF FramingInv, FramedOn, Listed, DataStep
    <2>2. c \notin overlong' => h \o b = r
      BY <2>1 DEF DataStep
    <2> QED  BY <1>1, <2>2 DEF FramedOn, DataStep
  <1> QED  BY <1>2, <1>3, <1>4 DEF FramingInv

\* The descriptor of a read event is listed, and while its client is framed what
\* has been received is there.
LEMMA DataOfEvent ==
  ASSUME ServerInv, FramingInv, NEW step \in {"append", "parse"}, At(step)
  PROVE  \E e \in Descriptors, c \in Clients,
            r \in Seq(Byte), h \in Seq(Byte), b \in Seq(Byte) :
            /\ event # NoEvent /\ event.at = step /\ event.socket = e /\ e \in clientSockets
            /\ connection[e] = c
            /\ r = received[c] /\ h = handed[c] /\ b = messageBuffers[e] /\ Buffer = b
            /\ r = <<>> => h = <<>> /\ b = <<>> /\ c \notin overlong
  <1>1. /\ event \in Events /\ event # NoEvent /\ event.at = step
        /\ event.socket \in Descriptors
    BY StepOfEvent DEF ServerInv
  <1>2. PICK e \in Descriptors : event.socket = e
    BY <1>1
  <1>3. PICK c \in Clients : connection[e] = c
    BY <1>1, <1>2 DEF ServerInv, EventInv, ServerTypes
  <1>4. PICK r \in Seq(Byte), h \in Seq(Byte), b \in Seq(Byte) :
           r = received[c] /\ h = handed[c] /\ b = messageBuffers[e] /\ Buffer = b
    BY <1>2 DEF ServerInv, ServerTypes, Buffer
  <1>5. e \in clientSockets
    BY <1>1, <1>2, <1>3, ServerAssumption DEF ServerInv, DescriptorInv
  <1>6. ASSUME r = <<>> PROVE h = <<>> /\ b = <<>> /\ c \notin overlong
    <2>1. h = <<>> /\ c \notin overlong
      BY <1>4, <1>6 DEF FramingInv, ReceivedInv
    <2>2. h \o b = <<>>
      BY <1>3, <1>4, <1>5, <1>6, <2>1, ServerAssumption DEF FramingInv, FramedOn, Listed
    <2>3. <<>> \o b = b
      BY ConcatEmptySeq
    <2> QED  BY <2>1, <2>2, <2>3
  <1> QED  BY <1>1, <1>2, <1>3, <1>4, <1>5, <1>6

\* Appending, handing over, and what is dropped at the end.
LEMMA ReadStepsKeepFrames ==
  ASSUME ServerInv, FramingInv, AppendData \/ HandOver \/ EndRead
  PROVE  FramingInv'
  <1>1. PICK step \in {"append", "parse"} : At(step)
    BY DEF AppendData, HandOver, EndRead
  <1>2. PICK e \in Descriptors, c \in Clients,
             r \in Seq(Byte), h \in Seq(Byte), b \in Seq(Byte) :
           /\ event # NoEvent /\ event.at = step /\ event.socket = e /\ e \in clientSockets
           /\ connection[e] = c
           /\ r = received[c] /\ h = handed[c] /\ b = messageBuffers[e] /\ Buffer = b
           /\ r = <<>> => h = <<>> /\ b = <<>> /\ c \notin overlong
    BY <1>1, DataOfEvent
  <1>3. received = [received EXCEPT ![c] = r] /\ handed = [handed EXCEPT ![c] = h]
    BY <1>2 DEF ServerInv, ServerTypes
  <1>4. CASE AppendData
    <2>1. PICK a \in Seq(Byte) : a = event.data
      BY <1>1, StepOfEvent DEF ServerInv
    <2>2. /\ At("append") /\ Goes("parse")
          /\ UNCHANGED <<connection, clientSockets, handed, overlong>>
          /\ received' = [received EXCEPT ![c] = r \o a]
          /\ messageBuffers' = [messageBuffers EXCEPT ![e] = b \o a]
      BY <1>2, <1>4, <2>1 DEF AppendData, Appended, SetBuffer
    <2>3. event'.socket = e /\ event'.at # "add"
      BY <1>2, <2>2, Going DEF Steps, ServerInv
    <2>4. ASSUME h \o b = r PROVE h \o (b \o a) = r \o a
      <3>1. (h \o b) \o a = h \o (b \o a)
        BY Regroup
      <3> QED  BY <2>4, <3>1
    <2>5. r \o a = <<>> => r = <<>>
      <3>1. r \o a \in Seq(Byte) /\ Len(r \o a) = Len(r) + Len(a)
            /\ Len(r) \in Nat /\ Len(a) \in Nat
        OBVIOUS
      <3> QED  BY <3>1, EmptySeq
    <2>6. Len(r) \in Nat /\ Len(b) \in Nat /\ Len(a) \in Nat
      OBVIOUS
    <2>7. PICK ra \in Seq(Byte) : ra = r \o a
      BY <2>6, Joined DEF IsJoined
    <2>8. PICK ba \in Seq(Byte) : ba = b \o a
      BY <2>6, Joined DEF IsJoined
    <2>9. DataStep(e, c, ra, h, ba)
      BY <1>2, <1>3, <2>2, <2>3, <2>4, <2>5, <2>7, <2>8 DEF DataStep
    <2> QED  BY <1>2, <2>9, DataStepKeepsFrames
  <1>5. CASE HandOver
    <2>1. /\ At("parse") /\ IsCompleteMessage(b) /\ event' = event
          /\ UNCHANGED <<connection, clientSockets, received, overlong>>
      BY <1>2, <1>5 DEF HandOver
    <2>2. PICK message \in Seq(Byte), left \in Seq(Byte) :
             /\ message = Serialize(ParseMessage(b))
             /\ left = SubSeq(b, TotalSize(b) + 1, Len(b))
      BY <2>1, CompleteMessage
    <2>3. PICK hm \in Seq(Byte) : hm = h \o message
      <3>1. Len(h) \in Nat /\ Len(message) \in Nat
        OBVIOUS
      <3> QED  BY <3>1, Joined DEF IsJoined
    <2>4. handed' = [handed EXCEPT ![c] = hm]
          /\ messageBuffers' = [messageBuffers EXCEPT ![e] = left]
      BY <1>2, <1>5, <2>2, <2>3 DEF HandOver, SetBuffer
    <2>5. hm \o left = h \o b
      BY <2>1, <2>2, <2>3, FramedHandOver
    <2>6. r # <<>>
      BY <1>2, <2>1 DEF IsCompleteMessage, HeaderSize
    <2>7. event'.socket = e /\ event'.at # "add"
      BY <1>2, <2>1
    <2>8. DataStep(e, c, r, hm, left)
      BY <1>2, <1>3, <2>1, <2>4, <2>5, <2>6, <2>7 DEF DataStep
    <2> QED  BY <1>2, <2>8, DataStepKeepsFrames
  <1>6. CASE EndRead
    <2>1. PICK left \in Seq(Byte) : left = IF Len(b) > MaxBuffer THEN <<>> ELSE b
      BY EmptySeq
    <2>2. /\ At("parse") /\ Goes("rearm") /\ ~IsCompleteMessage(b)
          /\ UNCHANGED <<connection, clientSockets, received, handed>>
          /\ overlong' = overlong \cup {k \in {c} : Overlong(b)}
          /\ messageBuffers' = [messageBuffers EXCEPT ![e] = left]
      BY <1>2, <1>6, <2>1 DEF EndRead, LoopEnds, SetBuffer
    <2>3. event'.socket = e /\ event'.at # "add"
      BY <1>2, <2>2, Going DEF Steps, ServerInv
    <2>4. c \notin overlong' => left = b
      BY <2>1, <2>2, DroppedIsOverlong
    <2>5. r = <<>> => c \notin overlong'
      <3>1. Overlong(b) => b # <<>>
        BY DEF Overlong, HeaderSize
      <3> QED  BY <1>2, <2>2, <3>1
    <2>6. overlong \subseteq overlong' /\ overlong' \subseteq overlong \cup {c}
      BY <2>2
    <2>7. DataStep(e, c, r, h, left)
      BY <1>2, <1>3, <2>2, <2>3, <2>4, <2>5, <2>6 DEF DataStep
    <2> QED  BY <1>2, <2>7, DataStepKeepsFrames
  <1> QED  BY <1>4, <1>5, <1>6

\* Every step keeps what was received framed.
LEMMA FramingStep ==
  ASSUME ServerInv, FramingInv, [Next]_vars PROVE FramingInv'
  <1>1. CASE ListenerCall \/ UNCHANGED vars
    <2>1. UNCHANGED <<clientVars, event, dataVars>>
      BY <1>1 DEF ListenerCall, vars
    <2>2. \A d \in Descriptors : Listed(d)' = Listed(d)
      BY <2>1 DEF Listed, clientVars
    <2> QED  BY <2>1, <2>2, QuietStepKeepsFrames DEF clientVars
  <1>2. CASE EventArrives
    BY <1>2, AcceptKeepsFrames, ArrivalKeepsFrames DEF EventArrives
  <1> QED
    BY <1>1, <1>2, OwnerKeepsFrames, DescriptorStepsKeepFrames, OtherStepsKeepFrames,
       ReadStepsKeepFrames DEF Next, EventStep

\* All parts of the inductive invariant hold in every reachable state.
LEMMA FramingInvariant == Spec => [](ServerInv /\ NotificationInv /\ FramingInv)
  <1>1. Init => FramingInv
    BY DEF Init, FramingInv, ReceivedInv, FramedOn
  <1>2. ServerInv /\ NotificationInv /\ FramingInv /\ [Next]_vars
          => (ServerInv /\ NotificationInv /\ FramingInv)'
    BY ServerStep, FramingStep
  <1> QED  BY <1>1, <1>2, ServerInit, PTL DEF Spec

\* onReadEvent() loses, repeats and mixes up nothing of what it could append:
\* whatever the back end delivers and however it is cut, whichever message fails
\* on its way, whoever had the descriptor, and for messages of any size that
\* the buffer can hold.
THEOREM ServerFramedAsReceived == Spec => []FramedAsReceived
  <1>1. FramingInv => FramedAsReceived
    BY DEF FramingInv, FramedOn, Listed, FramedAsReceived
  <1> QED  BY <1>1, FramingInvariant, PTL

-----------------------------------------------------------------------------
\* What one side serialises, with a header of big-endian numbers of 32 bits, the
\* other finds complete and parses to the same message, whatever has come after
\* it: for every body whose size fits the header.
THEOREM ServerParsesWhatIsSerialized ==
  ASSUME NEW id \in Uint32, NEW body \in Seq(Byte), Len(body) \in Uint32,
         NEW rest \in Seq(Byte)
  PROVE  LET message == [messageId |-> id, body |-> body]
             buffer == Serialize(message) \o rest
         IN /\ IsCompleteMessage(buffer)
            /\ TotalSize(buffer) = Len(Serialize(message))
            /\ ParseMessage(buffer) = message
  <1>1. PICK x \in Seq(Byte), y \in Seq(Byte) :
           /\ x = BytesOf(id) /\ Len(x) = 4 /\ Uint32At(x, 1) = id
           /\ y = BytesOf(Len(body)) /\ Len(y) = 4 /\ Uint32At(y, 1) = Len(body)
    BY BytesOfUint32
  <1>2. Len(body) \in Nat /\ Len(rest) \in Nat /\ 4 \in Nat /\ 8 \in Nat
    OBVIOUS
  <1>3. PICK header \in Seq(Byte) : IsJoined(header, x, 4, y, 4)
    BY <1>1, <1>2, Joined
  <1>4. Len(header) = 8
    BY <1>3 DEF IsJoined
  <1>5. PICK front \in Seq(Byte) : IsJoined(front, header, 8, body, Len(body))
    BY <1>2, <1>4, Joined
  <1>6. Len(front) = 8 + Len(body) /\ 8 + Len(body) \in Nat
    BY <1>5, <1>2 DEF IsJoined
  <1>7. PICK buffer \in Seq(Byte) :
           IsJoined(buffer, front, 8 + Len(body), rest, Len(rest))
    BY <1>2, <1>6, Joined
  <1>8. \A i \in 1..4 : buffer[i] = x[i] /\ buffer[i + 4] = y[i]
    <2>1. ASSUME NEW i \in 1..4 PROVE buffer[i] = x[i] /\ buffer[i + 4] = y[i]
      <3>1. i \in 1..8 /\ i + 4 \in 1..8 /\ i \in 1..(8 + Len(body)) /\ i + 4 \in 1..(8 + Len(body))
        BY <1>2
      <3> QED  BY <1>3, <1>5, <1>7, <3>1 DEF IsJoined
    <2> QED  BY <2>1
  <1>9. MessageId(buffer) = id /\ DataLength(buffer) = Len(body)
    <2>1. /\ buffer[1] = x[1] /\ buffer[2] = x[2] /\ buffer[3] = x[3] /\ buffer[4] = x[4]
          /\ buffer[5] = y[1] /\ buffer[6] = y[2] /\ buffer[7] = y[3] /\ buffer[8] = y[4]
      BY <1>8
    <2>2. /\ MessageId(buffer) = Uint32At(x, 1) /\ DataLength(buffer) = Uint32At(y, 1)
      BY <2>1 DEF MessageId, DataLength, Uint32At
    <2> QED  BY <1>1, <2>2
  <1>10. TotalSize(buffer) = 8 + Len(body) /\ IsCompleteMessage(buffer)
    BY <1>7, <1>2, <1>9 DEF TotalSize, HeaderSize, IsCompleteMessage, IsJoined
  <1>11. SubSeq(buffer, 9, 8 + Len(body)) = body
    <2>1. PICK part \in Seq(Byte) :
             /\ part = SubSeq(buffer, 9, 8 + Len(body)) /\ Len(part) = (8 + Len(body)) - 8
             /\ \A i \in 1..((8 + Len(body)) - 8) : part[i] = buffer[i + 8]
      <3>1. 8 + Len(body) \in Nat /\ 8 <= 8 + Len(body) /\ 8 + Len(body) <= Len(buffer)
        BY <1>7, <1>2 DEF IsJoined
      <3> QED  BY <3>1, BodyBytes
    <2>2. Len(part) = Len(body)
      BY <1>2, <2>1
    <2>3. ASSUME NEW i \in 1..Len(body) PROVE part[i] = body[i]
      <3>1. i + 8 \in 1..(8 + Len(body)) /\ i \in 1..((8 + Len(body)) - 8)
        BY <1>2
      <3> QED  BY <1>5, <1>7, <2>1, <3>1 DEF IsJoined
    <2> QED  BY <2>1, <2>2, <2>3, SeqEqual
  <1>12. ParseMessage(buffer) = [messageId |-> id, body |-> body]
    <2>1. SubSeq(buffer, HeaderSize + 1, TotalSize(buffer)) = body
      BY <1>10, <1>11 DEF HeaderSize
    <2> QED  BY <1>9, <2>1 DEF ParseMessage
  <1>13. Serialize([messageId |-> id, body |-> body]) = front
    BY <1>1, <1>3, <1>5 DEF Serialize, IsJoined
  <1> QED  BY <1>5, <1>7, <1>10, <1>12, <1>13 DEF IsJoined
=============================================================================
