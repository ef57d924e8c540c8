-------------------------- MODULE ProxyStreamProofs ---------------------------
(***************************************************************************)
(* Proofs about ProxyStream, for requests of every type and length, cut    *)
(* by TCP in every way.                                                    *)
(*                                                                         *)
(* Three parts make the inductive invariant: what the client has read when *)
(* it stands behind its parser (Parsed), what the server has read when it  *)
(* stands behind its own (Served), and who wrote an answer (Answers).      *)
(***************************************************************************)
EXTENDS ProxyStream, TLAPS

Requests == SocksRequests \cup RawRequests

\* The client writes the request once, whole, after it has read it.
Parsed ==
    /\ sent <= ReqLen(req) + req.extra
    /\ rawLen \in {0, ReqLen(req)}
    /\ cpc \in {"accept", "request", "rest", "choose", "direct", "connect", "write"}
         => rawLen = 0
    /\ /\ req.from = "socks"
       /\ rawLen > 0 \/ cpc \in {"choose", "direct", "connect", "write", "confirm", "pipe"}
       => n = ReqLen(req) /\ n <= sent

\* Without a stream there is no goroutine on the server.
Early == {"accept", "request", "rest", "choose", "direct", "connect"}
Unopened == cpc \in Early => spc = "none"

Behind == {"dns", "dial", "reply", "pipe"}

Served ==
    /\ spc = "body" => req.type \in {"ipv4", "ipv6", "domain"}
    /\ spc = "len" => req.type = "domain"
    /\ spc \in Behind \/ dialed =>
         /\ req.type \in {"ipv4", "ipv6", "domain"}
         /\ took = ReqEnd(req)
         /\ took <= rawLen
         /\ hostLen = IF req.type = "domain" THEN Byte(req.len) ELSE 0

Answers ==
    /\ spc = "dns" => req.host = "dns"
    /\ spc \in {"reply", "pipe"} => dialed
    /\ dialed => spc \in {"reply", "pipe", "closed"}
    /\ answer = "confirm" => dialed
    /\ answer = "reply" => req.host = "dns"
    /\ told => answer = "confirm" /\ req.from = "socks"

Inv == TypeOK /\ Parsed /\ Served /\ Unopened /\ Answers

-----------------------------------------------------------------------------
(* Numbers.                                                                *)

\* A byte is one of 256, and keeps a number that fits.
LEMMA ByteRange ==
    ASSUME NEW x \in Nat
    PROVE  Byte(x) \in 0..255 /\ (x <= 255 => Byte(x) = x)
  BY DEF Byte

\* What the frame lengths of a request can be.
LEMMA Lengths ==
    ASSUME NEW q \in Requests
    PROVE  /\ ReqLen(q) \in Nat /\ ReqEnd(q) \in Nat /\ q.len \in Nat
           /\ q.extra \in {0, 1}
           /\ q.type \in AddrTypes
           /\ q.from \in {"socks", "http", "dns"}
           /\ q.from = "socks" => ReqLen(q) <= 262 /\ q.len <= 255
           /\ q.from # "socks" => q.type = "domain"
           /\ q.host = "dns" => q.from # "http" /\ q.type \in Named
           /\ q.type = "ipv4" => ReqLen(q) = 10 /\ ReqEnd(q) = 10
           /\ q.type = "ipv6" => ReqLen(q) = 22 /\ ReqEnd(q) = 26
           /\ q.type = "domain" => ReqLen(q) = q.len + 7 /\ ReqEnd(q) = Byte(q.len) + 7
           /\ q.type = "domain" => Byte(q.len) \in 0..255
  <1>1. /\ q.len \in Nat /\ q.type \in AddrTypes /\ q.extra \in {0, 1}
        /\ q.from \in {"socks", "http", "dns"}
        /\ q.host = "dns" => q.from # "http" /\ q.type \in Named
        /\ q.from # "socks" => q.type = "domain"
        /\ q.from = "socks" => q.len <= 255
    <2>0. Types \subseteq AddrTypes /\ Lens \subseteq Nat  BY StreamAssumption
    <2>1. CASE q \in [from : {"socks"}, type : Types \ Named, host : {"plain", "local"},
                      len : {0}, extra : {0, 1}]
      <3>1. /\ q.from = "socks" /\ q.type \in Types
            /\ q.host \in {"plain", "local"} /\ q.len = 0 /\ q.extra \in {0, 1}
        BY <2>1
      <3>. QED  BY <2>0, <3>1
    <2>2. CASE q \in [from : {"socks"}, type : Types \cap Named,
                      host : {"plain", "control", "dns"}, len : Lens \cap 0..255,
                      extra : {0, 1}]
      <3>1. /\ q.from = "socks" /\ q.type \in Types /\ q.type \in Named
            /\ q.len \in 0..255 /\ q.extra \in {0, 1}
        BY <2>2
      <3>. QED  BY <2>0, <3>1
    <2>3. CASE q \in RawRequests
      BY <2>0, <2>3 DEF AddrTypes, Named, RawRequests
    <2>. QED  BY <2>1, <2>2, <2>3 DEF Requests, SocksRequests
  <1>2. Byte(q.len) \in 0..255
    BY <1>1, ByteRange
  <1>. QED  BY <1>1, <1>2 DEF ReqLen, ReqEnd, AddrTypes

-----------------------------------------------------------------------------
\* The first state satisfies the invariant.
LEMMA InvInit == Init => Inv
  <1>. SUFFICES ASSUME Init PROVE Inv  OBVIOUS
  <1>1. req \in Requests  BY DEF Init, Requests
  <1>2. ReqLen(req) \in Nat /\ req.extra \in {0, 1} /\ req.len \in Nat
    BY <1>1, Lengths
  <1>3. TypeOK
    <2>1. /\ appOpen \in BOOLEAN /\ broken \in BOOLEAN
          /\ cliOpen \in BOOLEAN /\ srvOpen \in BOOLEAN
          /\ dialed \in BOOLEAN /\ told \in BOOLEAN /\ command \in BOOLEAN
      BY Zenon DEF Init
    <2>2. req \in SocksRequests \cup RawRequests
      BY DEF Init
    <2>3. /\ sent = 0 /\ cpc \in {"accept", "connect"} /\ spc = "none"
          /\ n = 0 /\ rawLen = 0 /\ took = 0 /\ hostLen = 0 /\ answer = "none"
      BY DEF Init
    <2>4. /\ sent \in 0..263
          /\ n \in Nat /\ rawLen \in Nat
          /\ took \in Nat /\ hostLen \in 0..255
      BY <1>2, <2>3
    <2>. QED  BY <2>1, <2>2, <2>3, <2>4 DEF TypeOK
  <1>4. Parsed
    <2>1. sent = 0 /\ rawLen = 0 /\ cpc \in {"accept", "connect"}
      BY DEF Init
    <2>2. req.from = "socks" => cpc = "accept"
      BY DEF Init
    <2>. QED  BY <1>2, <2>1, <2>2 DEF Parsed
  <1>5. Served
    BY DEF Init, Served, Behind
  <1>6. Answers /\ Unopened
    BY DEF Init, Answers, Unopened, Early
  <1>. QED  BY <1>3, <1>4, <1>5, <1>6 DEF Inv

\* The request of a connection does not change.
LEMMA SameRequest == [Next]_vars => req' = req
  BY DEF vars, Next, Client, Server, AppSends, AppCloses, Break, Handshake,
     ReadRequest, ReadRest, ReadFails, Choose, DirectEnds, Connect, Write,
     Confirm, ConfirmFails, PipeEnds, Head, NameLength, Body, RequestFails,
     DnsNormal, Dial, Reply, ServerPipeEnds

\* What the server's goroutine and the network leave alone.
LEMMA ServerFrame ==
    Server \/ AppCloses \/ Break => sent' = sent /\ UNCHANGED <<cpc, n, rawLen, told>>
  BY DEF Server, AppCloses, Break, Head, NameLength, Body, RequestFails,
     DnsNormal, Dial, Reply, ServerPipeEnds, clientVars, envVars

\* What the client's goroutine and the application leave alone: all that the
\* server's goroutine knows, until there is a stream.
LEMMA ClientFrame ==
    (Client /\ ~Connect) \/ AppSends \/ AppCloses \/ Break => UNCHANGED serverVars
  BY DEF Client, Handshake, ReadRequest, ReadRest, ReadFails, Choose, DirectEnds,
     Write, Confirm, ConfirmFails, PipeEnds, AppSends, AppCloses, Break

-----------------------------------------------------------------------------
\* No step makes a variable leave its type.
LEMMA TypeStep == Inv /\ [Next]_vars => TypeOK'
  <1>. SUFFICES ASSUME Inv, [Next]_vars PROVE TypeOK'  OBVIOUS
  <1>0. TypeOK /\ req' = req
    BY SameRequest DEF Inv
  <1>1. req \in Requests
    BY <1>0 DEF TypeOK, Requests
  <1>2. req' \in SocksRequests \cup RawRequests
    BY <1>0 DEF TypeOK
  <1>3. sent' \in 0..263
    <2>1. CASE AppSends
      <3>1. ReqLen(req) \in Nat /\ ReqLen(req) <= 262 /\ req.extra \in {0, 1}
        BY <1>1, <2>1, Lengths DEF AppSends
      <3>2. PICK m \in 1..(ReqLen(req) + req.extra - sent) : sent' = sent + m
        BY <2>1 DEF AppSends
      <3>3. sent \in Nat  BY <1>0 DEF TypeOK
      <3>. QED  BY <3>1, <3>2, <3>3
    <2>2. CASE ~AppSends
      <3>1. sent' = sent
        BY <2>2 DEF vars, envVars, Next, Client, Server, AppCloses, Break, Handshake,
           ReadRequest, ReadRest, ReadFails, Choose, DirectEnds, Connect, Write,
           Confirm, ConfirmFails, PipeEnds, Head, NameLength, Body, RequestFails,
           DnsNormal, Dial, Reply, ServerPipeEnds
      <3>. QED  BY <1>0, <3>1 DEF TypeOK
    <2>. QED  BY <2>1, <2>2
  <1>4. cpc' \in {"accept", "request", "rest", "choose", "direct", "connect",
                  "write", "confirm", "pipe", "closed", "crashed"}
    BY <1>0, Zenon DEF TypeOK, vars, clientVars, Next, Client, Server, AppSends,
       AppCloses, Break, Handshake, ReadRequest, ReadRest, ReadFails, Choose,
       DirectEnds, Connect, Write, Confirm, ConfirmFails, PipeEnds, Head,
       NameLength, Body, RequestFails, DnsNormal, Dial, Reply, ServerPipeEnds,
       Step, Close
  <1>5. spc' \in {"none", "head", "len", "body", "dns", "dial", "reply", "pipe",
                  "closed"}
    BY <1>0, Zenon DEF TypeOK, vars, serverVars, Next, Client, Server, AppSends,
       AppCloses, Break, Handshake, ReadRequest, ReadRest, ReadFails, Choose,
       DirectEnds, Connect, Write, Confirm, ConfirmFails, PipeEnds, Head,
       NameLength, Body, RequestFails, DnsNormal, Dial, Reply, ServerPipeEnds,
       DelCon
  <1>6. n' \in Nat /\ rawLen' \in Nat
    <2>1. ReqLen(req) \in Nat  BY <1>1, Lengths
    <2>2. n \in Nat /\ rawLen \in Nat /\ sent \in Nat
      BY <1>0 DEF TypeOK
    <2>3. CASE ReadRequest
      BY <2>1, <2>2, <2>3 DEF ReadRequest
    <2>4. CASE ~ReadRequest
      <3>1. n' \in {n, ReqLen(req)} /\ rawLen' \in {rawLen, ReqLen(req)}
        BY <2>4 DEF vars, clientVars, Next, Client, Server, AppSends, AppCloses, Break,
           Handshake, ReadRest, ReadFails, Choose, DirectEnds, Connect, Write, Confirm,
           ConfirmFails, PipeEnds, Head, NameLength, Body, RequestFails, DnsNormal,
           Dial, Reply, ServerPipeEnds, Step, Close
      <3>. QED  BY <2>1, <2>2, <3>1
    <2>. QED  BY <2>3, <2>4
  <1>7. took' \in Nat /\ hostLen' \in 0..255
    <2>1. ReqEnd(req) \in Nat /\ (req.type = "domain" => Byte(req.len) \in 0..255)
      BY <1>1, Lengths
    <2>2. took \in Nat /\ hostLen \in 0..255  BY <1>0 DEF TypeOK
    <2>3. took' \in {took, 4, 5, ReqEnd(req)}
          /\ hostLen' \in {hostLen, IF req.type = "domain" THEN Byte(req.len) ELSE 0}
      BY DEF vars, serverVars, Next, Client, Server, AppSends, AppCloses, Break,
         Handshake, ReadRequest, ReadRest, ReadFails, Choose, DirectEnds, Connect,
         Write, Confirm, ConfirmFails, PipeEnds, Head, NameLength, Body,
         RequestFails, DnsNormal, Dial, Reply, ServerPipeEnds
    <2>. QED  BY <2>1, <2>2, <2>3
  <1>8. /\ appOpen' \in BOOLEAN /\ broken' \in BOOLEAN
        /\ cliOpen' \in BOOLEAN /\ told' \in BOOLEAN /\ command' \in BOOLEAN
    BY <1>0, Zenon DEF TypeOK, vars, clientVars, envVars, Next, Client, Server,
       AppSends, AppCloses, Break, Handshake, ReadRequest, ReadRest, ReadFails,
       Choose, DirectEnds, Connect, Write, Confirm, ConfirmFails, PipeEnds, Head,
       NameLength, Body, RequestFails, DnsNormal, Dial, Reply, ServerPipeEnds,
       Step, Close
  <1>9. /\ srvOpen' \in BOOLEAN /\ dialed' \in BOOLEAN
        /\ answer' \in {"none", "confirm", "reply"}
    BY <1>0, Zenon DEF TypeOK, vars, serverVars, Next, Client, Server, AppSends,
       AppCloses, Break, Handshake, ReadRequest, ReadRest, ReadFails, Choose,
       DirectEnds, Connect, Write, Confirm, ConfirmFails, PipeEnds, Head,
       NameLength, Body, RequestFails, DnsNormal, Dial, Reply, ServerPipeEnds,
       DelCon
  <1>. QED
    BY <1>2, <1>3, <1>4, <1>5, <1>6, <1>7, <1>8, <1>9 DEF TypeOK

\* No step breaks Parsed.
LEMMA ParsedStep == Inv /\ [Next]_vars => Parsed'
  <1>. SUFFICES ASSUME Inv, [Next]_vars PROVE Parsed'  OBVIOUS
  <1>1. req' = req /\ ReqLen(req') = ReqLen(req)
    BY SameRequest
  <1>2. ReqLen(req) \in Nat /\ req.extra \in {0, 1}
    BY Lengths DEF Inv, TypeOK, Requests
  <1>3. sent \in Nat /\ n \in Nat /\ rawLen \in Nat /\ Parsed
    BY DEF Inv, TypeOK
  <1>. USE <1>1, <1>2, <1>3
  <1>4. CASE UNCHANGED vars
    BY <1>4 DEF vars, clientVars, envVars, Parsed
  <1>5. CASE AppSends
    <2>1. PICK m \in 1..(ReqLen(req) + req.extra - sent) : sent' = sent + m
      BY <1>5 DEF AppSends
    <2>2. UNCHANGED <<cpc, n, rawLen>>
      BY <1>5 DEF AppSends, clientVars
    <2>. QED  BY <2>1, <2>2 DEF Parsed
  <1>6. CASE Server \/ AppCloses \/ Break
    BY <1>6, ServerFrame DEF Parsed
  <1>7. CASE Client
    <2>0. sent' = sent
      BY <1>7 DEF Client, envVars, Handshake, ReadRequest, ReadRest, ReadFails,
         Choose, DirectEnds, Connect, Write, Confirm, ConfirmFails, PipeEnds
    <2>1. CASE Handshake
      BY <2>0, <2>1 DEF Handshake, Step, Close, Parsed
    <2>2. CASE ReadRequest
      <3>1. /\ cpc = "request" /\ rawLen' = rawLen
            /\ sent = ReqLen(req) => n' = sent
        BY <2>2 DEF ReadRequest
      <3>2. cpc' \in {"closed", "crashed", "rest"} \/ (cpc' = "choose" /\ sent = ReqLen(req))
        BY <2>2 DEF ReadRequest
      <3>. QED  BY <2>0, <3>1, <3>2 DEF Parsed
    <2>3. CASE ReadRest  BY <2>0, <2>3 DEF ReadRest, Parsed
    <2>4. CASE ReadFails  BY <2>0, <2>4 DEF ReadFails, Close, Parsed
    <2>5. CASE Choose
      <3>1. cpc = "choose" /\ cpc' \in {"direct", "connect", "closed"}
            /\ n' = n /\ rawLen' = rawLen
        BY <2>5 DEF Choose, Step, Close
      <3>. QED  BY <2>0, <3>1 DEF Parsed
    <2>6. CASE DirectEnds  BY <2>0, <2>6 DEF DirectEnds, Close, Parsed
    <2>7. CASE Connect
      <3>1. cpc = "connect" /\ cpc' \in {"write", "closed"}
            /\ n' = n /\ rawLen' = rawLen
        BY <2>7 DEF Connect, Close
      <3>. QED  BY <2>0, <3>1 DEF Parsed
    <2>8. CASE Write
      <3>1. /\ cpc = "write" /\ n' = n
            /\ \/ cpc' = "confirm" /\ rawLen' = ReqLen(req)
               \/ cpc' = "closed" /\ rawLen' = rawLen
        BY <2>8 DEF Write, Close
      <3>. QED  BY <2>0, <3>1 DEF Parsed
    <2>9. CASE Confirm \/ ConfirmFails \/ PipeEnds
      <3>1. cpc \in {"confirm", "pipe"} /\ cpc' \in {"pipe", "closed"}
            /\ n' = n /\ rawLen' = rawLen
        BY <2>9 DEF Confirm, ConfirmFails, PipeEnds, Step, Close
      <3>. QED  BY <2>0, <3>1 DEF Parsed
    <2>. QED
      BY <1>7, <2>1, <2>2, <2>3, <2>4, <2>5, <2>6, <2>7, <2>8, <2>9 DEF Client
  <1>. QED  BY <1>4, <1>5, <1>6, <1>7 DEF Next

\* No step breaks Served.
LEMMA ServedStep == Inv /\ [Next]_vars => Served'
  <1>. SUFFICES ASSUME Inv, [Next]_vars PROVE Served'  OBVIOUS
  <1>1. req' = req /\ ReqEnd(req') = ReqEnd(req) /\ Byte(req'.len) = Byte(req.len)
    BY SameRequest
  <1>2. ReqEnd(req) \in Nat /\ ReqLen(req) \in Nat
    BY Lengths DEF Inv, TypeOK, Requests
  <1>3. took \in Nat /\ rawLen \in Nat /\ Served
    BY DEF Inv, TypeOK
  <1>. USE <1>1, <1>2, <1>3
  <1>4. rawLen' \in Nat /\ rawLen <= rawLen'
    <2>1. CASE Write
      <3>1. cpc = "write" /\ rawLen' \in {rawLen, ReqLen(req)}
        BY <2>1 DEF Write, Close
      <3>2. rawLen = 0  BY <3>1 DEF Inv, Parsed
      <3>. QED  BY <3>1, <3>2
    <2>2. CASE ~Write
      <3>1. rawLen' = rawLen
        BY <2>2 DEF vars, clientVars, Next, Client, Server, AppSends, AppCloses, Break,
           Handshake, ReadRequest, ReadRest, ReadFails, Choose, DirectEnds, Connect,
           Confirm, ConfirmFails, PipeEnds, Head, NameLength, Body, RequestFails,
           DnsNormal, Dial, Reply, ServerPipeEnds, Step, Close
      <3>. QED  BY <3>1
    <2>. QED  BY <2>1, <2>2
  <1>5. CASE UNCHANGED serverVars
    BY <1>4, <1>5 DEF serverVars, Served
  <1>6. CASE Connect
    <2>1. spc' \in {spc, "head"} /\ UNCHANGED <<took, hostLen, dialed>>
      BY <1>6 DEF Connect
    <2>. QED  BY <1>4, <2>1 DEF Served, Behind
  <1>7. CASE Server
    <2>0. UNCHANGED rawLen
      BY <1>7, ServerFrame
    <2>. USE <2>0
    <2>1. CASE Head
      <3>1. spc = "head" /\ UNCHANGED <<hostLen, dialed>>
        BY <2>1 DEF Head
      <3>2. \/ spc' = "len" /\ req.type = "domain"
            \/ spc' = "body" /\ req.type \in {"ipv4", "ipv6"}
            \/ spc' = "closed"
        BY <2>1 DEF Head, DelCon
      <3>3. ~dialed  BY <3>1 DEF Inv, Answers
      <3>. QED  BY <3>1, <3>2, <3>3 DEF Served, Behind
    <2>2. CASE NameLength
      <3>1. spc = "len" /\ spc' = "body" /\ UNCHANGED dialed
        BY <2>2 DEF NameLength
      <3>2. ~dialed  BY <3>1 DEF Inv, Answers
      <3>. QED  BY <3>1, <3>2 DEF Served, Behind
    <2>3. CASE Body
      <3>1. /\ spc = "body" /\ spc' \in {"dns", "dial"} /\ rawLen >= ReqEnd(req)
            /\ took' = ReqEnd(req) /\ UNCHANGED dialed
            /\ hostLen' = IF req.type = "domain" THEN Byte(req.len) ELSE 0
        BY <2>3 DEF Body
      <3>2. req.type \in {"ipv4", "ipv6", "domain"}  BY <3>1 DEF Served
      <3>. QED  BY <3>1, <3>2 DEF Served, Behind
    <2>4. CASE RequestFails
      <3>1. spc' = "closed" /\ UNCHANGED <<took, hostLen, dialed>>
        BY <2>4 DEF RequestFails, DelCon
      <3>. QED  BY <3>1 DEF Served, Behind
    <2>5. CASE DnsNormal \/ Dial \/ Reply \/ ServerPipeEnds
      <3>1. /\ spc \in Behind /\ spc' \in {"reply", "pipe", "closed"}
            /\ UNCHANGED <<took, hostLen>>
        BY <2>5 DEF DnsNormal, Dial, Reply, ServerPipeEnds, DelCon, Behind
      <3>. QED  BY <3>1 DEF Served, Behind
    <2>. QED  BY <1>7, <2>1, <2>2, <2>3, <2>4, <2>5 DEF Server
  <1>. QED  BY <1>5, <1>6, <1>7, ClientFrame DEF Next, vars

\* No step breaks Unopened.
LEMMA UnopenedStep == Inv /\ [Next]_vars => Unopened'
  <1>. SUFFICES ASSUME Inv, [Next]_vars PROVE Unopened'  OBVIOUS
  <1>0. Unopened  BY DEF Inv
  <1>1. CASE UNCHANGED vars
    BY <1>0, <1>1 DEF vars, clientVars, serverVars, Unopened
  <1>2. CASE (Client /\ ~Connect) \/ AppSends \/ AppCloses \/ Break
    <2>1. cpc' \in Early => cpc \in Early
      BY <1>2 DEF Client, Handshake, ReadRequest, ReadRest, ReadFails, Choose,
         DirectEnds, Write, Confirm, ConfirmFails, PipeEnds, Step, Close, AppSends,
         AppCloses, Break, clientVars, Early
    <2>2. spc' = spc  BY <1>2, ClientFrame DEF serverVars
    <2>. QED  BY <1>0, <2>1, <2>2 DEF Unopened
  <1>3. CASE Connect
    BY <1>3 DEF Connect, Close, Unopened, Early
  <1>4. CASE Server
    <2>1. spc # "none"
      BY <1>4 DEF Server, Head, NameLength, Body, RequestFails, DnsNormal, Dial,
         Reply, ServerPipeEnds
    <2>2. cpc' = cpc  BY <1>4, ServerFrame
    <2>. QED  BY <1>0, <2>1, <2>2 DEF Unopened
  <1>. QED  BY <1>1, <1>2, <1>3, <1>4 DEF Next

\* No step breaks Answers.
LEMMA AnswersStep == Inv /\ [Next]_vars => Answers'
  <1>. SUFFICES ASSUME Inv, [Next]_vars PROVE Answers'  OBVIOUS
  <1>0. Answers /\ req' = req
    BY SameRequest DEF Inv
  <1>2. dialed \in BOOLEAN /\ answer \in {"none", "confirm", "reply"}
    BY DEF Inv, TypeOK
  <1>. USE <1>0
  <1>3. CASE UNCHANGED <<serverVars, told>>
    BY <1>3, Zenon DEF serverVars, Answers
  <1>4. CASE Confirm
    <2>1. spc' = spc /\ dialed' = dialed /\ answer' = answer
      BY <1>4 DEF Confirm, serverVars
    <2>2. (told' <=> told) \/ (req.from = "socks" /\ answer = "confirm")
      BY <1>4, Zenon DEF Confirm, Step, Close
    <2>. QED  BY <2>1, <2>2 DEF Answers
  <1>5. CASE Connect
    <2>1. spc = "none"  BY <1>5 DEF Connect, Inv, Unopened, Early
    <2>2. spc' \in {"none", "head"} /\ UNCHANGED <<dialed, answer, told>>
      BY <1>5, <2>1 DEF Connect, Close
    <2>. QED  BY <2>1, <2>2 DEF Answers
  <1>6. CASE Server
    <2>0. UNCHANGED told  BY <1>6, ServerFrame
    <2>. USE <2>0 DEF Answers
    <2>1. CASE Head  BY <2>1 DEF Head, DelCon
    <2>2. CASE NameLength  BY <2>2 DEF NameLength
    <2>3. CASE Body
      <3>1. /\ spc = "body" /\ UNCHANGED <<dialed, answer>>
            /\ spc' \in {"dns", "dial"} /\ (spc' = "dns" => req.host = "dns")
        BY <2>3 DEF Body
      <3>. QED  BY <3>1
    <2>4. CASE RequestFails  BY <2>4 DEF RequestFails, DelCon
    <2>5. CASE DnsNormal
      <3>1. /\ spc = "dns" /\ spc' = "closed" /\ UNCHANGED dialed
        BY <2>5 DEF DnsNormal, DelCon
      <3>2. answer' \in {answer, "reply"}
        BY <2>5 DEF DnsNormal
      <3>. QED  BY <1>2, <3>1, <3>2
    <2>6. CASE Dial  BY <2>6 DEF Dial, DelCon
    <2>7. CASE Reply  BY <2>7 DEF Reply, DelCon
    <2>8. CASE ServerPipeEnds  BY <2>8 DEF ServerPipeEnds, DelCon
    <2>. QED
      BY <1>6, <2>1, <2>2, <2>3, <2>4, <2>5, <2>6, <2>7, <2>8 DEF Server
  <1>7. (Client /\ ~Connect /\ ~Confirm) \/ AppSends \/ AppCloses \/ Break
          => UNCHANGED told
    BY DEF Client, Handshake, ReadRequest, ReadRest, ReadFails, Choose, DirectEnds,
       Write, ConfirmFails, PipeEnds, Step, Close, AppSends, AppCloses, Break,
       clientVars
  <1>. QED
    BY <1>3, <1>4, <1>5, <1>6, <1>7, ClientFrame DEF Next, vars, clientVars

-----------------------------------------------------------------------------
\* The invariant holds in every reachable state.
LEMMA Invariant == Spec => []Inv
  <1>1. Inv /\ [Next]_vars => Inv'
    BY TypeStep, ParsedStep, ServedStep, UnopenedStep, AnswersStep DEF Inv
  <1>. QED  BY InvInit, <1>1, PTL DEF Spec

-----------------------------------------------------------------------------
\* Every variable of a proxied connection keeps its type; the application's
\* request fits the 263 bytes of GetLocalRequest's buffer.
THEOREM TypeCorrect == Spec => []TypeOK
  BY Invariant, PTL DEF Inv

\* For every request and every way TCP cuts it, what the client writes to the
\* stream is that request, read to its end and not beyond.
THEOREM ForwardsCorrectly == Spec => []ForwardsTheRequest
  <1>1. Inv => ForwardsTheRequest
    BY DEF Inv, Parsed, ForwardsTheRequest
  <1>. QED  BY <1>1, Invariant, PTL

\* A name of up to 255 bytes reaches the server whole, and the server's parser
\* stops at the end of the request.
THEOREM DialsCorrectly == Spec => []DialsWhatWasAsked
  <1>1. Inv => DialsWhatWasAsked
    <2>. SUFFICES ASSUME Inv, dialed, req.len <= 255
                  PROVE  took = rawLen /\ (req.type = "domain" => hostLen = req.len)
      BY DEF DialsWhatWasAsked
    <2>1. req \in Requests  BY DEF Inv, TypeOK, Requests
    <2>2. Byte(req.len) = req.len  BY <2>1, Lengths, ByteRange
    <2>3. took = ReqEnd(req) /\ took <= rawLen /\ rawLen \in {0, ReqLen(req)}
          /\ req.type \in {"ipv4", "ipv6", "domain"}
          /\ hostLen = (IF req.type = "domain" THEN Byte(req.len) ELSE 0)
      BY DEF Inv, Served, Parsed
    <2>. QED  BY <2>1, <2>2, <2>3, Lengths
  <1>. QED  BY <1>1, Invariant, PTL

\* Whatever fails, no SOCKS application is told that a connection stands to
\* which the server did not connect.
THEOREM TellsTheTruth == Spec => []ToldOnlyIfDialed
  <1>1. Inv => ToldOnlyIfDialed
    BY DEF Inv, Answers, ToldOnlyIfDialed
  <1>. QED  BY <1>1, Invariant, PTL

-----------------------------------------------------------------------------
(* The promise of Exchange.  An end holds the stream exactly between its   *)
(* first and its last step with it, an answer is the last thing a server   *)
(* does before its relay, and a request the parser refuses goes nowhere.   *)

Chosen == {"rest", "choose", "direct", "connect", "write", "confirm", "pipe"}

Ordered ==
    /\ cliOpen <=> cpc \in {"write", "confirm", "pipe"}
    /\ srvOpen <=> spc \notin {"none", "closed"}
    /\ answer # "none" => spc \in {"pipe", "closed"}
    /\ told => cpc \in {"pipe", "closed"}
    /\ cpc \in Chosen => req.type # "other"

\* In the first state nobody holds a stream.
LEMMA OrderedInit == Init => Ordered
  <1>. SUFFICES ASSUME Init PROVE Ordered  OBVIOUS
  <1>1. req.from = "socks" \/ req.type = "domain"
    BY Lengths DEF Init, Requests
  <1>2. /\ cpc = IF req.from = "socks" THEN "accept" ELSE "connect"
        /\ spc = "none" /\ ~cliOpen /\ ~srvOpen /\ answer = "none" /\ ~told
    BY DEF Init
  <1>. QED  BY <1>1, <1>2 DEF Ordered, Chosen

\* No step breaks Ordered.
LEMMA OrderedStep == Inv /\ Ordered /\ [Next]_vars => Ordered'
  <1>. SUFFICES ASSUME Inv, Ordered, [Next]_vars PROVE Ordered'  OBVIOUS
  <1>0. Answers /\ Unopened /\ req' = req
    BY SameRequest DEF Inv
  <1>1. /\ cliOpen \in BOOLEAN /\ srvOpen \in BOOLEAN /\ told \in BOOLEAN
    BY DEF Inv, TypeOK
  <1>. USE <1>0
  <1>2. CASE UNCHANGED vars
    BY <1>2, Zenon DEF vars, clientVars, serverVars, Ordered
  <1>3. CASE AppSends \/ AppCloses \/ Break
    <2>1. UNCHANGED <<cpc, spc, cliOpen, srvOpen, answer, told>>
      BY <1>3 DEF AppSends, AppCloses, Break, clientVars, serverVars
    <2>. QED  BY <2>1, Zenon DEF Ordered
  <1>4. CASE Server
    <2>1. UNCHANGED <<cpc, cliOpen, told>>
      BY <1>4 DEF Server, Head, NameLength, Body, RequestFails, DnsNormal, Dial,
         Reply, ServerPipeEnds, clientVars
    <2>2. srvOpen' <=> spc' \notin {"none", "closed"}
      BY <1>4 DEF Server, Head, NameLength, Body, RequestFails, DnsNormal, Dial,
         Reply, ServerPipeEnds, DelCon, Ordered
    <2>3. answer' # "none" => spc' \in {"pipe", "closed"}
      BY <1>4 DEF Server, Head, NameLength, Body, RequestFails, DnsNormal, Dial,
         Reply, ServerPipeEnds, DelCon, Ordered
    <2>. QED  BY <2>1, <2>2, <2>3 DEF Ordered
  <1>5. CASE Connect
    <2>1. cpc = "connect" /\ spc = "none" /\ answer = "none" /\ ~told /\ req.type # "other"
      BY <1>5 DEF Connect, Unopened, Early, Ordered, Chosen
    <2>2. UNCHANGED <<answer, told>>  BY <1>5 DEF Connect, Close
    <2>3. \/ cpc' = "closed" /\ ~cliOpen' /\ spc' = "none" /\ srvOpen' = srvOpen
          \/ cpc' = "write" /\ cliOpen' /\ spc' = "head" /\ srvOpen'
      BY <1>5, <2>1 DEF Connect, Close
    <2>. QED  BY <2>1, <2>2, <2>3 DEF Ordered
  <1>6. CASE Client /\ ~Connect
    <2>0. UNCHANGED <<spc, srvOpen, answer>>
      BY <1>6, ClientFrame DEF serverVars
    <2>1. cliOpen' <=> cpc' \in {"write", "confirm", "pipe"}
      BY <1>6 DEF Client, Handshake, ReadRequest, ReadRest, ReadFails, Choose,
         DirectEnds, Write, Confirm, ConfirmFails, PipeEnds, Step, Close, Ordered
    <2>2. told' => cpc' \in {"pipe", "closed"}
      BY <1>6 DEF Client, Handshake, ReadRequest, ReadRest, ReadFails, Choose,
         DirectEnds, Write, Confirm, ConfirmFails, PipeEnds, Step, Close, Ordered
    <2>3. cpc' \in Chosen => req.type # "other"
      BY <1>6 DEF Client, Handshake, ReadRequest, ReadRest, ReadFails, Choose,
         DirectEnds, Write, Confirm, ConfirmFails, PipeEnds, Step, Close, Ordered,
         Chosen
    <2>. QED  BY <2>0, <2>1, <2>2, <2>3 DEF Ordered
  <1>. QED  BY <1>2, <1>3, <1>4, <1>5, <1>6 DEF Next

\* The first states are first states of the promise.
LEMMA PromiseInit == Init => Promise!Init
  <1>. SUFFICES ASSUME Init PROVE Promise!Init  OBVIOUS
  <1>1. req.from \in {"socks", "http", "dns"}
    BY Lengths DEF Init, Requests
  <1>2. /\ cpc \in {"accept", "connect"} /\ ~cliOpen /\ spc = "none" /\ ~srvOpen
        /\ rawLen = 0 /\ answer = "none" /\ told = FALSE
    BY DEF Init
  <1>3. ClientEnd = "idle" /\ ServerEnd = "none"
    BY <1>2 DEF ClientEnd, ServerEnd
  <1>. QED  BY <1>1, <1>2, <1>3 DEF Promise!Init

\* How far an end is, told by its program counter alone.
ClientAt(c) ==
    IF c = "write" THEN "open" ELSE IF c = "confirm" THEN "asked"
    ELSE IF c = "pipe" THEN "relay" ELSE IF c \in {"closed", "crashed"} THEN "ended"
    ELSE "idle"

ServerAt(s) ==
    IF s = "none" THEN "none" ELSE IF s = "reply" THEN "dialed"
    ELSE IF s = "pipe" THEN "relay" ELSE IF s = "closed" THEN "ended"
    ELSE "serving"

\* No end is lost.
LEMMA Places == Inv /\ Ordered => ClientEnd = ClientAt(cpc) /\ ServerEnd = ServerAt(spc)
  <1>. SUFFICES ASSUME Inv, Ordered
                PROVE  ClientEnd = ClientAt(cpc) /\ ServerEnd = ServerAt(spc)
    OBVIOUS
  <1>1. /\ cpc \in {"accept", "request", "rest", "choose", "direct", "connect",
                    "write", "confirm", "pipe", "closed", "crashed"}
        /\ spc \in {"none", "head", "len", "body", "dns", "dial", "reply", "pipe",
                    "closed"}
    BY DEF Inv, TypeOK
  <1>2. ClientEnd = ClientAt(cpc)
    BY <1>1 DEF ClientEnd, ClientAt, Ordered
  <1>3. ServerEnd = ServerAt(spc)
    BY <1>1 DEF ServerEnd, ServerAt, Ordered
  <1>. QED  BY <1>2, <1>3

\* Every step is a step of the promise or none.
LEMMA PromiseStep ==
    Inv /\ Ordered /\ (Inv /\ Ordered)' /\ [Next]_vars => [Promise!Next]_(Promise!vars)
  <1>. SUFFICES ASSUME Inv, Ordered, (Inv /\ Ordered)', [Next]_vars
                PROVE  [Promise!Next]_(Promise!vars)
    OBVIOUS
  <1>1. /\ ClientEnd = ClientAt(cpc) /\ ServerEnd = ServerAt(spc)
        /\ ClientEnd' = ClientAt(cpc') /\ ServerEnd' = ServerAt(spc')
    <2>1. ClientEnd = ClientAt(cpc) /\ ServerEnd = ServerAt(spc)
      BY Places
    <2>2. (ClientEnd = ClientAt(cpc) /\ ServerEnd = ServerAt(spc))'
      BY Places, PTL
    <2>. QED  BY <2>1, <2>2
  <1>2. req' = req  BY SameRequest
  <1>3. Parsed /\ Served /\ Answers /\ Unopened  BY DEF Inv
  <1>4. rawLen \in Nat /\ took \in Nat /\ ReqLen(req) \in Nat
    BY Lengths DEF Inv, TypeOK, Requests
  \* Steps that change neither end.
  <1>5. ASSUME /\ UNCHANGED <<rawLen, answer, told>>
               /\ ClientAt(cpc') = ClientAt(cpc) /\ ServerAt(spc') = ServerAt(spc)
        PROVE  [Promise!Next]_(Promise!vars)
    BY <1>1, <1>2, <1>5 DEF Promise!vars
  \* Steps that end the client's goroutine.
  <1>6. ASSUME cpc' \in {"closed", "crashed"}, cpc \notin {"closed", "crashed"},
               UNCHANGED <<spc, rawLen, answer, told>>
        PROVE  [Promise!Next]_(Promise!vars)
    <2>1. ClientEnd' = "ended" /\ ClientEnd # "ended" /\ ServerEnd' = ServerEnd
      BY <1>1, <1>6 DEF ClientAt
    <2>2. Promise!ClientEnds
      BY <1>2, <1>6, <2>1 DEF Promise!ClientEnds
    <2>. QED  BY <2>2 DEF Promise!Next
  \* Steps that end the server's goroutine.
  <1>7. ASSUME spc' = "closed", spc \notin {"none", "closed"},
               UNCHANGED <<cpc, rawLen, answer, told>>
        PROVE  [Promise!Next]_(Promise!vars)
    <2>1. ServerEnd' = "ended" /\ ServerEnd \in {"serving", "dialed", "relay"}
          /\ ClientEnd' = ClientEnd
      BY <1>1, <1>7 DEF ServerAt
    <2>2. Promise!ServerEnds
      BY <1>2, <1>7, <2>1 DEF Promise!ServerEnds
    <2>. QED  BY <2>2 DEF Promise!Next
  <1>8. CASE UNCHANGED vars
    BY <1>5, <1>8 DEF vars, clientVars, serverVars
  <1>9. CASE AppSends \/ AppCloses \/ Break
    <2>1. UNCHANGED <<cpc, spc, rawLen, answer, told>>
      BY <1>9 DEF AppSends, AppCloses, Break, clientVars, serverVars
    <2>. QED  BY <1>5, <2>1
  <1>10. CASE Server
    <2>0. UNCHANGED <<cpc, rawLen, told>>
      BY <1>10, ServerFrame
    <2>0a. /\ srvOpen' => spc' \notin {"none", "closed"}
           /\ ClientEnd' = ClientEnd
      BY <1>1, <2>0 DEF Ordered
    <2>1. CASE Head \/ NameLength \/ RequestFails \/ ServerPipeEnds
      <3>1. /\ spc \notin {"none", "closed"} /\ UNCHANGED answer
            /\ \/ spc' = "closed"
               \/ spc \in {"head", "len"} /\ spc' \in {"len", "body"}
        BY <2>1, Zenon DEF Head, NameLength, RequestFails, ServerPipeEnds, DelCon
      <3>2. CASE spc' = "closed"  BY <1>7, <2>0, <3>1, <3>2
      <3>3. CASE spc \in {"head", "len"} /\ spc' \in {"len", "body"}
        BY <1>5, <2>0, <3>1, <3>3 DEF ServerAt
      <3>. QED  BY <3>1, <3>2, <3>3
    <2>2. CASE Body
      <3>1. spc = "body" /\ spc' \in {"dns", "dial"} /\ UNCHANGED answer
        BY <2>2 DEF Body
      <3>. QED  BY <1>5, <2>0, <3>1 DEF ServerAt
    <2>3. CASE DnsNormal
      <3>1. spc = "dns" /\ spc' = "closed" /\ answer' \in {answer, "reply"}
        BY <2>3 DEF DnsNormal, DelCon
      <3>2. /\ answer = "none" /\ rawLen > 0 /\ req.from # "http"
        <4>1. took = ReqEnd(req) /\ took <= rawLen /\ req.type \in {"ipv4", "ipv6", "domain"}
          BY <1>3, <3>1 DEF Served, Behind
        <4>2. ReqEnd(req) > 0
          BY <4>1, Lengths DEF Inv, TypeOK, Requests
        <4>3. answer = "none" /\ req.host = "dns"
          BY <1>3, <3>1 DEF Ordered, Answers
        <4>4. req.from # "http"
          BY <4>3, Lengths DEF Inv, TypeOK, Requests
        <4>. QED  BY <1>4, <4>1, <4>2, <4>3, <4>4
      <3>3. CASE answer' = "reply"
        <4>1. ServerEnd = "serving" /\ ServerEnd' = "ended"
          BY <1>1, <3>1 DEF ServerAt
        <4>2. (rawLen > 0)' = (rawLen > 0)
          BY <2>0
        <4>3. Promise!Lookup
          BY <1>2, <2>0, <2>0a, <3>2, <3>3, <4>1, <4>2 DEF Promise!Lookup
        <4>. QED  BY <4>3 DEF Promise!Next
      <3>4. CASE UNCHANGED answer
        BY <1>7, <2>0, <3>1, <3>4
      <3>. QED  BY <3>1, <3>3, <3>4
    <2>4. CASE Dial
      <3>1. spc = "dial" /\ spc' \in {"reply", "closed"} /\ UNCHANGED answer
        BY <2>4 DEF Dial, DelCon
      <3>2. CASE spc' = "closed"  BY <1>7, <2>0, <3>1, <3>2
      <3>3. CASE spc' = "reply"
        <4>1. took = ReqEnd(req) /\ took <= rawLen /\ req.type \in {"ipv4", "ipv6", "domain"}
          BY <1>3, <3>1 DEF Served, Behind
        <4>2. ReqEnd(req) > 0
          BY <4>1, Lengths DEF Inv, TypeOK, Requests
        <4>3. rawLen > 0  BY <1>4, <4>1, <4>2
        <4>4. ServerEnd = "serving" /\ ServerEnd' = "dialed"
          BY <1>1, <3>1, <3>3 DEF ServerAt
        <4>5. Promise!Dial
          BY <1>2, <2>0, <2>0a, <3>1, <4>3, <4>4 DEF Promise!Dial
        <4>. QED  BY <4>5 DEF Promise!Next
      <3>. QED  BY <3>1, <3>2, <3>3
    <2>5. CASE Reply
      <3>1. /\ spc = "reply"
            /\ \/ spc' = "pipe" /\ answer' = "confirm"
               \/ spc' = "closed" /\ UNCHANGED answer
        BY <2>5 DEF Reply, DelCon
      <3>2. CASE spc' = "closed" /\ UNCHANGED answer  BY <1>7, <2>0, <3>1, <3>2
      <3>3. CASE spc' = "pipe" /\ answer' = "confirm"
        <4>1. ServerEnd = "dialed" /\ ServerEnd' = "relay"
          BY <1>1, <3>1, <3>3 DEF ServerAt
        <4>2. answer = "none"  BY <3>1 DEF Ordered
        <4>3. Promise!Confirm
          BY <1>2, <2>0, <2>0a, <3>3, <4>1, <4>2 DEF Promise!Confirm
        <4>. QED  BY <4>3 DEF Promise!Next
      <3>. QED  BY <3>1, <3>2, <3>3
    <2>. QED
      BY <1>10, <2>1, <2>2, <2>3, <2>4, <2>5 DEF Server
  <1>11. CASE Connect
    <2>1. /\ cpc = "connect" /\ UNCHANGED <<rawLen, answer, told>>
          /\ \/ cpc' = "closed" /\ spc' = spc
             \/ cpc' = "write" /\ spc' = "head"
      BY <1>11 DEF Connect, Close
    <2>2. spc = "none"  BY <1>3, <2>1 DEF Unopened, Early
    <2>3. CASE cpc' = "closed" /\ spc' = spc  BY <1>6, <2>1, <2>3
    <2>4. CASE cpc' = "write" /\ spc' = "head"
      <3>1. /\ ClientEnd = "idle" /\ ClientEnd' = "open"
            /\ ServerEnd = "none" /\ ServerEnd' = "serving"
        BY <1>1, <2>1, <2>2, <2>4 DEF ClientAt, ServerAt
      <3>2. Promise!Open
        BY <1>2, <2>1, <3>1 DEF Promise!Open
      <3>. QED  BY <3>2 DEF Promise!Next
    <2>. QED  BY <2>1, <2>3, <2>4
  <1>12. CASE Client /\ ~Connect
    <2>0. UNCHANGED <<spc, answer>> /\ ServerEnd' = ServerEnd
      <3>1. UNCHANGED <<spc, answer>>  BY <1>12, ClientFrame DEF serverVars
      <3>. QED  BY <1>1, <3>1
    <2>1. CASE Write
      <3>1. /\ cpc = "write" /\ UNCHANGED told
            /\ \/ cpc' = "confirm" /\ rawLen' = ReqLen(req)
               \/ cpc' = "closed" /\ UNCHANGED rawLen
        BY <2>1 DEF Write, Close
      <3>2. CASE cpc' = "closed" /\ UNCHANGED rawLen  BY <1>6, <2>0, <3>1, <3>2
      <3>3. CASE cpc' = "confirm" /\ rawLen' = ReqLen(req)
        <4>1. req.type # "other"  BY <3>1 DEF Ordered, Chosen
        <4>2. ReqLen(req) > 0
          <5>1. req.type \in AddrTypes /\ req.len \in Nat
            BY Lengths DEF Inv, TypeOK, Requests
          <5>. QED  BY <4>1, <5>1 DEF AddrTypes, ReqLen
        <4>3. (rawLen > 0)' = TRUE
          BY <1>4, <3>3, <4>2
        <4>4. ClientEnd = "open" /\ ClientEnd' = "asked"
          BY <1>1, <3>1, <3>3 DEF ClientAt
        <4>5. Promise!Ask
          BY <1>2, <2>0, <3>1, <4>3, <4>4 DEF Promise!Ask
        <4>. QED  BY <4>5 DEF Promise!Next
      <3>. QED  BY <3>1, <3>2, <3>3
    <2>2. CASE Confirm
      <3>1. /\ cpc = "confirm" /\ answer # "none" /\ UNCHANGED rawLen
            /\ \/ cpc' = "closed" /\ UNCHANGED told
               \/ cpc' = "pipe" /\ req.from # "dns" /\ UNCHANGED told
               \/ cpc' = "pipe" /\ req.from = "socks" /\ answer = "confirm" /\ told' = TRUE
        BY <2>2 DEF Confirm, Step, Close
      <3>2. CASE cpc' = "closed" /\ UNCHANGED told  BY <1>6, <2>0, <3>1, <3>2
      <3>3. CASE cpc' = "pipe"
        <4>1. ClientEnd = "asked" /\ ClientEnd' = "relay"
          BY <1>1, <3>1, <3>3 DEF ClientAt
        <4>2. req.from # "dns" /\ (told' => req.from = "socks" /\ answer = "confirm")
          BY <1>3, <3>1, <3>3 DEF Answers
        <4>2a. told' \in BOOLEAN  BY DEF Inv, TypeOK
        <4>3. Promise!Relay
          BY <1>2, <2>0, <3>1, <4>1, <4>2, <4>2a DEF Promise!Relay
        <4>. QED  BY <4>3 DEF Promise!Next
      <3>. QED  BY <3>1, <3>2, <3>3
    <2>3. CASE Handshake \/ ReadRequest \/ ReadRest \/ ReadFails \/ Choose
               \/ DirectEnds \/ ConfirmFails \/ PipeEnds
      <3>1. /\ UNCHANGED <<rawLen, told>>
            /\ cpc \notin {"closed", "crashed"}
            /\ \/ cpc' \in {"closed", "crashed"}
               \/ cpc \in Early /\ cpc' \in Early
        BY <2>3 DEF Handshake, ReadRequest, ReadRest, ReadFails, Choose, DirectEnds,
           ConfirmFails, PipeEnds, Step, Close, Early
      <3>2. CASE cpc' \in {"closed", "crashed"}  BY <1>6, <2>0, <3>1, <3>2
      <3>3. CASE cpc \in Early /\ cpc' \in Early
        BY <1>5, <2>0, <3>1, <3>3 DEF ClientAt, Early
      <3>. QED  BY <3>1, <3>2, <3>3
    <2>. QED  BY <1>12, <2>1, <2>2, <2>3 DEF Client
  <1>. QED  BY <1>8, <1>9, <1>10, <1>11, <1>12 DEF Next

\* For requests of every type and length, cut in every way: whatever fails,
\* the goroutines of OnBodyDo and TcpNormal keep the promise of Exchange.
THEOREM ImplementsExchange == Spec => ExchangeSpec
  <1>1. Inv /\ [Next]_vars => Inv'
    BY TypeStep, ParsedStep, ServedStep, UnopenedStep, AnswersStep DEF Inv
  <1>2. Inv /\ Ordered /\ [Next]_vars => (Inv /\ Ordered)'
    BY <1>1, OrderedStep
  <1>. QED
    BY InvInit, OrderedInit, <1>2, PromiseInit, PromiseStep, PTL
       DEF Spec, ExchangeSpec, Promise!Spec

-----------------------------------------------------------------------------
(* What the two findings of this component come to, for every instance.    *)

\* GetServerRequest counts the address of an IPv6 request twice and waits for
\* bytes that no client sends: no such request is dialed or answered.
IPv6NeverServed ==
    req.type = "ipv6" => spc \notin Behind /\ ~dialed /\ answer = "none" /\ ~told

\* The parsers of the two ends disagree about no other type: when the server
\* waits for the rest of such a request, the rest is on its way.
OthersHaveArrived == req.type # "ipv6" /\ spc = "body" => ReqEnd(req) <= rawLen

\* GetLocalRequest's sum of bytes wraps, and ends the client, only for names
\* of more than 250 bytes.
OnlyLongNamesCrash ==
    cpc = "crashed" => req.type \in Named /\ req.len \in 251..255

\* No request for an IPv6 address is served, whatever the server's
\* goroutine, the application and the tunnel do.
THEOREM IPv6IsNeverServed == Spec => []IPv6NeverServed
  <1>1. Inv => IPv6NeverServed
    <2>. SUFFICES ASSUME Inv, req.type = "ipv6"
                  PROVE  spc \notin Behind /\ ~dialed /\ answer = "none" /\ ~told
      BY DEF IPv6NeverServed
    <2>1. req \in Requests  BY DEF Inv, TypeOK, Requests
    <2>2. ReqLen(req) = 22 /\ ReqEnd(req) = 26 /\ req.host # "dns"
      BY <2>1, Lengths DEF Named
    <2>3. rawLen \in {0, 22}  BY <2>2 DEF Inv, Parsed
    <2>4. spc \notin Behind /\ ~dialed
      BY <2>2, <2>3 DEF Inv, Served
    <2>. QED  BY <2>2, <2>4 DEF Inv, TypeOK, Answers
  <1>. QED  BY <1>1, Invariant, PTL

\* The server reads a type or a length only out of a request that was written.
Written == spc \in {"len", "body"} => rawLen > 0

\* No step breaks Written.
LEMMA WrittenStep == Inv /\ Written /\ [Next]_vars => Written'
  <1>. SUFFICES ASSUME Inv, Written, [Next]_vars PROVE Written'  OBVIOUS
  <1>1. rawLen \in Nat /\ ReqLen(req) \in Nat
    BY Lengths DEF Inv, TypeOK, Requests
  <1>2. CASE Server
    <2>1. UNCHANGED rawLen  BY <1>2, ServerFrame
    <2>2. spc' \in {"len", "body"} => spc = "len" \/ rawLen >= 4
      BY <1>2 DEF Server, Head, NameLength, Body, RequestFails, DnsNormal, Dial,
         Reply, ServerPipeEnds, DelCon
    <2>. QED  BY <1>1, <2>1, <2>2 DEF Written
  <1>3. CASE Connect
    BY <1>3 DEF Connect, Unopened, Early, Inv, Written
  <1>4. CASE Write
    <2>1. cpc = "write" /\ UNCHANGED spc  BY <1>4 DEF Write, serverVars
    <2>2. rawLen = 0  BY <2>1 DEF Inv, Parsed
    <2>. QED  BY <2>1, <2>2 DEF Written
  <1>5. CASE (Client /\ ~Connect /\ ~Write) \/ AppSends \/ AppCloses \/ Break
             \/ UNCHANGED vars
    <2>1. UNCHANGED <<spc, rawLen>>
      BY <1>5 DEF Client, Handshake, ReadRequest, ReadRest, ReadFails, Choose,
         DirectEnds, Confirm, ConfirmFails, PipeEnds, Step, Close, AppSends,
         AppCloses, Break, clientVars, serverVars, vars
    <2>. QED  BY <2>1 DEF Written
  <1>. QED  BY <1>2, <1>3, <1>4, <1>5 DEF Next

\* For every other type, GetServerRequest's last read never waits for bytes
\* that the client has not written.
THEOREM OthersAreRead == Spec => []OthersHaveArrived
  <1>1. Init => Written  BY DEF Init, Written
  <1>2. Inv /\ Written => OthersHaveArrived
    <2>. SUFFICES ASSUME Inv, Written, req.type # "ipv6", spc = "body"
                  PROVE  ReqEnd(req) <= rawLen
      BY DEF OthersHaveArrived
    <2>1. req \in Requests  BY DEF Inv, TypeOK, Requests
    <2>2. rawLen = ReqLen(req)  BY DEF Inv, Parsed, Written
    <2>3. req.type \in {"ipv4", "domain"}  BY DEF Inv, Served
    <2>4. Byte(req.len) <= req.len
      BY <2>1, Lengths DEF Byte
    <2>. QED  BY <2>1, <2>2, <2>3, <2>4, Lengths
  <1>3. Inv /\ [Next]_vars => Inv'
    BY TypeStep, ParsedStep, ServedStep, UnopenedStep, AnswersStep DEF Inv
  <1>. QED  BY InvInit, <1>1, <1>2, <1>3, WrittenStep, PTL DEF Spec

\* GetLocalRequest parses what an application sends, never a request that
\* HostToRaw built.
Parsing == cpc \in {"accept", "request"} => req.from = "socks"

\* The client ends on a request only if the name in it has 251 to 255 bytes:
\* nothing else an application sends does it.
THEOREM ShortNamesAreSafe == Spec => []OnlyLongNamesCrash
  <1>1. Init => OnlyLongNamesCrash /\ Parsing
    BY DEF Init, OnlyLongNamesCrash, Parsing
  <1>2. Inv /\ OnlyLongNamesCrash /\ Parsing /\ [Next]_vars => OnlyLongNamesCrash'
    <2>. SUFFICES ASSUME Inv, OnlyLongNamesCrash, Parsing, [Next]_vars,
                          cpc' = "crashed"
                  PROVE  req'.type \in Named /\ req'.len \in 251..255
      BY DEF OnlyLongNamesCrash
    <2>0. req' = req  BY SameRequest
    <2>1. req \in Requests /\ req.len \in Nat
      BY Lengths DEF Inv, TypeOK, Requests
    <2>2. CASE cpc = "crashed"
      BY <2>0, <2>2 DEF OnlyLongNamesCrash
    <2>3. CASE cpc # "crashed"
      <3>1. ReadRequest
        BY <2>3 DEF Next, Client, Server, AppSends, AppCloses, Break, Handshake,
           ReadRest, ReadFails, Choose, DirectEnds, Connect, Write, Confirm,
           ConfirmFails, PipeEnds, Head, NameLength, Body, RequestFails, DnsNormal,
           Dial, Reply, ServerPipeEnds, Step, Close, clientVars, vars
      <3>2. cpc = "request" /\ req.type \in Named /\ HostEnd(req) < 5
        BY <3>1 DEF ReadRequest
      <3>3. req.len <= 255
        BY <3>2, <2>1, Lengths DEF Parsing
      <3>4. (5 + req.len) % 256 < 5 => req.len \in 251..255
        BY <2>1, <3>3
      <3>. QED  BY <2>0, <3>2, <3>4 DEF HostEnd, Byte
    <2>. QED  BY <2>2, <2>3
  <1>3. Parsing /\ [Next]_vars => Parsing'
    <2>1. [Next]_vars => (cpc' \in {"accept", "request"} => cpc \in {"accept", "request"})
      BY DEF Next, Client, Server, AppSends, AppCloses, Break, Handshake,
         ReadRequest, ReadRest, ReadFails, Choose, DirectEnds, Connect, Write,
         Confirm, ConfirmFails, PipeEnds, Head, NameLength, Body, RequestFails,
         DnsNormal, Dial, Reply, ServerPipeEnds, Step, Close, clientVars, vars
    <2>. QED  BY <2>1, SameRequest DEF Parsing
  <1>4. Inv /\ [Next]_vars => Inv'
    BY TypeStep, ParsedStep, ServedStep, UnopenedStep, AnswersStep DEF Inv
  <1>. QED  BY InvInit, <1>1, <1>2, <1>3, <1>4, PTL DEF Spec
===============================================================================
