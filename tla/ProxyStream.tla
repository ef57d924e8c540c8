----------------------------- MODULE ProxyStream ------------------------------
(***************************************************************************)
(* One proxied connection from end to end: the application that speaks     *)
(* SOCKS5 (or HTTP CONNECT, or the client's own DNS service), the client's *)
(* goroutine (Socks5Listen, OnBodyBeforeGetRemote and OnBodyDo in          *)
(* clientcontroll/controll.go), the stream it opens through a tunnel, and  *)
(* the server's goroutine for it (HandleConnAsync, TcpNormal and DnsNormal *)
(* in connections/base/proxytunnel.go), with the framing of the request    *)
(* that both ends parse (connections/prosocks5/socks5.go).                 *)
(*                                                                         *)
(* Bytes are counted, not named: what a parser takes from its stream, and  *)
(* how much of the host name was there when it was taken.  The relayed     *)
(* payload and the error counters are left out.                            *)
(***************************************************************************)
EXTENDS Integers

CONSTANTS
    Types,  \* the address types in the requests of the instance
    Lens    \* the lengths of the host names in them

AddrTypes == {"ipv4", "ipv6", "domain", "change", "other"}

ASSUME StreamAssumption ==
    /\ Types \subseteq AddrTypes
    /\ Lens \subseteq Nat

\* Fault: a byte that does not wrap.
WideByte(x) == x
Byte(x) == x % 256
Named == {"domain", "change"}

\* type "other" stands for all a parser refuses: version, command or type.
\* host: an address of the client's own network, a command ("c://"), a query
\* ("dns://"), which any application may name as its host, or another.
\* extra: bytes the application sends behind its request without waiting.
SocksRequests ==
    [from : {"socks"}, type : Types \ Named, host : {"plain", "local"},
     len : {0}, extra : {0, 1}]
    \cup [from : {"socks"}, type : Types \cap Named,
          host : {"plain", "control", "dns"}, len : Lens \cap 0..255, extra : {0, 1}]

\* HostToRaw makes these from a CONNECT host or a packed query.
RawRequests ==
    [from : {"http"}, type : {"domain"}, host : {"plain"}, len : Lens, extra : {0}]
    \cup [from : {"dns"}, type : {"domain"}, host : {"dns"}, len : Lens, extra : {0}]

VARIABLES
    req,      \* the request
    sent,     \* bytes the application's socket has delivered to the client
    appOpen,  \* the application has not closed its socket
    cpc,      \* the client's goroutine
    n,        \* bytes GetLocalRequest has read when it returns
    command,  \* the host it returned is a command to the client
    cliOpen,  \* the client's end of the stream
    rawLen,   \* bytes the client wrote to the stream
    broken,   \* the tunnel under the stream failed
    spc,      \* the server's goroutine
    took,     \* bytes GetServerRequest has read
    hostLen,  \* length of the host it returned
    srvOpen,  \* the server's end of the stream
    dialed,   \* the server connected to the host
    answer,   \* what the server wrote: Socks5Confirm or a DNS reply
    told      \* the application got Socks5Confirm for the stream

clientVars == <<cpc, n, command, cliOpen, rawLen, told>>
serverVars == <<spc, took, hostLen, srvOpen, dialed, answer>>
envVars    == <<sent, appOpen, broken>>
vars       == <<req, clientVars, serverVars, envVars>>

-----------------------------------------------------------------------------
(* Framing.                                                                *)

\* GetLocalRequest's reqLen.
ReqLen(q) ==
    CASE q.type = "ipv4"   -> 10
      [] q.type = "ipv6"   -> 22
      [] q.type = "domain" -> q.len + 7
      [] q.type = "change" -> q.len + 5
      [] OTHER             -> 0

\* idDm0 + buf[idDmLen] is a sum of bytes.
HostEnd(q) == Byte(5 + q.len)

\* Fault: the port is not counted.
ReqEndNoPort(q) ==
    CASE q.type = "ipv4" -> 10
      [] q.type = "ipv6" -> 4 + 22
      [] OTHER           -> Byte(q.len) + 5

\* GetServerRequest's reqEnd.
ReqEnd(q) ==
    CASE q.type = "ipv4" -> 10
      [] q.type = "ipv6" -> 4 + 22
      [] OTHER           -> Byte(q.len) + 7

-----------------------------------------------------------------------------
Init ==
    /\ req \in SocksRequests \cup RawRequests
    /\ sent = 0
    /\ appOpen = TRUE
    /\ cpc = IF req.from = "socks" THEN "accept" ELSE "connect"
    /\ n = 0
    /\ command = FALSE
    /\ cliOpen = FALSE
    /\ rawLen = 0
    /\ broken = FALSE
    /\ spc = "none"
    /\ took = 0
    /\ hostLen = 0
    /\ srvOpen = FALSE
    /\ dialed = FALSE
    /\ answer = "none"
    /\ told = FALSE

-----------------------------------------------------------------------------
(* The application, and the network under the tunnel.                      *)

AppSends ==
    /\ req.from = "socks" /\ appOpen /\ cpc # "accept"
    /\ \E m \in 1..(ReqLen(req) + req.extra - sent) : sent' = sent + m
    /\ UNCHANGED <<req, appOpen, broken, clientVars, serverVars>>

AppCloses ==
    /\ appOpen
    /\ appOpen' = FALSE
    /\ UNCHANGED <<req, sent, broken, clientVars, serverVars>>

Break ==
    /\ cliOpen /\ ~broken
    /\ broken' = TRUE
    /\ UNCHANGED <<req, sent, appOpen, clientVars, serverVars>>

-----------------------------------------------------------------------------
(* The client.  Every return closes both of its connections.               *)

Close ==
    /\ cpc' = "closed"
    /\ cliOpen' = FALSE
    /\ UNCHANGED <<n, command, rawLen, told>>

Step(l) ==
    /\ cpc' = l
    /\ UNCHANGED <<n, command, cliOpen, rawLen, told>>

\* Socks5HandShake.
Handshake ==
    /\ cpc = "accept"
    /\ Step("request") \/ Close
    /\ UNCHANGED <<req, serverVars, envVars>>

\* Fault: extra bytes are not refused.
ReadRequestLax ==
    /\ cpc = "request" /\ sent >= 5
    /\ n' = IF sent < ReqLen(req) THEN n ELSE sent
    /\ command' = (req.host = "control" /\ req.len >= 4 /\ sent >= 9)
    /\ cpc' = IF req.type = "other" THEN "closed"
              ELSE IF req.type \in Named /\ HostEnd(req) < 5 THEN "crashed"
              ELSE IF sent < ReqLen(req) THEN "rest" ELSE "choose"
    /\ UNCHANGED <<cliOpen, rawLen, told, req, serverVars, envVars>>

\* GetLocalRequest reads at least five bytes, and whatever else is there.  It
\* takes the host from the buffer before it reads the rest, so that "c://"
\* counts only if the first read brought it; slicing panics, and ends the
\* client, when the sum of bytes wraps.
ReadRequest ==
    /\ cpc = "request" /\ sent >= 5
    /\ n' = IF sent < ReqLen(req) THEN n ELSE sent
    /\ command' = (req.host = "control" /\ req.len >= 4 /\ sent >= 9)
    /\ cpc' = IF req.type = "other" THEN "closed"
              ELSE IF req.type \in Named /\ HostEnd(req) < 5 THEN "crashed"
              ELSE IF sent < ReqLen(req) THEN "rest"
              ELSE IF sent = ReqLen(req) THEN "choose" ELSE "closed"
    /\ UNCHANGED <<cliOpen, rawLen, told, req, serverVars, envVars>>

ReadRest ==
    /\ cpc = "rest" /\ sent >= ReqLen(req)
    /\ n' = ReqLen(req)
    /\ cpc' = "choose"
    /\ UNCHANGED <<command, cliOpen, rawLen, told, req, serverVars, envVars>>

ReadFails ==
    /\ ~appOpen
    /\ \/ cpc = "request" /\ sent < 5
       \/ cpc = "rest" /\ sent < ReqLen(req)
    /\ Close
    /\ UNCHANGED <<req, serverVars, envVars>>

\* A local IP (and the address of the configuration page) is served from
\* here; a command is for the client itself.
Choose ==
    /\ cpc = "choose"
    /\ \/ req.host = "local" /\ req.type = "ipv4" /\ Step("direct")
       \/ command /\ Close
       \/ /\ ~(req.host = "local" /\ req.type = "ipv4")
          /\ ~command
          /\ Step("connect")
    /\ UNCHANGED <<req, serverVars, envVars>>

\* tcppipe: it fails to connect, or one end closes.
DirectEnds ==
    /\ cpc = "direct"
    /\ Close
    /\ UNCHANGED <<req, serverVars, envVars>>

\* ConnectRemote: with the stream the server's goroutine begins.
Connect ==
    /\ cpc = "connect"
    /\ \/ Close /\ UNCHANGED <<spc, srvOpen>>
       \/ /\ cpc' = "write" /\ cliOpen' = TRUE
          /\ spc' = "head" /\ srvOpen' = TRUE
          /\ UNCHANGED <<n, command, rawLen, told>>
    /\ UNCHANGED <<took, hostLen, dialed, answer, req, envVars>>

\* raw is what GetLocalRequest returned or HostToRaw built.
Write ==
    /\ cpc = "write"
    /\ \/ ~broken /\ srvOpen
          /\ rawLen' = ReqLen(req) /\ cpc' = "confirm"
          /\ UNCHANGED <<n, command, cliOpen, told>>
       \/ (broken \/ ~srvOpen) /\ Close
    /\ UNCHANGED <<req, serverVars, envVars>>

\* Fault: a CONNECT does not wait for the answer.
ConfirmAtOnce ==
    /\ cpc = "confirm"
    /\ \/ req.from = "http" /\ Step("pipe")
       \/ answer # "none" /\ req.from = "dns" /\ Close
       \/ answer # "none" /\ req.from = "socks" /\ Step("pipe")
       \/ /\ answer = "confirm" /\ req.from = "socks"
          /\ cpc' = "pipe" /\ told' = TRUE
          /\ UNCHANGED <<n, command, cliOpen, rawLen>>
       \/ answer = "confirm" /\ req.from = "socks" /\ ~appOpen /\ Close
    /\ UNCHANGED <<req, serverVars, envVars>>

\* ResolveRemoteOld got the reply it waits for.  OnBodyDo passes Socks5Confirm
\* to a SOCKS application; if its one read brought something else (a part of
\* Socks5Confirm, or the DNS reply to a host that is a query), it starts the
\* relay all the same and tells the application nothing.
Confirm ==
    /\ cpc = "confirm" /\ answer # "none"
    /\ \/ req.from = "dns" /\ Close
       \/ req.from # "dns" /\ Step("pipe")
       \/ /\ req.from = "socks" /\ answer = "confirm"
          /\ cpc' = "pipe" /\ told' = TRUE
          /\ UNCHANGED <<n, command, cliOpen, rawLen>>
       \/ req.from = "socks" /\ answer = "confirm" /\ ~appOpen /\ Close
    /\ UNCHANGED <<req, serverVars, envVars>>

\* Fault: nothing ends the wait for the answer but the stream.
ConfirmFailsOnEof ==
    /\ cpc = "confirm" /\ answer = "none" /\ (broken \/ ~srvOpen)
    /\ Close
    /\ UNCHANGED <<req, serverVars, envVars>>

\* The read fails, or its deadline passes.
ConfirmFails ==
    /\ cpc = "confirm"
    /\ Close
    /\ UNCHANGED <<req, serverVars, envVars>>

\* Fault: the stream stays open.
PipeEndsHalf ==
    /\ cpc = "pipe"
    /\ cpc' = "closed"
    /\ UNCHANGED <<n, command, cliOpen, rawLen, told, req, serverVars, envVars>>

\* Pipe: one end closes, a write fails or a read is idle for too long.
PipeEnds ==
    /\ cpc = "pipe"
    /\ Close
    /\ UNCHANGED <<req, serverVars, envVars>>

-----------------------------------------------------------------------------
(* The server.  Every path ends in DelCon, which closes the stream.        *)

DelCon ==
    /\ spc' = "closed"
    /\ srvOpen' = FALSE

Head ==
    /\ spc = "head" /\ rawLen >= 4 /\ ~broken
    /\ took' = 4
    /\ \/ req.type = "domain" /\ spc' = "len" /\ UNCHANGED srvOpen
       \/ req.type \in {"ipv4", "ipv6"} /\ spc' = "body" /\ UNCHANGED srvOpen
       \/ req.type = "change" /\ DelCon
    /\ UNCHANGED <<hostLen, dialed, answer, req, clientVars, envVars>>

NameLength ==
    /\ spc = "len" /\ rawLen >= 5 /\ ~broken
    /\ took' = 5
    /\ spc' = "body"
    /\ UNCHANGED <<hostLen, srvOpen, dialed, answer, req, clientVars, envVars>>

Body ==
    /\ spc = "body" /\ rawLen >= ReqEnd(req) /\ ~broken
    /\ took' = ReqEnd(req)
    /\ hostLen' = IF req.type = "domain" THEN Byte(req.len) ELSE 0
    /\ spc' = IF req.host = "dns" /\ hostLen' >= 6 THEN "dns" ELSE "dial"
    /\ UNCHANGED <<srvOpen, dialed, answer, req, clientVars, envVars>>

\* A read reaches the end of the stream or of the tunnel.
RequestFails ==
    /\ \/ broken /\ spc \in {"head", "len", "body"}
       \/ ~cliOpen /\ \/ spc = "head" /\ rawLen < 4
                      \/ spc = "len" /\ rawLen < 5
                      \/ spc = "body" /\ rawLen < ReqEnd(req)
    /\ DelCon
    /\ UNCHANGED <<took, hostLen, dialed, answer, req, clientVars, envVars>>

\* DnsNormal writes a reply, or fails to unpack the query, and returns.
DnsNormal ==
    /\ spc = "dns"
    /\ \/ UNCHANGED answer
       \/ ~broken /\ answer' = "reply"
    /\ DelCon
    /\ UNCHANGED <<took, hostLen, dialed, req, clientVars, envVars>>

\* Fault: the confirmation is written before the connection is there.
DialEarly ==
    /\ spc = "dial"
    /\ answer' = "confirm"
    /\ \/ dialed' = TRUE /\ spc' = "reply" /\ UNCHANGED srvOpen
       \/ DelCon /\ UNCHANGED dialed
    /\ UNCHANGED <<took, hostLen, req, clientVars, envVars>>

\* TcpNormal.
Dial ==
    /\ spc = "dial"
    /\ \/ dialed' = TRUE /\ spc' = "reply" /\ UNCHANGED srvOpen
       \/ DelCon /\ UNCHANGED dialed
    /\ UNCHANGED <<took, hostLen, answer, req, clientVars, envVars>>

Reply ==
    /\ spc = "reply"
    /\ \/ ~broken /\ answer' = "confirm" /\ spc' = "pipe" /\ UNCHANGED srvOpen
       \/ (broken \/ ~cliOpen) /\ DelCon /\ UNCHANGED answer
    /\ UNCHANGED <<took, hostLen, dialed, req, clientVars, envVars>>

\* Pipe closes both connections when either direction ends.
ServerPipeEnds ==
    /\ spc = "pipe"
    /\ DelCon
    /\ UNCHANGED <<took, hostLen, dialed, answer, req, clientVars, envVars>>

-----------------------------------------------------------------------------
Client ==
    \/ Handshake \/ ReadRequest \/ ReadRest \/ ReadFails \/ Choose
    \/ DirectEnds \/ Connect \/ Write \/ Confirm \/ ConfirmFails \/ PipeEnds

Server ==
    \/ Head \/ NameLength \/ Body \/ RequestFails \/ DnsNormal
    \/ Dial \/ Reply \/ ServerPipeEnds

Next == Client \/ Server \/ AppSends \/ AppCloses \/ Break

Spec == Init /\ [][Next]_vars

\* Goroutines that can run do, dials return and deadlines pass.  A pipe ends
\* surely only when its other side is gone, and ConnectRemote not at all: it
\* can wait for ever for a profile of the pool (module ProfilePool).
FairSpec ==
    /\ Spec
    /\ WF_vars(Client /\ cpc # "connect"
                      /\ (cpc = "pipe" => ~appOpen \/ ~srvOpen \/ broken)
                      /\ (cpc = "direct" => ~appOpen))
    /\ WF_vars(Server /\ (spc = "pipe" => ~cliOpen \/ broken))

-----------------------------------------------------------------------------
(* Properties.                                                             *)

\* Every variable has its type.
TypeOK ==
    /\ req \in SocksRequests \cup RawRequests
    /\ sent \in 0..263
    /\ cpc \in {"accept", "request", "rest", "choose", "direct", "connect",
                "write", "confirm", "pipe", "closed", "crashed"}
    /\ spc \in {"none", "head", "len", "body", "dns", "dial", "reply", "pipe",
                "closed"}
    /\ n \in Nat /\ rawLen \in Nat
    /\ command \in BOOLEAN
    /\ took \in Nat /\ hostLen \in 0..255
    /\ appOpen \in BOOLEAN /\ broken \in BOOLEAN
    /\ cliOpen \in BOOLEAN /\ srvOpen \in BOOLEAN
    /\ answer \in {"none", "confirm", "reply"}
    /\ dialed \in BOOLEAN /\ told \in BOOLEAN

\* However TCP cuts the application's request, what the client writes to the
\* stream has arrived, and is the request without a byte behind it.
ForwardsTheRequest ==
    rawLen > 0 /\ req.from = "socks" => n = rawLen /\ n <= sent

\* The server connects to the whole host name that was asked for, and has
\* then read the request to its last byte, so that the relay starts with the
\* application's first byte of payload; for names that fit a length byte.
DialsWhatWasAsked ==
    dialed /\ req.len <= 255 =>
      /\ took = rawLen
      /\ req.type = "domain" => hostLen = req.len

\* A SOCKS application reads "succeeded" only if the server was connected to
\* the host at that time or before.
ToldOnlyIfDialed == told => dialed

\* How far each end is.  An end that holds the stream where it should not, or
\* has let go of it too early, is at no place the promise knows of.
ClientEnd ==
    CASE cliOpen /\ cpc = "write"                   -> "open"
      [] cliOpen /\ cpc = "confirm"                 -> "asked"
      [] cliOpen /\ cpc = "pipe"                    -> "relay"
      [] ~cliOpen /\ cpc \in {"closed", "crashed"}  -> "ended"
      [] ~cliOpen /\ cpc \in {"accept", "request", "rest", "choose", "direct",
                              "connect"}            -> "idle"
      [] OTHER                                      -> "lost"

ServerEnd ==
    CASE srvOpen /\ spc \in {"head", "len", "body", "dns", "dial"} -> "serving"
      [] srvOpen /\ spc = "reply"                                  -> "dialed"
      [] srvOpen /\ spc = "pipe"                                   -> "relay"
      [] ~srvOpen /\ spc = "closed"                                -> "ended"
      [] ~srvOpen /\ spc = "none"                                  -> "none"
      [] OTHER                                                     -> "lost"

\* The two goroutines implement the promise of Exchange: request, dial, answer
\* and relay come once each and in this order, on a stream both ends hold
\* until they end, and no end acts after its end.
Promise == INSTANCE Exchange WITH
    kind <- req.from, client <- ClientEnd, server <- ServerEnd, asked <- rawLen > 0
ExchangeSpec == Promise!Spec

\* When the application has closed its socket, the client's goroutine ends,
\* wherever it stands, or waits in ConnectRemote; if it comes back from there,
\* it ends.
HandlerEnds == ~appOpen ~> cpc \in {"connect", "closed", "crashed"}

\* When the client's goroutine has ended, the server lets go of the stream.
StreamReleased == cpc = "closed" ~> spc \in {"none", "closed"}

\* GetServerRequest's comment gives an IPv6 request 3 + 1 + 16 + 2 bytes:
\* that is all it waits for.
WaitsForTheRequest == spc = "body" => ReqEnd(req) <= rawLen

\* GetServerRequest's comment, which GetLocalRequest refers to, allows names
\* of 255 bytes.
TakesAnyName == cpc # "crashed"
===============================================================================
