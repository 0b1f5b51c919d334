---------------------------- MODULE CompressionApi ----------------------------
(***************************************************************************)
(* CompressionApi::handle (src/src/CompressionApi.cpp): one exchange per   *)
(* request, no state between them.  A client sends any request and may     *)
(* send the bytes it got back to /decompress; what carries requests and    *)
(* responses is HttpServer's business and not modelled here.               *)
(***************************************************************************)
EXTENDS Codec

CONSTANTS
  Body,  \* the request bodies considered
  Text   \* a body that is a message for people, not bytes to decode

ASSUME ApiAssumption == Body \subseteq Seq(Byte) /\ Text # Rejected

VARIABLES
  request,   \* the last request
  response,  \* its response
  uploaded   \* history: the body that /compress turned into request.body

vars == <<request, response, uploaded>>

Method == {"GET", "POST", "OPTIONS", "PUT"}
Path   == {"/health", "/compress", "/decompress", "/other"}

None == [status |-> 0, body |-> Text]

Init ==
  /\ request = [method |-> "GET", path |-> "/other", body |-> <<>>]
  /\ response = None
  /\ uploaded = Rejected

-----------------------------------------------------------------------------
\* A response that carries bytes.
Success(bytes) == [status |-> 200, body |-> bytes]

\* textError(): a message with its status code.
TextError(code) == [status |-> code, body |-> Text]

\* Faulty variant: the endpoints answer whatever the algorithm returned, and
\* an exception is not turned into a 400.
PostUnguarded(path, body) ==
  CASE path = "/compress"   -> Success(AdaptiveCompress(body))
    [] path = "/decompress" -> Success(AdaptiveDecompress(body))
    [] OTHER                -> TextError(404)

\* The two endpoints; an exception of the algorithm is a 400.
Post(path, body) ==
  LET back == AdaptiveDecompress(body)
  IN  CASE path = "/compress"   -> Success(AdaptiveCompress(body))
        [] path = "/decompress" -> IF back = Rejected THEN TextError(400) ELSE Success(back)
        [] OTHER                -> TextError(404)

Handle(r) ==
  IF r.method = "OPTIONS" THEN [status |-> 204, body |-> <<>>]
  ELSE IF r.method = "GET" /\ r.path = "/health" THEN [status |-> 200, body |-> Text]
  ELSE IF r.method # "POST" THEN TextError(405)
  ELSE Post(r.path, r.body)

Exchange(r) ==
  /\ request' = r
  /\ response' = Handle(r)

\* A first request, of any kind.
Send ==
  /\ response = None
  /\ \E m \in Method, p \in Path, b \in Body :
       Exchange([method |-> m, path |-> p, body |-> b])
  /\ uploaded' = Rejected

\* What /compress returned comes back to /decompress.
SendBack ==
  /\ request.method = "POST" /\ request.path = "/compress"
  /\ response.status = 200
  /\ Exchange([method |-> "POST", path |-> "/decompress", body |-> response.body])
  /\ uploaded' = request.body

Next == Send \/ SendBack

Spec == Init /\ [][Next]_vars

-----------------------------------------------------------------------------
(* Properties.                                                             *)

\* Bytes are only ever those of a file: every other response is a message or
\* empty, and /compress never refuses an upload.
TypeOK ==
  /\ request \in [method : Method, path : Path, body : Seq(Byte)]
  /\ response.status \in {0, 200, 204, 400, 404, 405}
  /\ response.body # Rejected
  /\ uploaded # Rejected => uploaded \in Seq(Byte)

\* What /compress gave for a file, /decompress turns back into that file,
\* whichever of the two algorithms the tag names.
RoundTripThroughApi ==
  uploaded # Rejected => response = Success(uploaded)

\* Among all the streams /decompress accepts for a file, the one /compress
\* makes is a shortest: no run is wasted and the choice of algorithm is right.
NoShorterStream ==
  request.method = "POST" /\ request.path = "/decompress" /\ response.status = 200
    => Len(AdaptiveCompress(response.body)) <= Len(request.body)

\* A compressed file exceeds the file by its tag byte at most, and what is
\* empty stays empty.
OneByteOverhead ==
  request.method = "POST" /\ request.path = "/compress" /\ response.status = 200
    => /\ Len(response.body) <= Len(request.body) + 1
       /\ response.body = <<>> <=> request.body = <<>>

\* The inductive invariant.  A response is what handle() makes of the request
\* beside it, and a file that has been uploaded is asked back for.
ApiInv ==
  /\ TypeOK
  /\ \/ response = None /\ request.method = "GET"
     \/ response = Handle(request)
  /\ uploaded # Rejected =>
       request = [method |-> "POST", path |-> "/decompress", body |-> AdaptiveCompress(uploaded)]
=============================================================================
