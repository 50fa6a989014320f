-------------------------------- MODULE Gin ---------------------------------
(***************************************************************************)
(* xgin: middleware and a route are registered, then requests are served   *)
(* concurrently, each by the route's chain of handlers in a pooled         *)
(* Context.  A step is what a request does between two calls that a        *)
(* handler makes of its Context; which calls it makes is the handler's     *)
(* choice.  A request that is over may come again.                         *)
(***************************************************************************)
EXTENDS Integers, Sequences, FiniteSets, SequencesExt

CONSTANTS Request, Handler,
          Contexts,     \* the Contexts that sync.Pool may have or make
          Half,         \* Context.index is less, 128 in the code
          Code,         \* the codes that WriteHeader is called with
          MaxHandlers,  \* bound: handlers of the group or of a route
          MaxNexts,     \* bound: calls of Next that the handlers of a request make
          MaxCalls,     \* bound: other calls that they make of their Context
          Nil

ASSUME GinAssumption ==
  /\ Half \in Nat \ {0} /\ Code \subseteq Int
  /\ MaxHandlers \in Nat /\ MaxNexts \in Nat /\ MaxCalls \in Nat
  /\ Nil \notin Request \cup Contexts

VARIABLES
  phase,            \* "setup" until Run
  Handlers, route,  \* of the group; of the node for GET, Nil if there is none
  pool,             \* Contexts in engine.pool
  context,          \* of each Context: handlers, index, Keys and the writermem
  c,                \* the Context a request is served with
  rpc,              \* where the request is
  frames,           \* its handlers that are running, the innermost last
  ran,              \* history: the positions run so far
  nexts, calls,     \* history: the calls of Next, the other calls
  resp, asked,      \* the response as net/http has it, and the code it should have
  wrapped           \* history: its index has been out of range

setup == <<phase, Handlers, route>>
running == <<c, rpc, frames, ran, nexts, wrapped>>
answer == <<calls, resp, asked>>
gvars == <<setup, pool, context, running, answer>>

defaultStatus == 200
noWritten == -1

\* int8, with the values from -Half to Half - 1.
Wrap(i) == ((i + Half) % (2 * Half)) - Half

\* What has reached the client: the codes sent, whose bytes follow, whether the
\* connection is hijacked, whether the header counts as written although the
\* writer has sent none, and whether a code went to a hijacked connection.
NoResponse ==
  [codes |-> <<>>, body |-> <<>>, hijacked |-> FALSE, missed |-> FALSE, disorder |-> FALSE]

NewContext ==
  [handlers |-> Nil, index |-> 0, keys |-> {}, rw |-> Nil, size |-> 0, status |-> 0]

GinInit ==
  /\ phase = "setup" /\ Handlers = <<>> /\ route = Nil
  /\ pool = {} /\ context = [x \in Contexts |-> NewContext]
  /\ c = [q \in Request |-> Nil] /\ rpc = [q \in Request |-> "idle"]
  /\ frames = [q \in Request |-> <<>>] /\ ran = [q \in Request |-> <<>>]
  /\ nexts = [q \in Request |-> 0] /\ calls = [q \in Request |-> 0]
  /\ resp = [q \in Request |-> NoResponse] /\ asked = [q \in Request |-> defaultStatus]
  /\ wrapped = [q \in Request |-> FALSE]

(***************************************************************************)
(* Registration.                                                           *)
(***************************************************************************)
Some == UNION {[1 .. n -> Handler] : n \in 0 .. MaxHandlers}

Use(middleware) ==
  /\ phase = "setup" /\ Len(Handlers \o middleware) <= MaxHandlers /\ middleware # <<>>
  /\ Handlers' = Handlers \o middleware
  /\ UNCHANGED <<phase, route, pool, context, running, answer>>

combineHandlers(handlers) == Handlers \o handlers

\* The one node there is for the method takes the chain, whatever the path.
addRoute(handlers) == route' = handlers
getValue == route

GET(handlers) ==
  /\ phase = "setup" /\ Len(combineHandlers(handlers)) <= MaxHandlers
  /\ addRoute(combineHandlers(handlers))
  /\ UNCHANGED <<phase, Handlers, pool, context, running, answer>>

Run ==
  /\ phase = "setup" /\ phase' = "serving"
  /\ UNCHANGED <<Handlers, route, pool, context, running, answer>>

(***************************************************************************)
(* The response writer.  An operator returns the Context after the call,   *)
(* and what the client has by then.                                        *)
(***************************************************************************)
Written(x) == x.size # noWritten

WriteHeader(x, code) == IF code > 0 THEN [x EXCEPT !.status = code] ELSE x

\* net/http's WriteHeader panics with any other status.
ValidCode(code) == code \in 100 .. 999
HeaderFits(x) == Written(x) \/ ValidCode(x.status)
Missed(x, r) == IF Written(x) THEN r ELSE [r EXCEPT !.missed = TRUE]

\* The size is set before net/http is called, and stays when it panics.
WriteHeaderNow(x) == IF Written(x) THEN x ELSE [x EXCEPT !.size = 0]
Header(x, r) ==
  IF Written(x) THEN r
  ELSE IF ~ValidCode(x.status) THEN Missed(x, r)
  ELSE [r EXCEPT !.codes = Append(@, x.status), !.disorder = @ \/ r.hijacked]

\* net/http sends 200 before the first byte, or when it is flushed, if no code has been.
Implicit(r) ==
  IF r.codes = <<>> /\ ~r.hijacked THEN [r EXCEPT !.codes = <<defaultStatus>>] ELSE r

\* n of the bytes of Write or WriteString get through.
WriteBytes(x, n) == [WriteHeaderNow(x) EXCEPT !.size = @ + n]
Body(x, r, q, n) ==
  [Implicit(Header(x, r)) EXCEPT !.body = @ \o [i \in 1 .. n |-> q]]

\* A bug: a hijacked connection does not count as written.
Hijacked_Not(x) == x
\* As Hijack leaves the Context, whether net/http lets the connection go or not.
Hijacked(x) == IF x.size < 0 THEN [x EXCEPT !.size = 0] ELSE x

(***************************************************************************)
(* ServeHTTP.                                                              *)
(***************************************************************************)
\* A bug: what an earlier request has stored is still there.
Reset_KeepsKeys(x) == [x EXCEPT !.handlers = Nil, !.index = -1]
\* A bug: the index is where an earlier request left it.
Reset_KeepsIndex(x) == [x EXCEPT !.handlers = Nil, !.keys = {}]
Reset(x) == [x EXCEPT !.handlers = Nil, !.index = -1, !.keys = {}]

WriterReset(x, q) == [x EXCEPT !.rw = q, !.size = noWritten, !.status = defaultStatus]

\* A bug: the Context goes back to the pool before the request is handled.
AfterGet_Back(x) == pool \cup {x}
AfterGet(x) == pool \ {x}

\* engine.pool.Get takes any Context of the pool or makes one; c.writermem.reset, c.reset.
ServeHTTP(q) ==
  /\ phase = "serving" /\ rpc[q] = "idle"
  /\ \E x \in Contexts \ {c[p] : p \in Request} :
       /\ c' = [c EXCEPT ![q] = x]
       /\ pool' = AfterGet(x)
       /\ context' = [context EXCEPT
            ![x] = Reset(WriterReset(IF x \in pool THEN @ ELSE NewContext, q))]
  /\ rpc' = [rpc EXCEPT ![q] = "lookup"]
  /\ UNCHANGED <<setup, frames, ran, nexts, wrapped, answer>>

\* The pool may lose a Context at any time.
PoolDrops ==
  /\ \E x \in pool : pool' = pool \ {x}
  /\ UNCHANGED <<setup, context, running, answer>>

\* The innermost handler is in Next no more.
Resumed(fs) ==
  IF fs = <<>> THEN fs ELSE [fs EXCEPT ![Len(fs)].next = "called"]

\* c.index++ and the condition of the loop in Next, which fs have called; then
\* the next handler is called, or Next returns.
Advance(q, x, fs) ==
  LET i == Wrap(x.index + 1) IN
  /\ context' = [context EXCEPT ![c[q]] = [x EXCEPT !.index = i]]
  /\ IF i >= Wrap(Len(x.handlers))
     THEN /\ frames' = [frames EXCEPT ![q] = Resumed(fs)]
          /\ rpc' = [rpc EXCEPT ![q] = IF fs = <<>> THEN "header" ELSE "handler"]
          /\ UNCHANGED <<ran, wrapped>>
     ELSE IF i < 0
     THEN /\ rpc' = [rpc EXCEPT ![q] = "panic"]
          /\ frames' = [frames EXCEPT ![q] = fs]
          /\ wrapped' = [wrapped EXCEPT ![q] = TRUE] /\ UNCHANGED ran
     ELSE /\ frames' = [frames EXCEPT ![q] = Append(fs, [pos |-> i, next |-> "no"])]
          /\ ran' = [ran EXCEPT ![q] = Append(@, i)]
          /\ rpc' = [rpc EXCEPT ![q] = "handler"]
          /\ UNCHANGED wrapped

\* handleHTTPRequest of a GET: the tree is there and its chain is not nil.
Found(q) ==
  /\ rpc[q] = "lookup" /\ getValue # Nil
  /\ Advance(q, [context[c[q]] EXCEPT !.handlers = getValue], <<>>)
  /\ UNCHANGED <<setup, pool, c, nexts, answer>>

\* There is no tree for the method.
NotFound(q) ==
  /\ rpc[q] = "lookup" /\ rpc' = [rpc EXCEPT ![q] = "put"]
  /\ UNCHANGED <<setup, pool, context, c, frames, ran, nexts, wrapped, answer>>

\* c.writermem.WriteHeaderNow(), which panics if net/http refuses the status.
LastHeader(q) ==
  LET x == context[c[q]] IN
  /\ rpc[q] = "header"
  /\ rpc' = [rpc EXCEPT ![q] = IF HeaderFits(x) THEN "put" ELSE "panic"]
  /\ context' = [context EXCEPT ![c[q]] = WriteHeaderNow(x)]
  /\ resp' = [resp EXCEPT ![x.rw] = Header(x, @)]
  /\ UNCHANGED <<setup, pool, c, frames, ran, nexts, wrapped, calls, asked>>

\* The request is over; p says whether the pool gets its Context.
Over(q, p) ==
  /\ c' = [c EXCEPT ![q] = Nil] /\ rpc' = [rpc EXCEPT ![q] = "idle"]
  /\ pool' = IF p THEN pool \cup {c[q]} ELSE pool
  /\ frames' = [frames EXCEPT ![q] = <<>>] /\ ran' = [ran EXCEPT ![q] = <<>>]
  /\ nexts' = [nexts EXCEPT ![q] = 0] /\ calls' = [calls EXCEPT ![q] = 0]
  /\ resp' = [resp EXCEPT ![q] = NoResponse]
  /\ asked' = [asked EXCEPT ![q] = defaultStatus]
  /\ wrapped' = [wrapped EXCEPT ![q] = FALSE]
  /\ UNCHANGED <<setup, context>>

Put(q) == rpc[q] = "put" /\ Over(q, TRUE)

(***************************************************************************)
(* The handlers.                                                           *)
(***************************************************************************)
InHandler(q) == rpc[q] = "handler"
Top(q) == Last(frames[q])

CallNext(q) ==
  /\ InHandler(q) /\ nexts[q] < MaxNexts
  /\ nexts' = [nexts EXCEPT ![q] = @ + 1]
  /\ Advance(q, context[c[q]], [frames[q] EXCEPT ![Len(frames[q])].next = "in"])
  /\ UNCHANGED <<setup, pool, c, answer>>

HandlerReturns(q) ==
  /\ InHandler(q)
  /\ LET fs == Front(frames[q]) IN Advance(q, context[c[q]], fs)
  /\ UNCHANGED <<setup, pool, c, nexts, answer>>

HandlerPanics(q) ==
  /\ InHandler(q) /\ rpc' = [rpc EXCEPT ![q] = "panic"]
  /\ UNCHANGED <<setup, pool, context, c, frames, ran, nexts, wrapped, answer>>

\* A deferred function of a handler that is in Next recovers; net/http does if
\* none has, and ServeHTTP has not come to Put then.
Recovers(q) ==
  /\ rpc[q] = "panic" /\ rpc' = [rpc EXCEPT ![q] = "handler"]
  /\ \E k \in DOMAIN frames[q] :
       /\ frames[q][k].next = "in"
       /\ frames' = [frames EXCEPT ![q] = [SubSeq(@, 1, k) EXCEPT ![k].next = "cut"]]
  /\ UNCHANGED <<setup, pool, context, c, ran, nexts, wrapped, answer>>

Dies(q) == rpc[q] = "panic" /\ Over(q, FALSE)

\* One more call of the Context, which changes it to x and the response to r and
\* leaves the request at l.
Calls(q, x, r, l) ==
  /\ InHandler(q) /\ calls[q] < MaxCalls
  /\ calls' = [calls EXCEPT ![q] = @ + 1]
  /\ context' = [context EXCEPT ![c[q]] = x]
  /\ resp' = [resp EXCEPT ![x.rw] = r]
  /\ rpc' = [rpc EXCEPT ![q] = l]
  /\ UNCHANGED <<setup, pool, c, frames, ran, nexts, wrapped>>

\* After a call that returns an error or panics, the handler goes on, with a
\* recovery of its own if need be, or it panics.
Failed == {"handler", "panic"}

Mine(q) == context[c[q]]
Client(q) == resp[Mine(q).rw]

Set(q) ==
  /\ Calls(q, [Mine(q) EXCEPT !.keys = @ \cup {q}], Client(q), "handler")
  /\ UNCHANGED asked

SetCode(q) ==
  \E code \in Code :
    /\ Calls(q, WriteHeader(Mine(q), code), Client(q), "handler")
    /\ asked' = [asked EXCEPT ![q] = IF code > 0 /\ resp[q] = NoResponse THEN code ELSE @]

\* WriteHeaderNow, by itself or as far as Write, WriteString or Flush comes: net/http
\* refuses the status, or is no Flusher.
ForceHeader(q) ==
  /\ \E l \in Failed : Calls(q, WriteHeaderNow(Mine(q)), Header(Mine(q), Client(q)), l)
  /\ UNCHANGED asked

\* net/http takes the byte or fails, as it does when the connection is hijacked.
Write(q) ==
  /\ InHandler(q) /\ HeaderFits(Mine(q))
  /\ \E n \in IF Client(q).hijacked THEN {0} ELSE {0, 1} :
       Calls(q, WriteBytes(Mine(q), n), Body(Mine(q), Client(q), q, n), "handler")
  /\ UNCHANGED asked

Flush(q) ==
  /\ InHandler(q) /\ HeaderFits(Mine(q))
  /\ Calls(q, WriteHeaderNow(Mine(q)), Implicit(Header(Mine(q), Client(q))), "handler")
  /\ UNCHANGED asked

\* net/http hands the connection over, returns an error, or is no Hijacker.
Hijack(q) ==
  /\ \/ Calls(q, Hijacked(Mine(q)), [Client(q) EXCEPT !.hijacked = TRUE], "handler")
     \/ \E l \in Failed : Calls(q, Hijacked(Mine(q)), Missed(Mine(q), Client(q)), l)
  /\ UNCHANGED asked

Handle(q) ==
  \/ CallNext(q) \/ HandlerReturns(q) \/ HandlerPanics(q)
  \/ Set(q) \/ SetCode(q)
  \/ ForceHeader(q) \/ Write(q) \/ Flush(q) \/ Hijack(q)

GinNext ==
  \/ \E hs \in Some : Use(hs) \/ GET(hs)
  \/ Run \/ PoolDrops
  \/ \E q \in Request :
       \/ ServeHTTP(q) \/ Found(q) \/ NotFound(q) \/ LastHeader(q) \/ Put(q)
       \/ Handle(q) \/ Recovers(q) \/ Dies(q)

GinSpec == GinInit /\ [][GinNext]_gvars

-----------------------------------------------------------------------------
(***************************************************************************)
(* Properties.                                                             *)
(***************************************************************************)
Context == [handlers : Some \cup {Nil}, index : Int, keys : SUBSET Request,
            rw : Request \cup {Nil}, size : Int, status : Int]
Frame == [pos : Nat, next : {"no", "in", "called", "cut"}]
Response ==
  [codes : Seq(Int), body : Seq(Request),
   hijacked : BOOLEAN, missed : BOOLEAN, disorder : BOOLEAN]

GinTypeOK ==
  /\ phase \in {"setup", "serving"} /\ Handlers \in Some /\ route \in Some \cup {Nil}
  /\ pool \subseteq Contexts /\ context \in [Contexts -> Context]
  /\ c \in [Request -> Contexts \cup {Nil}]
  /\ rpc \in [Request -> {"idle", "lookup", "handler", "panic", "header", "put"}]
  /\ \A q \in Request : rpc[q] = "idle" <=> c[q] = Nil
  /\ frames \in [Request -> Seq(Frame)] /\ ran \in [Request -> Seq(Nat)]
  /\ nexts \in [Request -> Nat] /\ calls \in [Request -> Nat]
  /\ asked \in [Request -> Int] /\ resp \in [Request -> Response]
  /\ wrapped \in [Request -> BOOLEAN]

\* A Context serves one request, which its response writer answers, or is in the pool.
Owners ==
  /\ \A p, q \in Request : p # q /\ c[p] # Nil => c[p] # c[q]
  /\ \A q \in Request :
       /\ c[q] \notin pool
       /\ c[q] # Nil => Mine(q).rw = q /\ phase = "serving"

\* While handlers are left the index is at the last one that was called; from then
\* on each return of a running handler moves it one further.  A call of Next moves
\* it by one more than the handlers that the call runs.
IndexAt(q) ==
  LET n == Len(route)
      i == Mine(q).index
  IN  /\ \/ i < n /\ Len(ran[q]) = i + 1
         \/ i >= n /\ Len(ran[q]) = n
      /\ i + Len(frames[q]) <= nexts[q] + Len(ran[q])

\* All running handlers but the innermost are in Next.
Nested(q) ==
  \A k \in DOMAIN frames[q] :
    /\ frames[q][k].pos < Len(ran[q])
    /\ k < Len(frames[q]) => frames[q][k].next = "in"

Chain(q) ==
  /\ rpc[q] \in {"idle", "lookup"} => ran[q] = <<>> /\ nexts[q] = 0
  /\ rpc[q] \notin {"handler", "panic"} => frames[q] = <<>>
  /\ rpc[q] = "lookup" => Mine(q).index = -1
  /\ rpc[q] = "handler" => frames[q] # <<>>
  /\ rpc[q] \in {"handler", "panic", "header"} =>
       /\ route # Nil /\ Mine(q).handlers = route
       /\ Len(frames[q]) <= Len(ran[q])
       /\ IndexAt(q) /\ Nested(q)
  /\ rpc[q] = "header" => Len(ran[q]) = Len(route)

\* The handlers of the chain and the calls of Next they have made are together
\* at most as many as the index has positive values.
InRange(q) == route # Nil => Len(route) + nexts[q] < Half

\* A Context serves one request or is in the pool, and the index of a request never
\* leads it out of its chain while it is in range.
GinInv ==
  /\ GinTypeOK /\ Owners
  /\ \A q \in Request : InRange(q) => ~wrapped[q] /\ Chain(q)

\* The handlers of a chain run in its order and each once, the ones around another
\* around it, and all of them have run when the request has been answered and when
\* a Next has returned, also after a panic that an outer handler has recovered from,
\* and however often a handler calls Next as long as the index is in range.
InOrder ==
  \A q \in Request : InRange(q) =>
    /\ ran[q] = [k \in 1 .. Len(ran[q]) |-> k - 1]
    /\ \A k \in DOMAIN frames[q] : k > 1 => frames[q][k - 1].pos < frames[q][k].pos
    /\ rpc[q] = "header" => Len(ran[q]) = Len(route)
    /\ \A k \in DOMAIN frames[q] : frames[q][k].next = "called" => Len(ran[q]) = Len(route)

\* A request finds in its Context nothing that another request has stored, and
\* what it writes goes to its own client.
OwnData ==
  \A q \in Request :
    /\ c[q] # Nil => Mine(q).keys \subseteq {q}
    /\ ToSet(resp[q].body) \subseteq {q}

\* The client gets one status code at most, and none once the connection is hijacked;
\* it is the last one asked for by then, or 200 if the header counts as written by a
\* Hijack that failed or a status that net/http refused.  Every other request that was
\* handled has its code, and Size() is the number of bytes that got through.
ResponseRight ==
  \A q \in Request :
    /\ Len(resp[q].codes) <= 1
    /\ resp[q].codes # <<>> =>
         resp[q].codes = <<IF resp[q].missed THEN defaultStatus ELSE asked[q]>>
    /\ ~resp[q].disorder
    /\ rpc[q] = "put" /\ Mine(q).handlers # Nil =>
         /\ resp[q].codes # <<>> \/ resp[q].hijacked \/ resp[q].missed
         /\ Mine(q).size = Len(resp[q].body)

\* README.md of xgin, on Next: a route may have as many handlers as the index
\* has positive values.
LimitSuffices ==
  route # Nil /\ Len(route) <= Half - 1 => \A q \in Request : ~wrapped[q]
=============================================================================
