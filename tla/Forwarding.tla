----------------------------- MODULE Forwarding -----------------------------
(***************************************************************************)
(* How one authorised request goes upstream (gateway/src/proxy.rs): the     *)
(* route chosen for it fixes the provider to connect to, the key sent there *)
(* and the model name its JSON body must carry.  The body was read to choose *)
(* the route and retained; the framework plays it through the filter, in as *)
(* many pieces as it likes, when the headers are already on their way.  It  *)
(* may lose a pooled connection and then repeats the request on another one, *)
(* with the same context.  The refresh thread meanwhile changes what would  *)
(* be chosen.  (JSON that is not an object ends the request, see Gateway;   *)
(* a body is taken to begin with no blanks.)                                *)
(***************************************************************************)
EXTENDS Integers, Sequences

CONSTANTS
    Routes,     \* each with its provider, whether the provider's base URL
                \* parses, and the provider's name of the model
    Names,      \* the names providers give their models
    Length,     \* the bytes of each
    Bodies,     \* each with the bytes of its chunks, whether they are JSON,
                \* and the bytes written again but for the model name
    MaxAttempts,    \* bound: connections tried for a request
    OpenAI, None

ASSUME ForwardingAssumption ==
    /\ \A route \in Routes : /\ route.parses \in BOOLEAN /\ route.model \in Names
                             /\ route.provider # None
    /\ Length \in [Names -> Nat] /\ None \notin Names
    /\ \A body \in Bodies : /\ body.chunks \in Seq(Nat) /\ body.chunks # <<>>
                            /\ body.json \in BOOLEAN /\ body.rest \in Nat
    /\ MaxAttempts \in Nat
    /\ OpenAI # None /\ None \notin Routes

VARIABLES
    current,    \* the route a request would be given now, or None
    request     \* the request under way, with its context, or None

forwardVars == <<current, request>>

ForwardInit == current = None /\ request = None

Refresh == current' \in Routes \cup {None} /\ UNCHANGED request

new_ctx == [upstream_model |-> None, provider_id |-> None, provider_key |-> None, upstream_host |-> None]

\* Only a URL that parses touches the host.
apply_route(ctx, route) ==
    [upstream_model |-> route.model, provider_id |-> route.provider, provider_key |-> route.provider,
     upstream_host |-> IF route.parses THEN route.provider ELSE ctx.upstream_host]

\* Up to the first of the two looks into the cache: the model of the body may
\* have a route or not.
request_filter(body) ==
    /\ request = None
    /\ \E ctx \in {new_ctx} \cup (IF current = None THEN {} ELSE {apply_route(new_ctx, current)}) :
          request' = [ctx       |-> ctx,
                      decided   |-> FALSE,          \* request_filter is done
                      body      |-> body,
                      left      |-> body.chunks,    \* not yet passed to the filter
                      body_buf  |-> <<>>,           \* all that was ever passed to it
                      rewritten |-> FALSE,          \* body_rewritten
                      attempt   |-> 0,
                      peer      |-> None,           \* where it is connected to
                      key       |-> None,           \* whose key was sent there
                      sent      |-> <<>>]           \* the pieces sent there
    /\ UNCHANGED current

\* Mutant: the first available route is taken if there is one.
first_route_always ==
    /\ request # None
    /\ ~request.decided
    /\ request' = [request EXCEPT !.decided = TRUE,
                                  !.ctx = IF current # None THEN apply_route(@, current) ELSE @]
    /\ UNCHANGED current

\* The second look, for the first available route if there was none; without
\* any the request is answered with 503.
first_route ==
    /\ request # None
    /\ ~request.decided
    /\ request' = [request EXCEPT !.decided = TRUE,
                                  !.ctx = IF @.provider_id = None /\ current # None
                                          THEN apply_route(@, current) ELSE @]
    /\ UNCHANGED current

upstream_peer == IF request.ctx.upstream_host = None THEN OpenAI ELSE request.ctx.upstream_host

\* Connecting, then sending the headers (upstream_request_filter).
Connect ==
    /\ request # None
    /\ request.decided /\ request.ctx.provider_id # None
    /\ request.peer = None
    /\ request.attempt < MaxAttempts
    /\ request' = [request EXCEPT !.peer = upstream_peer,
                                  !.key = request.ctx.provider_key,
                                  !.attempt = @ + 1]
    /\ UNCHANGED current

\* Mutant: no padding.
Unpadded(length, original) == length

Padded(length, original) == IF length < original THEN original ELSE length

\* What the first numbers of a sequence add up to.
PartialSums(lengths) ==
    LET upTo[n \in 0..Len(lengths)] == IF n = 0 THEN 0 ELSE upTo[n - 1] + lengths[n]
    IN  upTo

Total(lengths) == PartialSums(lengths)[Len(lengths)]

\* model is the name written into it, or None in a piece of the client's.
Piece(model, length) == [model |-> model, length |-> length]

\* A chunk passes.  The last one is replaced by the whole body rewritten,
\* unless that was done before or what has passed is not a JSON text, as when
\* some of the body was passed to the filter on an earlier connection.
request_body_filter ==
    /\ request # None
    /\ request.peer # None
    /\ request.left # <<>>
    /\ LET buf == Append(request.body_buf, Head(request.left))
           rewrite == /\ Len(request.left) = 1
                      /\ ~request.rewritten
                      /\ Total(buf) > 0
                      /\ request.ctx.upstream_model # None
                      /\ request.body.json /\ Total(buf) = Total(request.body.chunks)
           name == request.ctx.upstream_model
           piece == IF rewrite
                    THEN Piece(name, Padded(request.body.rest + Length[name], Total(buf)))
                    ELSE Piece(None, Head(request.left))
       IN  request' = [request EXCEPT !.body_buf = buf,
                                      !.left = Tail(@),
                                      !.rewritten = @ \/ rewrite,
                                      !.sent = Append(@, piece)]
    /\ UNCHANGED current

\* The connection is lost, at any point of the body, and the framework begins
\* again: it plays the client's body through the filter once more.
Reconnect ==
    /\ request # None
    /\ request.peer # None
    /\ request.attempt < MaxAttempts
    /\ request' = [request EXCEPT !.peer = None, !.key = None,
                                  !.left = request.body.chunks, !.sent = <<>>]
    /\ UNCHANGED current

\* The request ends, also before all is sent: somebody hangs up.
logging ==
    /\ request # None /\ request.decided
    /\ request' = None
    /\ UNCHANGED current

-----------------------------------------------------------------------------
\* "The route was decided there (so the upstream peer matches)": on every
\* connection, also a repeated one after the configuration has changed, host,
\* key and the model name written into the body are those of one route, though
\* the cache is read twice to find it and the context keeps them apart; only a
\* base URL that does not parse sends key and name to api.openai.com.
OneRoute ==
    request # None /\ request.peer # None =>
        \E route \in Routes :
            /\ request.key = route.provider
            /\ request.peer = IF route.parses THEN route.provider ELSE OpenAI
            /\ \A i \in DOMAIN request.sent : request.sent[i].model \in {route.model, None}

\* What should be sent: the whole body rewritten, of the client's length, and
\* no byte before it.
Whole(sent, body, name) ==
    /\ sent[Len(sent)] = Piece(name, Total(body.chunks))
    /\ \A i \in 1..(Len(sent) - 1) : sent[i].length = 0

Played == request # None /\ request.peer # None /\ request.left = <<>>

\* All bytes of the body are in its last chunk.
InOnePiece(body) == \A i \in 1..Len(body.chunks) : body.chunks[i] > 0 <=> i = Len(body.chunks)

\* Where the rewriting can be relied on (request_body_filter): a JSON body in
\* one piece that does not grow reaches the upstream with the route's model
\* name and in the announced length, on the first connection that the filter
\* is given any of it for, also if others were lost before.
RewritingWorks ==
    LET body == request.body
        name == request.ctx.upstream_model
    IN  /\ Played
        /\ body.json /\ InOnePiece(body)
        /\ body.rest + Length[name] <= Total(body.chunks)
        /\ Total(request.body_buf) = Total(body.chunks)
        => Whole(request.sent, body, name)
-----------------------------------------------------------------------------
\* A claim the repository makes and the code does not keep.

\* proxy.rs:336, "the body we read here is retained and replayed to the upstream
\* by the framework (and rewritten in request_body_filter)", and proxy.rs:426,
\* "Pad to original length so Content-Length stays valid": a JSON body reaches
\* the upstream rewritten and in the announced length.
RewrittenBodyArrives ==
    Played /\ request.body.json => Whole(request.sent, request.body, request.ctx.upstream_model)
=============================================================================
