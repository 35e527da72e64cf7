---------------------------- MODULE HttpSession ----------------------------
(***************************************************************************)
(* One connection of the HTTP server: a client sends requests, TCP         *)
(* delivers them in pieces of its own choice, and each read event runs     *)
(* Connection::Read, HttpServer::HandleMessage and the response callback   *)
(* of test/http-server.cpp on the thread of the loop.  The context and the *)
(* read buffer are kept from one request to the next.                      *)
(***************************************************************************)
EXTENDS Integers, Sequences, SequencesExt

CONSTANTS Words,         \* the words of what a client writes
          Requests,      \* requests a client may send
          MaxRequests,   \* bound of the requests on the connection
          LongWords,     \* words of eight characters or more
          Pieces,        \* may a read return part of what was sent?
          kPrePendIndex, kInitalSize, AnyByte,
          UpperWords, DigitWords, LengthWords

ASSUME PiecesAssumption == Pieces \in BOOLEAN /\ MaxRequests \in Nat
ASSUME BufferAssumption ==
  kPrePendIndex \in Nat /\ kInitalSize \in Nat /\ kPrePendIndex <= kInitalSize

VARIABLES
  sent,          \* requests of the client, in order
  wire,          \* characters sent and not read
  read_buffer_,
  context,       \* http_context_
  state_,        \* "Connected" or "Disconnected"
  answers,       \* responses sent, in order
  ended          \* the process ended by an exception

vars == <<sent, wire, read_buffer_, context, state_, answers, ended>>

H == INSTANCE HttpContext
B == INSTANCE Buffer

(* A request is what a client writes: the parts of its request line, its   *)
(* headers as pairs of words, its body.  Clients write a blank after ':'.  *)
Params(r) ==
  FlattenSeq([i \in DOMAIN r.params |->
    <<IF i = 1 THEN "?" ELSE "&", r.params[i][1], "=", r.params[i][2]>>])
HeaderText(r) ==
  FlattenSeq([i \in DOMAIN r.headers |->
    <<r.headers[i][1], ":", " ", r.headers[i][2], "CR", "LF">>])
HeadText(r) ==
  <<r.method, " ">> \o r.url \o Params(r) \o <<" ", "HTTP", "/", r.version, "CR", "LF">>
    \o HeaderText(r) \o <<"CR", "LF">>
Format(r) == HeadText(r) \o r.body

(* The parts of a request and the marks between them are words, and the    *)
(* head ends with its first empty line; a body may hold any words, also    *)
(* empty lines or a whole request.                                         *)
EmptyLineAt(text, j) ==
  /\ j >= 1 /\ j + 3 <= Len(text)
  /\ text[j] = "CR" /\ text[j + 1] = "LF"
  /\ text[j + 2] = "CR" /\ text[j + 3] = "LF"
ASSUME WordsAssumption == {" ", "?", "&", "=", ":", "/", "HTTP", "CR", "LF"} \subseteq Words
ASSUME RequestsAssumption ==
  \A r \in Requests :
    /\ r.method \in Words /\ r.version \in Words
    /\ r.url \in Seq(Words) /\ r.body \in Seq(Words)
    /\ r.params \in Seq(Words \X Words) /\ r.headers \in Seq(Words \X Words)
    /\ \A j \in 1 .. Len(HeadText(r)) :
         EmptyLineAt(HeadText(r), j) => j + 3 = Len(HeadText(r))

(* A URL starts with a slash and has no blank and no question mark, which  *)
(* clients encode, and a form names each of its fields once.               *)
ASSUME NamesAssumption ==
  /\ UpperWords \cap H!White = {}
  /\ \A r \in Requests :
       /\ r.method \notin H!White
       /\ r.url # <<>> /\ r.url[1] = "/"
       /\ \A i \in DOMAIN r.url : r.url[i] \notin {" ", "?"}
       /\ \A i, j \in DOMAIN r.params : r.params[i][1] = r.params[j][1] => i = j

Init ==
  /\ sent = <<>> /\ wire = <<>>
  /\ read_buffer_ = B!NewBuffer
  /\ context = H!NewContext
  /\ state_ = "Connected"
  /\ answers = <<>>
  /\ ended = FALSE

(* The client sends a request once the one before it is read and answered. *)
ClientSends(r) ==
  /\ state_ = "Connected" /\ ~ended
  /\ Len(sent) < MaxRequests
  /\ Len(answers) >= Len(sent) /\ wire = <<>>
  /\ sent' = Append(sent, r)
  /\ wire' = Format(r)
  /\ UNCHANGED <<read_buffer_, context, state_, answers, ended>>

-----------------------------------------------------------------------------
(* The callback of test/http-server.cpp: the status it sets and whether it *)
(* closes.  It throws when it takes the password out of a body of less     *)
(* than eight characters.                                                  *)
kUnknown == 0
Pages == {<<"/">>, <<"/", "mhw">>, <<"/", "cat.jpg">>}
HttpResponseCallBack(request) ==
  CASE request.method = <<"GET">> /\ request.url \in Pages -> [status |-> 200, close |-> FALSE]
    [] request.method = <<"GET">> /\ request.url \notin Pages -> [status |-> 404, close |-> TRUE]
    [] OTHER -> [status |-> IF request.method = <<"POST">> /\ request.url = <<"/", "login">>
                            THEN 200 ELSE kUnknown,
                 close |-> FALSE]
Throws(request) ==
  /\ request.method = <<"POST">> /\ request.url = <<"/", "login">>
  /\ \A i \in DOMAIN request.body : request.body[i] \notin LongWords

(* The value of a header as HandleRequest compares it: all the text after  *)
(* ':', blanks included.                                                   *)
GetHeaderValue(request, field) ==
  IF field \in DOMAIN request.headers THEN request.headers[field] ELSE <<>>

Answer(request) ==
  LET connection_state == GetHeaderValue(request, <<"Connection">>)
      close == \/ connection_state = <<"close">>
               \/ request.version = <<"1.0">> /\ connection_state # <<"keep-alive">>
      response == HttpResponseCallBack(request)
  IN  [status |-> response.status, close |-> close \/ response.close, request |-> request]

BadRequest == [status |-> 400, close |-> TRUE, request |-> H!NewRequest]

(* ParaseRequest with the context it leaves.                               *)
Parsed(x, data) == H!ParaseRequest(x, data)

(* Mutant of HandleMessage: a request that cannot be parsed is dropped.    *)
HandleMessageSilent(data) ==
  LET x == Parsed(context, data)
  IN  IF ~H!IsCompleteRequest(x)
      THEN /\ state_' = "Disconnected" /\ context' = x
           /\ UNCHANGED <<answers, ended>>
      ELSE /\ answers' = Append(answers, Answer(x.request))
           /\ state_' = IF Answer(x.request).close THEN "Disconnected" ELSE state_
           /\ context' = H!ResetContextStatus(x)
           /\ UNCHANGED ended

(* Mutant of HandleMessage: 400 does not close.                            *)
HandleMessageOpen(data) ==
  LET x == Parsed(context, data)
  IN  IF ~H!IsCompleteRequest(x)
      THEN /\ answers' = Append(answers, BadRequest)
           /\ context' = H!NewContext
           /\ UNCHANGED <<state_, ended>>
      ELSE /\ answers' = Append(answers, Answer(x.request))
           /\ state_' = IF Answer(x.request).close THEN "Disconnected" ELSE state_
           /\ context' = H!ResetContextStatus(x)
           /\ UNCHANGED ended

(* The answer to what was parsed: 400 and the end of the connection, or    *)
(* what the callback makes of the request, and the state reset.            *)
HandleMessage(data) ==
  LET x == Parsed(context, data)
  IN  IF ~H!IsCompleteRequest(x)
      THEN /\ answers' = Append(answers, BadRequest)
           /\ state_' = "Disconnected"
           /\ context' = x
           /\ UNCHANGED ended
      ELSE IF Throws(x.request)
      THEN ended' = TRUE /\ context' = x /\ UNCHANGED <<answers, state_>>
      ELSE /\ answers' = Append(answers, Answer(x.request))
           /\ state_' = IF Answer(x.request).close THEN "Disconnected" ELSE state_
           /\ context' = H!ResetContextStatus(x)
           /\ UNCHANGED ended

(* A read event: Read empties the buffer and appends what one read()       *)
(* returns, then HandleMessage parses all of the buffer.                   *)
Read(n) ==
  /\ state_ = "Connected" /\ ~ended
  /\ wire' = SubSeq(wire, n + 1, Len(wire)) /\ UNCHANGED sent
  /\ LET data == SubSeq(wire, 1, n)
         buffer == B!AppendBytes(B!RetrieveAll(read_buffer_), data)
     IN  /\ read_buffer_' = buffer
         /\ HandleMessage(B!PeekAllAsString(buffer))

ReadEvent ==
  /\ wire # <<>>
  /\ \E n \in 1 .. Len(wire) : (Pieces \/ n = Len(wire)) /\ Read(n)

Next == ReadEvent \/ \E r \in Requests : ClientSends(r)

(* What arrived is read; the client may stop sending.                      *)
Spec == Init /\ [][Next]_vars /\ WF_vars(ReadEvent)

-----------------------------------------------------------------------------
(* Types; the connection is open as long as no answer closed it.           *)
TypeOK ==
  /\ sent \in Seq(Requests) /\ Len(sent) <= Len(answers) + 1
  /\ read_buffer_.read_index_ = kPrePendIndex
  /\ read_buffer_.write_index_ \in kPrePendIndex .. Len(read_buffer_.buffer_)
  /\ state_ = "Disconnected" <=> answers # <<>> /\ Last(answers).close
  /\ context.state = "START" \/ state_ = "Disconnected" \/ ended
  /\ ended \in BOOLEAN

(* Is all that is left of a request some of its body?                      *)
InBody == Len(wire) <= Len(Last(sent).body)

(* Whatever the connection carried before, the answer to the first read of *)
(* a request is about that request: its method, its URL and its parameters *)
(* (HttpServer.cpp:85, with one request object for all of them).           *)
IsAbout(request, r) ==
  /\ request.method = <<r.method>>
  /\ request.url = r.url
  /\ \A i \in 1 .. Len(r.params) :
       LET key == <<r.params[i][1]>>
       IN  key \in DOMAIN request.params /\ request.params[key] = <<r.params[i][2]>>
AnswersOwnRequest ==
  [][answers' # answers /\ Last(answers').status # 400 /\ ~InBody
       => IsAbout(Last(answers').request, Last(sent))]_vars

(* A request is carried out only when all of its head was in the read that *)
(* completes it, however TCP cut the stream.  The one other data carried   *)
(* out is the rest of a body with an empty line in it: HttpContext.cpp:252 *)
(* takes what the read returned as all of the body, and what comes later   *)
(* is parsed as a request.                                                 *)
AnswersWholeHeads ==
  [][answers' # answers /\ Last(answers').status # 400
       => LET data == B!PeekAllAsString(read_buffer_')
          IN  \/ IsPrefix(HeadText(Last(sent)), data)
              \/ InBody /\ \E j \in 1 .. Len(data) : EmptyLineAt(data, j)]_vars

(* What the parser sees is what arrived, in order, whatever the buffer     *)
(* held and however large it had grown before.                             *)
BufferHoldsData ==
  [][wire' # wire /\ sent' = sent
       => B!PeekAllAsString(read_buffer_') \o wire' = wire]_vars

(* Every request is answered, if only by 400 and the end of the connection *)
(* (or the exception of the callback ends the process).                    *)
EveryRequestIsAnswered ==
  \A k \in 0 .. MaxRequests :
    wire # <<>> /\ ~InBody /\ state_ = "Connected" /\ Len(answers) = k
      ~> Len(answers) > k \/ ended

(* A request on a connection kept alive is answered as it would be on a    *)
(* new one (HttpServer.cpp:86 resets "the state of the request").          *)
AnsweredAsIfAlone ==
  \A k \in 1 .. Len(answers) :
    LET alone == Parsed(H!NewContext, Format(sent[k]))
    IN  answers[k].status =
          IF H!IsCompleteRequest(alone) THEN Answer(alone.request).status ELSE 400
=============================================================================
