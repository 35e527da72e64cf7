---------------------------- MODULE HttpContext ----------------------------
(***************************************************************************)
(* The parser of HTTP requests (src/http/HttpContext.cpp), a machine that  *)
(* moves one character at a time.  A character here stands for a run of    *)
(* characters the machine treats alike: a word.  Of the pointers start and *)
(* colon of the code, word is the text from start on, and colon the place  *)
(* of the separator in it.                                                 *)
(***************************************************************************)
EXTENDS Naturals, Sequences, Functions

CONSTANTS UpperWords,  \* words of upper-case letters: methods, protocols
          DigitWords,  \* numbers and versions
          LengthWords  \* those that are numbers greater than 0

White == {" ", "CR", "LF"}
None == <<>>

NewRequest ==
  [method |-> None, url |-> None, params |-> [k \in {} |-> None],
   version |-> None, headers |-> [k \in {} |-> None], body |-> None]

NewContext == [state |-> "START", request |-> NewRequest, word |-> None, colon |-> 1]

Invalid == {"kINVALID", "kINVALID_METHOD", "kINVALID_URL"}
Final == {"kINVALID", "COMPLETE"}

(* A map with one entry set.                                               *)
Set(map, key, value) ==
  [k \in DOMAIN map \cup {key} |-> IF k = key THEN value ELSE map[k]]

(* What follows the empty line: Content-Length decides, if there is such a *)
(* header, and otherwise whether any data is left.                         *)
AfterHeaders(request, more) ==
  LET lengthKey == <<"Content-Length">>
  IN  IF lengthKey \in DOMAIN request.headers
      THEN IF Range(request.headers[lengthKey]) \cap LengthWords # {}
           THEN "BODY" ELSE "COMPLETE"
      ELSE IF more THEN "BODY" ELSE "COMPLETE"

(* The state after character c in state s of the request line.             *)
RequestLine(s, c) ==
  CASE s = "START" ->
         IF c \in White THEN s ELSE IF c \in UpperWords THEN "METHOD" ELSE "kINVALID"
    [] s = "METHOD" ->
         IF c \in UpperWords THEN s ELSE IF c = " " THEN "BEFORE_URL" ELSE "kINVALID_METHOD"
    [] s = "BEFORE_URL" ->
         IF c = "/" THEN "IN_URL" ELSE IF c = " " THEN s ELSE "kINVALID_URL"
    [] s = "IN_URL" ->
         IF c = "?" THEN "BEFORE_URL_PARAM_KEY" ELSE IF c = " " THEN "BEFORE_PROTOCOL" ELSE s
    [] s = "BEFORE_URL_PARAM_KEY" -> IF c \in White THEN "kINVALID" ELSE "URL_PARAM_KEY"
    [] s = "URL_PARAM_KEY" ->
         IF c = "=" THEN "BEFORE_URL_PARAM_VALUE" ELSE IF c = " " THEN "kINVALID" ELSE s
    [] s = "BEFORE_URL_PARAM_VALUE" -> IF c \in White THEN "kINVALID" ELSE "URL_PARAM_VALUE"
    [] s = "URL_PARAM_VALUE" ->
         IF c = "&" THEN "BEFORE_URL_PARAM_KEY" ELSE IF c = " " THEN "BEFORE_PROTOCOL" ELSE s
    [] s = "BEFORE_PROTOCOL" -> IF c = " " THEN s ELSE "PROTOCOL"
    [] s = "PROTOCOL" -> IF c = "/" THEN "BEFORE_VERSION" ELSE s
    [] s = "BEFORE_VERSION" -> IF c \in DigitWords THEN "VERSION" ELSE "kINVALID"
    [] s = "VERSION" ->
         IF c \in DigitWords THEN s ELSE IF c = "CR" THEN "WHEN_CR" ELSE "kINVALID"

(* Mutant of HeaderLines: the empty line ends the head at its CR.          *)
HeaderLinesBareCR(s, c, request, more) ==
  CASE s = "WHEN_CR" -> IF c = "LF" THEN "CR_LF" ELSE "kINVALID"
    [] s = "CR_LF" -> IF c = "CR" THEN AfterHeaders(request, more)
                      ELSE IF c = " " THEN "kINVALID" ELSE "HEADER_KEY"
    [] s = "HEADER_KEY" -> IF c = ":" THEN "HEADER_VALUE" ELSE s
    [] s = "HEADER_VALUE" -> IF c = "CR" THEN "WHEN_CR" ELSE s
    [] s = "BODY" -> "COMPLETE"
    [] OTHER -> "kINVALID"

(* The same after the request line; an invalid part is invalid in the end. *)
HeaderLines(s, c, request, more) ==
  CASE s = "WHEN_CR" -> IF c = "LF" THEN "CR_LF" ELSE "kINVALID"
    [] s = "CR_LF" -> IF c = "CR" THEN "CR_LF_CR" ELSE IF c = " " THEN "kINVALID" ELSE "HEADER_KEY"
    [] s = "HEADER_KEY" -> IF c = ":" THEN "HEADER_VALUE" ELSE s
    [] s = "HEADER_VALUE" -> IF c = "CR" THEN "WHEN_CR" ELSE s
    [] s = "CR_LF_CR" -> IF c = "LF" THEN AfterHeaders(request, more) ELSE "kINVALID"
    [] s = "BODY" -> "COMPLETE"
    [] OTHER -> "kINVALID"

InRequestLine ==
  {"START", "METHOD", "BEFORE_URL", "IN_URL", "BEFORE_URL_PARAM_KEY", "URL_PARAM_KEY",
   "BEFORE_URL_PARAM_VALUE", "URL_PARAM_VALUE", "BEFORE_PROTOCOL", "PROTOCOL",
   "BEFORE_VERSION", "VERSION"}

(* What the end of a part, in state s, stores in the request.              *)
Store(x, s, rest) ==
  LET r == x.request
      key == SubSeq(x.word, 1, x.colon - 1)
      value == SubSeq(x.word, x.colon + 1, Len(x.word))
  IN  CASE s = "METHOD" -> [r EXCEPT !.method = x.word]
        [] s = "IN_URL" -> [r EXCEPT !.url = x.word]
        [] s = "URL_PARAM_VALUE" -> [r EXCEPT !.params = Set(@, key, value)]
        [] s = "VERSION" -> [r EXCEPT !.version = x.word]
        [] s = "HEADER_VALUE" -> [r EXCEPT !.headers = Set(@, key, value)]
        [] s = "BODY" -> [r EXCEPT !.body = rest]
        [] OTHER -> r

(* Moves that end a part: start moves behind the character.                *)
EndsPart(s, t) ==
  \/ s # t /\ s \in {"METHOD", "IN_URL", "URL_PARAM_VALUE", "PROTOCOL", "VERSION",
                     "WHEN_CR", "HEADER_VALUE", "CR_LF_CR", "BODY"}
           /\ t \notin Invalid

(* One turn of the loop: rest is the input from the character on.          *)
Step(x, rest) ==
  LET c == Head(rest)
      t == IF x.state \in InRequestLine THEN RequestLine(x.state, c)
           ELSE HeaderLines(x.state, c, x.request, Len(rest) > 1)
  IN  IF EndsPart(x.state, t)
      THEN [state |-> t, request |-> Store(x, x.state, rest), word |-> None, colon |-> x.colon]
      ELSE [state |-> t, request |-> x.request, word |-> Append(x.word, c),
            colon |-> IF t \in {"BEFORE_URL_PARAM_VALUE", "HEADER_VALUE"} /\ x.state # t
                      THEN Len(x.word) + 1 ELSE x.colon]

(* ParaseRequest on the data of one read; its result is whether the state  *)
(* is COMPLETE.                                                            *)
ParaseRequest(x, data) ==
  LET after[i \in 0 .. Len(data)] ==
        IF i = 0 THEN [x EXCEPT !.word = None, !.colon = 1]
        ELSE LET before == after[i - 1]
             IN  IF before.state \in Final THEN before
                 ELSE Step(before, SubSeq(data, i, Len(data)))
  IN  after[Len(data)]

IsCompleteRequest(x) == x.state = "COMPLETE"

(* Mutant of ResetContextStatus: missing.                                  *)
ResetNothing(x) == x

ResetContextStatus(x) == [x EXCEPT !.state = "START"]
=============================================================================
