--------------------------- MODULE MCHttpSession ---------------------------
(* The requests of a browser, for TLC: pages that exist or not, with and   *)
(* without parameters, the login form, a body that quotes a request, and   *)
(* clients of version 1.0.                                                 *)
EXTENDS HttpSession

Get(url, params, version, headers) ==
  [method |-> "GET", url |-> url, params |-> params, version |-> version,
   headers |-> headers, body |-> <<>>]
Post(url, headers, body) ==
  [method |-> "POST", url |-> url, params |-> <<>>, version |-> "1.1",
   headers |-> headers, body |-> body]

Home == <<"/">>
Quoted == <<"CR", "LF">> \o Format(Get(Home, <<>>, "1.1", <<>>))
MCRequests ==
  {Get(Home, <<<<"k", "v">>, <<"l", "w">>>>, "1.1", <<>>),
   Get(<<"/", "mhw">>, <<<<"k", "w">>>>, "1.1", <<<<"Connection", "close">>>>),
   Get(<<"/", "x">>, <<>>, "1.1", <<>>),
   Get(Home, <<>>, "1.0", <<<<"Connection", "keep-alive">>>>),
   Post(<<"/", "login">>, <<<<"Content-Length", "18">>>>, <<"username", "=", "u">>),
   Post(<<"/", "login">>, <<<<"Content-Length", "0">>>>, <<>>),
   Post(<<"/", "x">>, <<>>, Quoted)}
MCWords ==
  UpperWords \cup DigitWords \cup {" ", "?", "&", "=", ":", "/", "CR", "LF"}
    \cup {"x", "login", "mhw", "k", "l", "v", "w", "Connection", "close", "keep-alive",
          "Content-Length", "username", "u"}
=============================================================================
