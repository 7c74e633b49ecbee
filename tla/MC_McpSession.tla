--------------------------- MODULE MC_McpSession ---------------------------
(***************************************************************************)
(* Instances of McpSession: one or two sessions, one stream, one or two    *)
(* tool calls.  The client of session a supports both kinds of questions,  *)
(* that of b only forms.  A queue of four has room for every question of   *)
(* the instance and the sentinel.                                          *)
(***************************************************************************)
EXTENDS McpSession

CONSTANTS a, b, k1, t1, t2

MCSupports == [sid \in {a, b} |-> IF sid = a THEN {"form", "url"} ELSE {"form"}]

\* t1 creates a release and offers a URL, t2 asks for one form.
FormAndUrl == [t \in {t1, t2} |-> IF t = t1 THEN <<"form", "url">> ELSE <<"form">>]

\* A platform is named in the call and connected.
UrlOnly == [t \in {t1, t2} |-> <<"url">>]
=============================================================================
