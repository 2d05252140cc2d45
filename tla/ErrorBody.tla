------------------------------ MODULE ErrorBody ------------------------------
(* The JSON body of an error answer, src/src/http/response.rs.  A message is  *)
(* a sequence of characters; characters that need no escape are all alike.    *)
EXTENDS Integers, Sequences

CONSTANTS
  Named,    \* the escaped characters with a letter of their own, to the letter
  Control   \* the other control characters, to their four hex digits

(* Mutant: the backslash is not escaped.                                      *)
EscapeQuoteOnly(c) ==
  CASE c \in DOMAIN Named \ {"backslash"}  -> <<"backslash", Named[c]>>
    [] c \in DOMAIN Control \ DOMAIN Named -> <<"backslash", "u">> \o Control[c]
    [] OTHER                               -> <<c>>

Escape(c) ==
  CASE c \in DOMAIN Named                  -> <<"backslash", Named[c]>>
    [] c \in DOMAIN Control \ DOMAIN Named -> <<"backslash", "u">> \o Control[c]
    [] OTHER                               -> <<c>>

JsonEscape(message) ==
  LET out[i \in 0..Len(message)] ==
        IF i = 0 THEN <<>> ELSE out[i - 1] \o Escape(message[i])
  IN  out[Len(message)]
=============================================================================
