------------------------------- MODULE MCEcho -------------------------------
(* Echo for TLC: a text in two parts, a second text or reaction, a reply.    *)
EXTENDS Echo

CONSTANTS a1, a2, b1, f1, h1, h2, text, other

MCRows == {a1, a2, b1, f1, h1, h2}
MCSends == {text, other}

\* The reply and the fallbacks were typed on another client of the account, so
\* that their sender is the Matrix user's.
MCOutgoing == {a1, a2, b1, f1, h1, h2}
MCOwn == {a1, a2, b1}

MCParts == [s \in MCSends |-> IF s = text THEN <<a1, a2>> ELSE <<b1>>]

\* That client reacts to the reply and takes it back;
\* the reaction sent from the room quotes the reply too.
MCFallbacks == {b1, h1, h2}
MCQuotes == [f \in MCFallbacks |-> {f1}]
MCNoQuotes == [f \in {} |-> {}]

\* The one text and the reply only.
MCOneText == {text}
MCTextParts == [s \in MCOneText |-> <<a1, a2>>]
MCTextRows == {a1, a2, f1}

\* A text and a reaction to its first part.
MCPrunes == {a1, a2, b1}
MCOwnReaction == {b1}
MCQuotesText == [f \in MCOwnReaction |-> {a1}]
=============================================================================
