--------------------------- MODULE MCChatSessions ---------------------------
EXTENDS ChatSessions, TLC

CONSTANTS s1, s2, r1, r2, r3

\* Two requests of one page and one of another.
TwoPages == r1 :> s1 @@ r2 :> s1 @@ r3 :> s2

=============================================================================
