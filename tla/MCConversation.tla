---------------------------- MODULE MCConversation ----------------------------
(* Conversation on small instances for TLC.                                *)
EXTENDS Conversation

(* A prompt of one block, and prompts that fill another with what was left *)
(* over.                                                                   *)
ShortPrompts == <<2, 2, 2>>
=============================================================================
