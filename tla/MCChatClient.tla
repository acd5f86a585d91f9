---------------------------- MODULE MCChatClient ----------------------------
(* A client for TLC, with texts and files at the limits of their size.     *)
EXTENDS ChatClient

(* The last text that is allowed, and one that is longer in JSON.          *)
MCTexts == {[utf8 |-> 65236, json |-> 65236], [utf8 |-> 5000000, json |-> 10000000]}
MCFiles == {[bytes |-> MAX_FILE_SIZE, name |-> "safe"], [bytes |-> 1, name |-> "refused"]}
=============================================================================
