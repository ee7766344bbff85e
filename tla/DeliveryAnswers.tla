--------------------------- MODULE DeliveryAnswers ---------------------------
(* What one delivery (deliver_telegram_targets) of an event may do to any    *)
(* one of its chats: to the standing of the event with that chat, whether    *)
(* the chat got the message now, and what the delivery as a whole returned.  *)
(* "none" is a chat that got nothing and may be tried again or given up.     *)
(* With other chats in the delivery an error may be theirs, and so may the   *)
(* message that was sent.                                                    *)
Deliveries(status) ==
  CASE status = "none" -> {<<"sent", 1, "all_sent">>, <<"sent", 1, "errors">>,
                           <<"none", 0, "errors">>,
                           <<"unknown", 0, "errors">>, <<"unknown", 1, "errors">>}
    [] status = "sent" -> {<<"sent", 0, "all_sent">>, <<"sent", 0, "suppressed">>,
                           <<"sent", 0, "errors">>}
    [] status = "unknown" -> {<<"unknown", 0, "errors">>}
Delivered(answer) == answer \in {"all_sent", "suppressed"}
=============================================================================
