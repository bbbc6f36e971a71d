--------------------------- MODULE MCMessagePipeline ---------------------------
(***************************************************************************)
(* Instances of MessagePipeline for TLC: the channels differ in who gives  *)
(* the session, who sends, the platform gate and the consent conversation. *)
(***************************************************************************)
EXTENDS MessagePipeline

CONSTANTS m1, m2, m3, v1

Telegram == [preset |-> FALSE, sends |-> TRUE, gate |-> "lenient", conv |-> TRUE,
             form |-> TRUE, seed |-> TRUE, retries |-> FALSE, arrivals |-> {m1, m2},
             kinds |-> {"text", "token", "reset", "voice", "adhoc"}]
TelegramOpen == [Telegram EXCEPT !.form = FALSE, !.kinds = {"text", "reset", "unsupported"}]
Connect == [Telegram EXCEPT !.gate = "strict", !.seed = FALSE, !.kinds = {"text", "token"}]
Web == [preset |-> TRUE, sends |-> FALSE, gate |-> "none", conv |-> FALSE, form |-> TRUE,
        seed |-> FALSE, retries |-> FALSE, arrivals |-> {m1, m2}, kinds |-> {"text"}]
Api == [Telegram EXCEPT !.gate = "none", !.sends = FALSE, !.arrivals = {m1, m2, m3},
                        !.kinds = {"text", "token"}]
Email == [Telegram EXCEPT !.gate = "none", !.conv = FALSE, !.form = FALSE,
                          !.retries = TRUE, !.kinds = {"text"}]

MCMessages == {m1, m2, m3}
MCVersions == {v1}
MCChannels == {Telegram, TelegramOpen, Connect, Web, Api, Email}
================================================================================
