----------------------------- MODULE MC_Session -----------------------------
EXTENDS Session, TLC

(* The command scripts of the clients the server is written for: FMLE   *)
(* publishing and unpublishing, a Flash player, a Flash publisher (which *)
(* sends createStream then publish), and a client whose connect lacks a *)
(* usable tcUrl.                                                         *)
FMLEPublisher == <<"connect", "releaseStream", "FCPublish", "createStream",
                   "publish", "audio", "FCUnpublish">>
FlashPlayer == <<"connect", "createStream", "play", "audio">>
FlashPublisher == <<"connect", "createStream", "publish">>
BadConnect == <<"connectBadTcUrl">>

MCScripts == {FMLEPublisher, FlashPlayer, FlashPublisher, BadConnect}

(* Out-of-turn messages: an unknown command, media, a command that does *)
(* not decode, and a play where no play is expected.                     *)
MCNoise == {"_checkbw", "audio", "undecodable", "play"}

(* The same, plus an FMLE start command sent while publishing. *)
MCNoiseFMLE == MCNoise \cup {"releaseStream"}
=============================================================================
