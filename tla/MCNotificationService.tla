----------------------- MODULE MCNotificationService -----------------------
(* Small instances of NotificationService for TLC. *)
EXTENDS NotificationService, TLC

CONSTANTS t1, t2, discord, slack

ThreadValue == {t1, t2}
ProviderValue == {discord, slack}
=============================================================================
