---------------------------- MODULE MCAppLifecycle ----------------------------
(* The databases domain comes after one of the application's own.           *)
EXTENDS AppLifecycle

CONSTANTS default, replica, users, databases

TwoEngines == <<default, replica>>
TwoDomains == <<users, databases>>
=============================================================================
