-------------------------- MODULE MCServiceInstances --------------------------
(* Two entries, one shared and one private, and two or three connections.    *)
EXTENDS ServiceInstances, TLC

CONSTANTS shared, private

MCEntry == {shared, private}
MCGlobal == {shared}
===============================================================================
