---------------------------- MODULE MCSleepyUpdates ----------------------------
EXTENDS SleepyUpdates

\* Each object has two modules; the third object is created in the course of the game.
MCObjectOf == <<1, 1, 2, 2, 3, 3>>

\* AI, physics and normal modules and a firing tracker.
MCPhase == <<0, 2, 2, 3, 2, 1>>
================================================================================
