----------------------------- MODULE MCRoadmap -----------------------------
(* Two writers and a reader of one roadmap.                                  *)
EXTENDS Roadmap, TLC

CONSTANTS a, b, r

MCWriters == {a, b}
=============================================================================
