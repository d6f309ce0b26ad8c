--------------------------- MODULE MCKafkaIngest ---------------------------
(* Instances of KafkaIngest for TLC. *)
EXTENDS KafkaIngest, TLC

CONSTANTS n1, n2, nginx, tomcat, t1, t2

MCOneNode  == {n1}
MCTwoNodes == {n1, n2}
MCClusters == {nginx, tomcat}
MCTargets  == {t1, t2}

MCOneCluster == {nginx}
MCOneTarget  == {t1}
MCOneFile    == nginx :> t1
MCGarbledFirst == <<Garbled, nginx>>

\* The listed log, a file the port file does not list yet, the listed one again.
MCClusterOf3 == <<nginx, tomcat, nginx>>
MCFile       == nginx :> t1 @@ tomcat :> Unlisted
=============================================================================
