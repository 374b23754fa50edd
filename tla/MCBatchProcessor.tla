-------------------------- MODULE MCBatchProcessor --------------------------
\* Small instances of BatchProcessor.
EXTENDS BatchProcessor

Res(of, kids) == [of |-> of, kids |-> kids]

MCProducer == 1..3
MCMetadataOf == <<"a", "a", "b">>

\* Two resources of which one has two scopes; one item; three items of one scope.
MCLogsOf ==
  << << Res("r1", << Res("s1", <<1>>), Res("s2", <<2>>) >>), Res("r2", << Res("s3", <<3>>) >>) >>,
     << Res("r1", << Res("s1", <<4>>) >>) >>,
     << Res("r1", << Res("s1", <<5, 6, 7>>) >>) >> >>

\* Two metrics; a metric without points; an empty metric before one of three points.
MCMetricsOf ==
  << << Res("r1", << Res("s1", << Res("m1", <<1, 2>>), Res("m2", <<3>>) >>) >>) >>,
     << Res("r3", << Res("s1", << Res("m1", <<>>) >>) >>) >>,
     << Res("r1", << Res("s1", << Res("m3", <<>>) >>), Res("s2", << Res("m1", <<5, 6, 7>>) >>) >>) >> >>

Config(metrics, keys, limit, timeout, size_, max) ==
  [metrics |-> metrics, keys |-> keys, limit |-> limit, timeout |-> timeout,
   size |-> size_, max |-> max]

MCConfigs ==
  { Config(FALSE, FALSE, 0, TRUE, 2, 2),     \* one shard, requests of exactly two
    Config(TRUE,  FALSE, 0, TRUE, 3, 0),     \* metrics, no maximum
    Config(TRUE,  FALSE, 0, FALSE, 2, 2),    \* no timeout: sent immediately
    Config(FALSE, TRUE,  1, TRUE, 2, 2),     \* by metadata, one combination
    Config(TRUE,  TRUE,  2, TRUE, 0, 2) }    \* by metadata, no size

MCConfigsValid == {c \in MCConfigs : Valid(c)}
============================================================================
