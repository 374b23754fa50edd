------------------------ MODULE MCScrapedPipeline ------------------------
EXTENDS ScrapedPipeline, MCDataFlow

Limiter(p, next) == [Processor(p, FALSE, next) EXCEPT !.limits = TRUE]

\* Pipelines that start with a memory limiter, behind one receiver.
OneLimited ==
  { << FanOut(0, {2}), Pipeline(3), Limiter(2, 4), FanOut(2, {5}), Exporter(x, TRUE) >> :
    x \in BOOLEAN }

\* Two pipelines that share the limiter.
MCSharedLimiter ==
  { [nodes |-> << FanOut(0, {2, 5}),
                  Pipeline(3), Limiter(2, 4), FanOut(2, {8}),
                  Pipeline(6), Limiter(5, 7), FanOut(5, {8}), Exporter(FALSE, FALSE) >>,
     pooling |-> FALSE] }

MCScraped == {[nodes |-> g, pooling |-> TRUE] : g \in OneLimited} 
             \union MCSharedLimiter \union MCConfigs

MCLimiters == {3, 6}
MCReadings == {50, 85, 99, 100, 120}
===========================================================================
