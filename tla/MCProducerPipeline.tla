------------------------- MODULE MCProducerPipeline -------------------------
\* Constant of the instances of ProducerPipeline that TLC checks.
EXTENDS ProducerPipeline

\* Two signals of the user, which share no time point.
SignalIndex == <<0, 1>>
=============================================================================
