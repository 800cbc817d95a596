---------------------------- MODULE SliceAssigner ----------------------------
\* The arithmetic of nes-physical-operators, SliceAssigner.hpp: sliding windows
\* of a size and a slide are cut into slices, and a slice ends where the next
\* window starts or ends.  The numbers are far from the limits of uint64_t.
EXTENDS Integers, FiniteSetsExt

getSliceStartTs(size, slide, ts) ==
    LET prevSlideStart == ts - (ts % slide)
        prevWindowStart == IF ts < size THEN prevSlideStart ELSE ts - ((ts - size) % slide)
    IN  Max({prevSlideStart, prevWindowStart})

getSliceEndTs(size, slide, ts) ==
    LET nextSlideEnd == ts + slide - (ts % slide)
        nextWindowEnd == IF ts < size THEN size ELSE ts + slide - ((ts - size) % slide)
    IN  Min({nextSlideEnd, nextWindowEnd})

\* The ends of the windows that contain the slice from start to end.
getAllWindowsForSlice(size, slide, start, end) ==
    LET window == Max({end, size})
        aligned == (window - size) % slide = 0
        first == IF aligned THEN window ELSE start + slide
        last == IF aligned THEN start + size ELSE window + size - slide
    IN  {e \in first..last : (e - first) % slide = 0}

\* The reference: the ends of the windows that a timestamp lies in.
ContainingWindows(size, slide, ts) ==
    {e \in size..(ts + size) : (e - size) % slide = 0 /\ e - size <= ts /\ ts < e}

\* The windows that the assigner computes for the slice of a timestamp are the
\* windows that each timestamp in the slice lies in, whether windows overlap,
\* touch or leave gaps, and the timestamps of a slice agree on its bounds.
SliceMakesUpItsWindows(size, slide, ts) ==
    LET start == getSliceStartTs(size, slide, ts)
        end == getSliceEndTs(size, slide, ts)
    IN  /\ ts \in start..(end - 1)
        /\ \A t \in start..(end - 1) :
             /\ getSliceStartTs(size, slide, t) = start /\ getSliceEndTs(size, slide, t) = end
             /\ getAllWindowsForSlice(size, slide, start, end) = ContainingWindows(size, slide, t)
=============================================================================
